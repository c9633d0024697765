-------------------------- MODULE CertificatesProofs --------------------------
(***************************************************************************)
(* Theorems about Certificates, for every lifetime, every length of time     *)
(* and any number of crashes, refused calls, renames and deletions.          *)
(***************************************************************************)
EXTENDS Certificates, SequenceTheorems, TLAPS

-----------------------------------------------------------------------------
(* Where a sync can be. *)

Left1 == <<<<"client", "conn">>>>
Left2 == <<<<"serving", "cert">>, <<"client", "conn">>>>
Left3 == <<<<"serving", "bundle">>, <<"serving", "cert">>, <<"client", "conn">>>>
Left4 == <<<<"serving", "ca">>, <<"serving", "bundle">>, <<"serving", "cert">>, <<"client", "conn">>>>
Left5 == <<<<"client", "cert">>, <<"serving", "ca">>, <<"serving", "bundle">>, <<"serving", "cert">>,
           <<"client", "conn">>>>
Left6 == <<<<"client", "bundle">>, <<"client", "cert">>, <<"serving", "ca">>, <<"serving", "bundle">>,
           <<"serving", "cert">>, <<"client", "conn">>>>
Left7 == <<<<"client", "ca">>, <<"client", "bundle">>, <<"client", "cert">>, <<"serving", "ca">>,
           <<"serving", "bundle">>, <<"serving", "cert">>, <<"client", "conn">>>>

Calls == Chains \X {"ca", "bundle", "cert", "conn"}

Suffixes == {<<>>, Left1, Left2, Left3, Left4, Left5, Left6, Left7}

\* The call that the sync is at.
AtCA(c) == todo = IF c = "client" THEN Left7 ELSE Left4
AtBundle(c) == todo = IF c = "client" THEN Left6 ELSE Left3
AtCert(c) == todo = IF c = "client" THEN Left5 ELSE Left2

\* The sync has yet to write the bundle of the chain.
Ahead(c) == AtCA(c) \/ AtBundle(c) \/ (c = "serving" /\ todo \in {Left5, Left6, Left7})

\* The sync is under way and has dealt with the leaf of the chain.
Passed(c) == todo = Left1 \/ (c = "client" /\ todo \in {Left4, Left3, Left2})

-----------------------------------------------------------------------------
(* The inductive invariant. *)

\* Every CA there is, in the cluster or in the operator's memory.
AuthoritiesOf(c) == bundle[c] \cup snap.bundle[c] \cup {ca[c], snap.ca[c]}
Authorities == (AuthoritiesOf("client") \cup AuthoritiesOf("serving") \cup {signer}) \ {None}

\* A CA is self-signed and lives as long as every CA.
SoundCA(a) ==
  /\ a \in Certs /\ a.id \in 1..serial /\ a.issuer = a.id /\ a.names = 0
  /\ a.from <= now /\ a.to = a.from + CAValidity

\* The CAs are sound and have numbers of their own.
AuthoritiesSound ==
  /\ \A a \in Authorities : SoundCA(a)
  /\ \A a, b \in Authorities : a.id = b.id => a = b

\* What the types do not say of the sync and of the bounds.
SyncSound ==
  /\ todo \in Suffixes
  /\ bundle \in [Chains -> SUBSET Certs]
  /\ snap.ca \in [Chains -> Certs] /\ snap.cert \in [Chains -> Certs]
  /\ snap.bundle \in [Chains -> SUBSET Certs] /\ snap.names \in Nat
  /\ names <= used.others + 1
  /\ \A c \in Chains : None \notin bundle[c] /\ None \notin snap.bundle[c]
  /\ \A c \in Chains : AtBundle(c) \/ AtCert(c) => signer # None

\* Before a sync comes to an object, nobody but a user has touched it.
ViewsCurrent ==
  \A c \in Chains :
    /\ todo # <<>> /\ ~Passed(c) => cert[c] \in {snap.cert[c], None}
    /\ Ahead(c) => bundle[c] = snap.bundle[c]

\* The clock does not run away from the syncs.
GapKept == now <= lastSync + MaxGap

\* A leaf is in the bundle, and with it every CA of its issuer's number was within
\* its refresh time, with `slack', when the last sync ended.
Covered(c, slack) ==
  /\ \E b \in bundle[c] : b.id = cert[c].issuer
  /\ \A b \in bundle[c] : b.id = cert[c].issuer => lastSync <= b.from + CARefresh + slack
  /\ lastSync <= cert[c].from + CertRefresh + slack
  /\ cert[c].to = cert[c].from + CertValidity

\* The CA that signs is young enough, and published when the leaf is signed.
SignerFresh ==
  \A c \in Chains :
    /\ AtBundle(c) \/ AtCert(c) => lastSync <= signer.from + CARefresh
    /\ AtCert(c) => signer \in bundle[c]

LeavesCovered ==
  \A c \in Chains : cert[c] # None =>
    Covered(c, MaxGap) /\ (Passed(c) /\ ~failed => Covered(c, 0))

\* Holds whatever is deleted.
AInv == TypeOK /\ SyncSound /\ AuthoritiesSound

\* Holds while no bundle is deleted.
IInv == AInv /\ ViewsCurrent /\ GapKept /\ SignerFresh /\ LeavesCovered

-----------------------------------------------------------------------------
(* Lemmas about the calls of a sync. *)

\* The calls left, one after the other.
LEMMA SuffixFacts ==
  /\ Left1 # <<>> /\ Head(Left1) = <<"client", "conn">> /\ Tail(Left1) = <<>>
  /\ Left2 # <<>> /\ Head(Left2) = <<"serving", "cert">> /\ Tail(Left2) = Left1
  /\ Left3 # <<>> /\ Head(Left3) = <<"serving", "bundle">> /\ Tail(Left3) = Left2
  /\ Left4 # <<>> /\ Head(Left4) = <<"serving", "ca">> /\ Tail(Left4) = Left3
  /\ Left5 # <<>> /\ Head(Left5) = <<"client", "cert">> /\ Tail(Left5) = Left4
  /\ Left6 # <<>> /\ Head(Left6) = <<"client", "bundle">> /\ Tail(Left6) = Left5
  /\ Left7 # <<>> /\ Head(Left7) = <<"client", "ca">> /\ Tail(Left7) = Left6
BY DEF Left1, Left2, Left3, Left4, Left5, Left6, Left7

LEMMA SuffixTypes ==
  ASSUME NEW s \in Suffixes
  PROVE s \in Seq(Calls) /\ Len(s) <= 7
<1>1. /\ <<>> \in Seq(Calls) /\ Len(<<>>) <= 7
      /\ Left1 \in Seq(Calls) /\ Len(Left1) <= 7
      /\ Left2 \in Seq(Calls) /\ Len(Left2) <= 7
      /\ Left3 \in Seq(Calls) /\ Len(Left3) <= 7
  BY DEF Calls, Chains, Left1, Left2, Left3
<1>2. /\ Left4 \in Seq(Calls) /\ Len(Left4) <= 7
      /\ Left5 \in Seq(Calls) /\ Len(Left5) <= 7
  BY DEF Calls, Chains, Left4, Left5
<1>3. /\ Left6 \in Seq(Calls) /\ Len(Left6) <= 7
      /\ Left7 \in Seq(Calls) /\ Len(Left7) <= 7
  BY DEF Calls, Chains, Left6, Left7
<1> QED
  BY <1>1, <1>2, <1>3, Zenon DEF Suffixes

\* Concatenation, element by element.
LEMMA ConcatOf ==
  ASSUME NEW s1 \in Seq(Calls), NEW s2 \in Seq(Calls), NEW w, w = s1 \o s2
  PROVE /\ w \in Seq(Calls) /\ Len(w) = Len(s1) + Len(s2)
        /\ \A i \in 1..Len(s1) + Len(s2) : w[i] = IF i <= Len(s1) THEN s1[i] ELSE s2[i - Len(s1)]
BY ConcatProperties, Zenon

\* A chain and the calls after it.
LEMMA ServingThenConn == Stages("serving") \o <<<<"client", "conn">>>> = Left4
<1> DEFINE st == Stages("serving")
<1> DEFINE cn == <<<<"client", "conn">>>>
<1>1. st \in Seq(Calls) /\ Len(st) = 3 /\ cn \in Seq(Calls) /\ Len(cn) = 1
  BY DEF Stages, Calls, Chains
<1>2. /\ st[1] = <<"serving", "ca">> /\ st[2] = <<"serving", "bundle">> /\ st[3] = <<"serving", "cert">>
      /\ cn[1] = <<"client", "conn">>
  BY DEF Stages
<1>3. /\ Left4 \in Seq(Calls) /\ Len(Left4) = 4
      /\ Left4[1] = <<"serving", "ca">> /\ Left4[2] = <<"serving", "bundle">>
      /\ Left4[3] = <<"serving", "cert">> /\ Left4[4] = <<"client", "conn">>
  BY DEF Left4, Calls, Chains
<1> HIDE DEF st, cn
<1> DEFINE w == st \o cn
<1> HIDE DEF w
<1>3a. w = st \o cn
  BY DEF w
<1>3b. /\ w \in Seq(Calls) /\ Len(w) = Len(st) + Len(cn)
       /\ \A i \in 1..Len(st) + Len(cn) : w[i] = IF i <= Len(st) THEN st[i] ELSE cn[i - Len(st)]
  BY <1>1, <1>3a, ConcatOf, Zenon
<1>4. /\ w \in Seq(Calls) /\ Len(w) = 4
      /\ \A i \in 1..4 : w[i] = IF i <= 3 THEN st[i] ELSE cn[i - 3]
  BY <1>1, <1>3b
<1>4a. w[1] = st[1] /\ w[2] = st[2] /\ w[3] = st[3] /\ w[4] = cn[1]
  BY <1>4
<1>4b. w[1] = Left4[1] /\ w[2] = Left4[2] /\ w[3] = Left4[3] /\ w[4] = Left4[4]
  BY <1>2, <1>3, <1>4a, Zenon
<1>5. \A i \in 1..4 : w[i] = Left4[i]
  <2> TAKE i \in 1..4
  <2>1. i = 1 \/ i = 2 \/ i = 3 \/ i = 4
    OBVIOUS
  <2> QED
    BY <2>1, <1>4b
<1>6. w = Left4
  BY <1>3, <1>4, <1>5, SeqEqual
<1> QED
  BY <1>6, <1>3a DEF st, cn

\* syncCerts is all seven calls.
LEMMA SyncIsLeft7 == syncCerts = Left7
<1> DEFINE cl == Stages("client")
<1> DEFINE st == Stages("serving")
<1> DEFINE cn == <<<<"client", "conn">>>>
<1>1. cl \in Seq(Calls) /\ Len(cl) = 3 /\ st \in Seq(Calls) /\ Len(st) = 3 /\ cn \in Seq(Calls) /\ Len(cn) = 1
  BY DEF Stages, Calls, Chains
<1>2. /\ cl[1] = <<"client", "ca">> /\ cl[2] = <<"client", "bundle">> /\ cl[3] = <<"client", "cert">>
      /\ st[1] = <<"serving", "ca">> /\ st[2] = <<"serving", "bundle">> /\ st[3] = <<"serving", "cert">>
      /\ cn[1] = <<"client", "conn">>
  BY DEF Stages
<1>3. /\ Left7 \in Seq(Calls) /\ Len(Left7) = 7
      /\ Left7[1] = <<"client", "ca">> /\ Left7[2] = <<"client", "bundle">> /\ Left7[3] = <<"client", "cert">>
      /\ Left7[4] = <<"serving", "ca">> /\ Left7[5] = <<"serving", "bundle">>
      /\ Left7[6] = <<"serving", "cert">> /\ Left7[7] = <<"client", "conn">>
  BY DEF Left7, Calls, Chains
<1>4. syncCerts = (cl \o st) \o cn
  BY DEF syncCerts
<1> HIDE DEF cl, st, cn
<1> DEFINE cs == cl \o st
<1> DEFINE w == cs \o cn
<1> HIDE DEF cs, w
<1>5. cs = cl \o st /\ w = cs \o cn
  BY DEF cs, w
<1>6. /\ cs \in Seq(Calls) /\ Len(cs) = Len(cl) + Len(st)
      /\ \A i \in 1..Len(cl) + Len(st) : cs[i] = IF i <= Len(cl) THEN cl[i] ELSE st[i - Len(cl)]
  BY <1>1, <1>5, ConcatOf, Zenon
<1>7. /\ w \in Seq(Calls) /\ Len(w) = Len(cs) + Len(cn)
      /\ \A i \in 1..Len(cs) + Len(cn) : w[i] = IF i <= Len(cs) THEN cs[i] ELSE cn[i - Len(cs)]
  <2>1. cs \in Seq(Calls) /\ cn \in Seq(Calls) /\ w = cs \o cn
    BY <1>1, <1>5, <1>6, Zenon
  <2> QED
    BY <2>1, ConcatOf, Zenon
<1>8. /\ Len(cs) = 6 /\ Len(w) = 7
      /\ \A i \in 1..6 : cs[i] = IF i <= 3 THEN cl[i] ELSE st[i - 3]
      /\ \A i \in 1..7 : w[i] = IF i <= 6 THEN cs[i] ELSE cn[i - 6]
  BY <1>1, <1>6, <1>7
<1>8a. /\ w[1] = cl[1] /\ w[2] = cl[2] /\ w[3] = cl[3]
       /\ w[4] = st[1] /\ w[5] = st[2] /\ w[6] = st[3] /\ w[7] = cn[1]
  BY <1>8
<1>8b. /\ w[1] = Left7[1] /\ w[2] = Left7[2] /\ w[3] = Left7[3] /\ w[4] = Left7[4]
       /\ w[5] = Left7[5] /\ w[6] = Left7[6] /\ w[7] = Left7[7]
  BY <1>2, <1>3, <1>8a, Zenon
<1>9. \A i \in 1..7 : w[i] = Left7[i]
  <2> TAKE i \in 1..7
  <2>1. i = 1 \/ i = 2 \/ i = 3 \/ i = 4 \/ i = 5 \/ i = 6 \/ i = 7
    OBVIOUS
  <2> QED
    BY <2>1, <1>8b
<1>10. w = Left7
  BY <1>3, <1>7, <1>8, <1>9, SeqEqual
<1> QED
  BY <1>4, <1>5, <1>10

\* What is left after a chain is given up.
LEMMA AfterChainIs ==
  /\ AfterChain(<<"client", "conn">>) = <<>>
  /\ \A stage \in {"ca", "bundle", "cert"} :
       AfterChain(<<"client", stage>>) = Left4 /\ AfterChain(<<"serving", stage>>) = Left1
<1>1. Left1 \in Seq(Calls) /\ <<>> \o Left1 = Left1
  BY SuffixTypes, ConcatEmptySeq DEF Suffixes
<1>2. AfterChain(<<"client", "conn">>) = <<>>
  BY DEF AfterChain
<1>3. ASSUME NEW stage \in {"ca", "bundle", "cert"}
      PROVE AfterChain(<<"client", stage>>) = Left4 /\ AfterChain(<<"serving", stage>>) = Left1
  <2>1. AfterChain(<<"client", stage>>) = Stages("serving") \o <<<<"client", "conn">>>>
    BY DEF AfterChain
  <2>2. AfterChain(<<"serving", stage>>) = <<>> \o Left1
    BY DEF AfterChain, Left1
  <2> QED
    BY <2>1, <2>2, <1>1, ServingThenConn
<1> QED
  BY <1>2, <1>3

-----------------------------------------------------------------------------
(* How a sync moves from call to call. *)

LEMMA SuffixLengths ==
  /\ Len(Left1) = 1 /\ Len(Left2) = 2 /\ Len(Left3) = 3
  /\ Len(Left4) = 4 /\ Len(Left5) = 5 /\ Len(Left6) = 6 /\ Len(Left7) = 7
BY DEF Left1, Left2, Left3, Left4, Left5, Left6, Left7

LEMMA SuffixesAre ==
  /\ <<>> \in Suffixes /\ Left1 \in Suffixes /\ Left2 \in Suffixes /\ Left3 \in Suffixes
  /\ Left4 \in Suffixes /\ Left5 \in Suffixes /\ Left6 \in Suffixes /\ Left7 \in Suffixes
BY DEF Suffixes

\* All of them are different.
LEMMA Distinct ==
  /\ Left1 # <<>> /\ Left2 # <<>> /\ Left3 # <<>> /\ Left4 # <<>> /\ Left5 # <<>> /\ Left6 # <<>> /\ Left7 # <<>>
  /\ Left1 # Left2 /\ Left1 # Left3 /\ Left1 # Left4 /\ Left1 # Left5 /\ Left1 # Left6 /\ Left1 # Left7
  /\ Left2 # Left3 /\ Left2 # Left4 /\ Left2 # Left5 /\ Left2 # Left6 /\ Left2 # Left7
  /\ Left3 # Left4 /\ Left3 # Left5 /\ Left3 # Left6 /\ Left3 # Left7
  /\ Left4 # Left5 /\ Left4 # Left6 /\ Left4 # Left7
  /\ Left5 # Left6 /\ Left5 # Left7 /\ Left6 # Left7
<1>1. Left1 # Left2 /\ Left1 # Left3 /\ Left1 # Left4 /\ Left1 # Left5 /\ Left1 # Left6 /\ Left1 # Left7
  BY SuffixLengths
<1>2. Left2 # Left3 /\ Left2 # Left4 /\ Left2 # Left5 /\ Left2 # Left6 /\ Left2 # Left7
  BY SuffixLengths
<1>3. Left3 # Left4 /\ Left3 # Left5 /\ Left3 # Left6 /\ Left3 # Left7
  BY SuffixLengths
<1>4. Left4 # Left5 /\ Left4 # Left6 /\ Left4 # Left7
  BY SuffixLengths
<1>5. Left5 # Left6 /\ Left5 # Left7
  BY SuffixLengths
<1>6. Left6 # Left7
  BY SuffixLengths
<1> QED
  BY <1>1, <1>2, <1>3, <1>4, <1>5, <1>6, SuffixFacts

\* The call at the head says where the sync is.
LEMMA CallIs ==
  ASSUME todo \in Suffixes, todo # <<>>, NEW c \in Chains
  PROVE /\ Head(todo) = <<c, "ca">> => AtCA(c)
        /\ Head(todo) = <<c, "bundle">> => AtBundle(c)
        /\ Head(todo) = <<c, "cert">> => AtCert(c)
        /\ Head(todo)[2] = "conn" => todo = Left1
<1>1. c = "client" \/ c = "serving"
  BY DEF Chains
<1>2. \/ todo = Left1 \/ todo = Left2 \/ todo = Left3 \/ todo = Left4
      \/ todo = Left5 \/ todo = Left6 \/ todo = Left7
  BY DEF Suffixes
<1> QED
  BY <1>1, <1>2, SuffixFacts DEF AtCA, AtBundle, AtCert

LEMMA TailOfCA ==
  ASSUME NEW c \in Chains, NEW d \in Chains, AtCA(c), todo' = Tail(todo)
  PROVE /\ todo' \in Suffixes /\ todo' # <<>> /\ AtBundle(c)' /\ ~AtCert(d)' /\ (AtBundle(d)' => d = c)
        /\ (Passed(d)' <=> Passed(d)) /\ (Ahead(d)' => Ahead(d))
<1>1. d = "client" \/ d = "serving"
  BY DEF Chains
<1>2. CASE c = "client"
  <2>1. todo = Left7 /\ todo' = Left6
    BY <1>2, SuffixFacts DEF AtCA
  <2> QED
    BY <1>1, <1>2, <2>1, SuffixesAre, Distinct DEF AtCA, AtBundle, AtCert, Passed, Ahead
<1>3. CASE c = "serving"
  <2>1. todo = Left4 /\ todo' = Left3
    BY <1>3, SuffixFacts DEF AtCA
  <2> QED
    BY <1>1, <1>3, <2>1, SuffixesAre, Distinct DEF AtCA, AtBundle, AtCert, Passed, Ahead
<1> QED
  BY <1>2, <1>3 DEF Chains

LEMMA TailOfBundle ==
  ASSUME NEW c \in Chains, NEW d \in Chains, AtBundle(c), todo' = Tail(todo)
  PROVE /\ todo' \in Suffixes /\ todo' # <<>> /\ AtCert(c)' /\ ~AtBundle(d)' /\ (AtCert(d)' => d = c)
        /\ (Passed(d)' <=> Passed(d)) /\ (Ahead(d)' => Ahead(d) /\ d # c)
<1>1. c = "client" \/ c = "serving"
  BY DEF Chains
<1>2. d = "client" \/ d = "serving"
  BY DEF Chains
<1> QED
  BY <1>1, <1>2, SuffixFacts, SuffixesAre, Distinct DEF AtCA, AtBundle, AtCert, Passed, Ahead

LEMMA TailOfCert ==
  ASSUME NEW c \in Chains, NEW d \in Chains, AtCert(c), todo' = Tail(todo)
  PROVE /\ todo' \in Suffixes /\ todo' # <<>> /\ ~AtBundle(d)' /\ ~AtCert(d)'
        /\ (Passed(d)' <=> Passed(d) \/ d = c) /\ (Ahead(d)' => Ahead(d))
<1>1. c = "client" \/ c = "serving"
  BY DEF Chains
<1>2. d = "client" \/ d = "serving"
  BY DEF Chains
<1> QED
  BY <1>1, <1>2, SuffixFacts, SuffixesAre, Distinct DEF AtCA, AtBundle, AtCert, Passed, Ahead

LEMMA GivenUp ==
  ASSUME todo \in Suffixes, todo # <<>>, Head(todo)[2] # "conn", NEW d \in Chains,
         todo' = AfterChain(Head(todo))
  PROVE /\ todo' \in Suffixes /\ todo' # <<>> /\ ~AtBundle(d)' /\ ~AtCert(d)'
        /\ (Passed(d) => Passed(d)') /\ (Ahead(d)' => Ahead(d))
<1>1. d = "client" \/ d = "serving"
  BY DEF Chains
<1>2. /\ todo = Left2 \/ todo = Left3 \/ todo = Left4 => todo' = Left1
      /\ todo = Left5 \/ todo = Left6 \/ todo = Left7 => todo' = Left4
  BY SuffixFacts, AfterChainIs
<1>3. todo # Left1
  BY SuffixFacts
<1>4. \/ todo = Left2 \/ todo = Left3 \/ todo = Left4
      \/ todo = Left5 \/ todo = Left6 \/ todo = Left7
  BY <1>3 DEF Suffixes
<1> QED
  BY <1>1, <1>2, <1>4, SuffixesAre, Distinct DEF AtCA, AtBundle, AtCert, Passed, Ahead

-----------------------------------------------------------------------------
(* What is made. *)

LEMMA NoneFacts ==
  None \in Certs /\ None.id = 0 /\ None.issuer = 0 /\ None.from = 0 /\ None.to = 0 /\ None.names = 0
BY DEF None, Certs

\* A CA that is kept is within its refresh time, and it is replaced for no other reason.
LEMMA CAMade ==
  ASSUME NEW e \in Certs, e # None => SoundCA(e), serial \in Nat, now \in Nat, NEW r, r = MakeSelfSignedCA(e)
  PROVE /\ r \in Certs /\ r # None /\ now <= r.from + CARefresh
        /\ \/ r = e
           \/ /\ r.id = serial + 1 /\ r.issuer = r.id /\ r.names = 0
              /\ r.from = now /\ r.to = r.from + CAValidity
        /\ e # None /\ r # e =>
             now > e.from + CARefresh \/ now > e.to - CAValidity \div 5
<1> USE CertificatesAssumption
<1> DEFINE self == IF e = None THEN serial + 1 ELSE e.id
<1> DEFINE new == NewCertificate(self, CAValidity, 0)
<1>1. /\ new \in [id : Nat, issuer : Nat, from : Nat, to : Nat, names : Nat]
      /\ new.id = serial + 1 /\ new.from = now /\ new.to = now + CAValidity /\ new.names = 0
  BY DEF NewCertificate, Certs
<1>2. CASE Usable(e, CARefresh, self, 0)
  <2>1. e # None /\ ~(now > e.from + CARefresh)
    BY <1>2 DEF Usable, needsRefresh
  <2>2. r = [e EXCEPT !.issuer = e.id]
    BY <1>2 DEF MakeSelfSignedCA, makeCertificate
  <2>3. e.issuer = e.id
    BY <2>1 DEF SoundCA
  <2>4. r = e
    BY <2>2, <2>3 DEF Certs
  <2> QED
    BY <2>1, <2>4 DEF Certs
<1>3. CASE ~Usable(e, CARefresh, self, 0)
  <2>1. r = [new EXCEPT !.issuer = new.id]
    BY <1>3 DEF MakeSelfSignedCA, makeCertificate
  <2> HIDE DEF new
  <2>2. /\ r \in Certs /\ r.id = serial + 1 /\ r.issuer = r.id /\ r.names = 0
        /\ r.from = now /\ r.to = r.from + CAValidity
    BY <2>1, <1>1 DEF Certs
  <2>3. r # None /\ now <= r.from + CARefresh
    BY <2>2, NoneFacts
  <2>4. ASSUME e # None
        PROVE now > e.from + CARefresh \/ now > e.to - CAValidity \div 5
    <3>1. needsRefresh(e, CARefresh, e.id, 0)
      BY <1>3, <2>4 DEF Usable
    <3>2. /\ e.issuer = e.id /\ e.names = 0 /\ e.to = e.from + CAValidity
          /\ e.from \in Nat /\ e.to \in Nat
      BY <2>4 DEF SoundCA, Certs
    <3>3. e.to - e.from = CAValidity /\ CAValidity \div 5 \in Nat
      BY <3>2
    <3>4. \/ now > e.to \/ now > e.to - CAValidity \div 5 \/ now > e.from + CARefresh
      BY <3>1, <3>2, <3>3 DEF needsRefresh
    <3> QED
      BY <3>2, <3>3, <3>4
  <2> QED
    BY <2>2, <2>3, <2>4
<1> QED
  BY <1>2, <1>3

\* A leaf is signed by the signer and within its refresh time.
LEMMA CertMade ==
  ASSUME NEW c \in Chains, NEW e \in Certs, serial \in Nat, now \in Nat, signer \in Certs,
         snap.names \in Nat, NEW r, r = MakeCertificate(c, e)
  PROVE /\ r \in Certs /\ r # None /\ r.issuer = signer.id /\ now <= r.from + CertRefresh
        /\ r = e \/ r.to = r.from + CertValidity
<1> USE CertificatesAssumption
<1> DEFINE wanted == IF c = "serving" THEN snap.names ELSE 0
<1> DEFINE new == NewCertificate(signer.id, CertValidity, wanted)
<1>1. wanted \in Nat /\ signer.id \in Nat
  BY DEF Certs
<1> HIDE DEF wanted
<1>2. /\ new \in Certs /\ new.id = serial + 1 /\ new.issuer = signer.id
      /\ new.from = now /\ new.to = now + CertValidity
  BY <1>1 DEF NewCertificate, Certs
<1>3. r = IF Usable(e, CertRefresh, signer.id, wanted) THEN e ELSE new
  BY DEF MakeCertificate, makeCertificate, wanted
<1> HIDE DEF new
<1>4. CASE Usable(e, CertRefresh, signer.id, wanted)
  BY <1>3, <1>4 DEF Usable, needsRefresh, Certs
<1>5. CASE ~Usable(e, CertRefresh, signer.id, wanted)
  BY <1>2, <1>3, <1>5, NoneFacts DEF Certs
<1> QED
  BY <1>4, <1>5

-----------------------------------------------------------------------------
(* The invariant that holds whatever is deleted. *)

LEMMA AuthorityIs ==
  ASSUME NEW a
  PROVE a \in Authorities <=>
          /\ a # None
          /\ \/ a = signer
             \/ \E c \in Chains : \/ a \in bundle[c] \/ a \in snap.bundle[c]
                                  \/ a = ca[c] \/ a = snap.ca[c]
BY DEF Authorities, AuthoritiesOf, Chains

\* No CA is new.
LEMMA AuthoritiesKept ==
  ASSUME AuthoritiesSound, serial \in Nat, serial' \in Nat, serial <= serial',
         now \in Nat, now' \in Nat, now <= now', Authorities' \subseteq Authorities
  PROVE AuthoritiesSound'
<1>1. ASSUME NEW a \in Authorities PROVE SoundCA(a)'
  <2>1. SoundCA(a)
    BY DEF AuthoritiesSound
  <2>2. a \in Certs /\ a.id \in Nat /\ a.from \in Nat
    BY <2>1 DEF SoundCA, Certs
  <2> QED
    BY <2>1, <2>2 DEF SoundCA
<1> QED
  BY <1>1 DEF AuthoritiesSound

\* One CA is new, with the next number.
LEMMA AuthoritiesGrown ==
  ASSUME AuthoritiesSound, serial \in Nat, serial' = serial + 1, now \in Nat, now' = now,
         CAValidity \in Nat, NEW x \in Certs, x.id = serial + 1, x.issuer = x.id, x.names = 0,
         x.from = now, x.to = x.from + CAValidity, Authorities' \subseteq Authorities \cup {x}
  PROVE AuthoritiesSound'
<1>1. ASSUME NEW a \in Authorities PROVE SoundCA(a)' /\ a.id # x.id
  <2>1. SoundCA(a)
    BY DEF AuthoritiesSound
  <2>2. a \in Certs /\ a.id \in Nat /\ a.from \in Nat
    BY <2>1 DEF SoundCA, Certs
  <2> QED
    BY <2>1, <2>2 DEF SoundCA
<1>2. SoundCA(x)'
  BY DEF SoundCA
<1>3. \A a, b \in Authorities : a.id = b.id => a = b
  BY DEF AuthoritiesSound
<1>4. ASSUME NEW a \in Authorities', NEW b \in Authorities', a.id = b.id PROVE a = b
  BY <1>1, <1>3, <1>4
<1> QED
  BY <1>1, <1>2, <1>4 DEF AuthoritiesSound

LEMMA TypeKept ==
  ASSUME SyncSound', AuthoritiesSound',
         now' \in 0..MaxTime, lastSync' \in 0..now', names' \in 1..(MaxEvents + 1),
         ca' \in [Chains -> Certs], cert' \in [Chains -> Certs],
         conn'.cert \in Certs, \A b \in conn'.cas : b \in Certs,
         queued' \in BOOLEAN, failed' \in BOOLEAN, signer' \in Certs, serial' \in Nat,
         used' \in [deletions : 0..MaxEvents, others : 0..MaxEvents]
  PROVE AInv'
<1>1. todo' \in Seq(Chains \X {"ca", "bundle", "cert", "conn"}) /\ Len(todo') <= 7
  <2>1. todo' \in Suffixes
    BY DEF SyncSound
  <2> QED
    BY <2>1, SuffixTypes DEF Calls
<1>2. ASSUME NEW c \in Chains, NEW b \in bundle'[c] PROVE b \in Certs /\ b.id = b.issuer
  <2>1. b # None
    BY DEF SyncSound
  <2>2. b \in Authorities'
    BY <2>1 DEF Authorities, AuthoritiesOf, Chains
  <2>3. SoundCA(b)'
    BY <2>2 DEF AuthoritiesSound
  <2> QED
    BY <2>3 DEF SoundCA
<1>3. TypeOK'
  BY <1>1, <1>2 DEF TypeOK
<1> QED
  BY <1>3 DEF AInv

LEMMA AInit == Init => AInv /\ GapKept
<1> SUFFICES ASSUME Init PROVE AInv /\ GapKept
  OBVIOUS
<1> USE CertificatesAssumption
<1>1. /\ ca = [c \in Chains |-> None] /\ cert = [c \in Chains |-> None]
      /\ bundle = [c \in Chains |-> {}]
      /\ snap.ca = [c \in Chains |-> None] /\ snap.cert = [c \in Chains |-> None]
      /\ snap.bundle = [c \in Chains |-> {}] /\ snap.names = 0
      /\ conn.cert = None /\ conn.cas = {}
  BY DEF Init, NoSnap, NoConn
<1>2. todo = <<>> /\ signer = None /\ serial = 0 /\ now = 0 /\ lastSync = 0 /\ names = 1
  BY DEF Init
<1>3. used \in [deletions : 0..MaxEvents, others : 0..MaxEvents] /\ used.others = 0
  BY DEF Init
<1>4. Authorities = {}
  BY <1>1, <1>2 DEF Authorities, AuthoritiesOf, Chains
<1>5. AuthoritiesSound
  BY <1>4 DEF AuthoritiesSound
<1>6. \A c \in Chains : ~AtBundle(c) /\ ~AtCert(c)
  BY <1>2, Distinct DEF AtBundle, AtCert
<1>7. SyncSound
  BY <1>1, <1>2, <1>3, <1>6, NoneFacts, SuffixesAre DEF SyncSound
<1>8. todo \in Seq(Chains \X {"ca", "bundle", "cert", "conn"}) /\ Len(todo) <= 7
  BY <1>2, SuffixesAre, SuffixTypes DEF Calls
<1>9. queued \in BOOLEAN /\ failed \in BOOLEAN
  BY DEF Init
<1>10. TypeOK
  BY <1>1, <1>2, <1>3, <1>8, <1>9, NoneFacts DEF TypeOK
<1> QED
  BY <1>2, <1>5, <1>7, <1>10 DEF AInv, GapKept

\* What the lemmas on the actions need of the invariant.
LEMMA AFacts ==
  ASSUME AInv
  PROVE /\ now \in Nat /\ now <= MaxTime /\ lastSync \in Nat /\ lastSync <= now
        /\ ca \in [Chains -> Certs] /\ cert \in [Chains -> Certs] /\ bundle \in [Chains -> SUBSET Certs]
        /\ snap.ca \in [Chains -> Certs] /\ snap.cert \in [Chains -> Certs]
        /\ snap.bundle \in [Chains -> SUBSET Certs] /\ snap.names \in Nat
        /\ signer \in Certs /\ serial \in Nat /\ todo \in Suffixes
        /\ names \in Nat /\ names >= 1 /\ names <= used.others + 1
        /\ used \in [deletions : 0..MaxEvents, others : 0..MaxEvents]
BY CertificatesAssumption DEF AInv, TypeOK, SyncSound

LEMMA AStartSync == AInv /\ StartSync => AInv'
<1> SUFFICES ASSUME AInv, StartSync PROVE AInv'
  OBVIOUS
<1> USE AFacts
<1>1. /\ snap'.ca = ca /\ snap'.bundle = bundle /\ snap'.cert = cert /\ snap'.names = names
      /\ todo' = Left7 /\ queued' = FALSE /\ failed' = FALSE
      /\ UNCHANGED <<now, lastSync, names, ca, bundle, cert, conn, signer, serial, used>>
  BY SyncIsLeft7 DEF StartSync, servingNames, objects
<1>2. Authorities' \subseteq Authorities
  BY <1>1 DEF Authorities, AuthoritiesOf, Chains
<1>3. AuthoritiesSound'
  BY <1>1, <1>2, AuthoritiesKept DEF AInv
<1>4. \A c \in Chains : ~AtBundle(c)' /\ ~AtCert(c)'
  BY <1>1, Distinct DEF AtBundle, AtCert
<1>5. SyncSound'
  BY <1>1, <1>4, SuffixesAre DEF SyncSound, AInv
<1> QED
  BY <1>1, <1>3, <1>5, TypeKept DEF AInv, TypeOK

\* The sync ends at the connection config.
LEMMA ConnIsLast ==
  ASSUME todo \in Suffixes, ApplyConn
  PROVE todo = Left1 /\ todo' = <<>>
<1>1. todo = Left1
  BY CallIs DEF ApplyConn, Chains
<1>2. Head(todo) = <<"client", "conn">> /\ Tail(todo) = <<>>
  BY <1>1, SuffixFacts
<1>3. todo' = Tail(todo) \/ todo' = AfterChain(Head(todo))
  BY DEF ApplyConn, Applied, FailChain
<1> QED
  BY <1>1, <1>2, <1>3, AfterChainIs

LEMMA AApplyConn == AInv /\ ApplyConn => AInv'
<1> SUFFICES ASSUME AInv, ApplyConn PROVE AInv'
  OBVIOUS
<1> USE AFacts
<1>1. todo' = <<>>
  BY ConnIsLast
<1>2. UNCHANGED <<now, names, ca, bundle, cert, snap, signer, serial, used>>
  BY DEF ApplyConn
<1>3. conn' = conn \/ conn' = makeScyllaConnectionConfig
  BY DEF ApplyConn
<1>4. conn'.cert \in Certs /\ \A b \in conn'.cas : b \in Certs
  BY <1>3 DEF makeScyllaConnectionConfig, Chains, AInv, TypeOK
<1>5. failed' \in BOOLEAN
  BY DEF ApplyConn, Applied, FailChain, AInv, TypeOK
<1>6. queued' \in BOOLEAN
  BY Zenon DEF ApplyConn
<1>7. lastSync' \in 0..now'
  BY <1>2 DEF ApplyConn
<1>8. Authorities' \subseteq Authorities
  BY <1>2 DEF Authorities, AuthoritiesOf, Chains
<1>9. AuthoritiesSound'
  BY <1>2, <1>8, AuthoritiesKept DEF AInv
<1>10. \A c \in Chains : ~AtBundle(c)' /\ ~AtCert(c)'
  BY <1>1, Distinct DEF AtBundle, AtCert
<1>11. SyncSound'
  BY <1>1, <1>2, <1>10, SuffixesAre DEF SyncSound, AInv
<1> QED
  BY <1>2, <1>4, <1>5, <1>6, <1>7, <1>9, <1>11, TypeKept DEF AInv, TypeOK

\* The CA that is made and what becomes of it.
LEMMA CAStep ==
  ASSUME AInv, NEW c \in Chains, ApplyCA(c)
  PROVE /\ AtCA(c) /\ signer' \in Certs /\ signer' # None /\ now <= signer'.from + CARefresh
        /\ \/ signer' \in Authorities /\ serial' = serial
           \/ /\ serial' = serial + 1 /\ signer'.id = serial + 1 /\ signer'.issuer = signer'.id
              /\ signer'.names = 0 /\ signer'.from = now /\ signer'.to = signer'.from + CAValidity
        /\ \/ ca' = ca
           \/ /\ ca' = [ca EXCEPT ![c] = signer']
              /\ ca[c] # None /\ ca'[c] # ca[c] =>
                   now > ca[c].from + CARefresh \/ now > ca[c].to - CAValidity \div 5
        /\ \/ todo' = Tail(todo) /\ failed' = failed
           \/ todo' = AfterChain(Head(todo)) /\ failed' = TRUE
        /\ UNCHANGED <<now, lastSync, names, bundle, cert, conn, snap, used>>
<1> USE AFacts
<1> DEFINE e == getWithCache(snap.ca[c], None, ca[c])
<1> DEFINE r == MakeSelfSignedCA(e)
<1>1. e \in Certs /\ (e # None => e \in Authorities)
  BY DEF getWithCache, Authorities, AuthoritiesOf, Chains
<1>2. PICK res \in {r, ca[c]} : Applied(r, e, ca[c], res) /\ ca' = [ca EXCEPT ![c] = res]
  BY DEF ApplyCA
<1>3. signer' = r /\ Numbered(r)
  BY DEF ApplyCA
<1>4. AtCA(c)
  BY CallIs DEF ApplyCA
<1>5. UNCHANGED <<now, lastSync, names, bundle, cert, conn, snap, used>>
  BY DEF ApplyCA
<1>a. r = MakeSelfSignedCA(e)
  OBVIOUS
<1> HIDE DEF e, r
<1>6. e # None => SoundCA(e)
  BY <1>1 DEF AInv, AuthoritiesSound
<1>7. /\ r \in Certs /\ r # None /\ now <= r.from + CARefresh
      /\ \/ r = e
         \/ /\ r.id = serial + 1 /\ r.issuer = r.id /\ r.names = 0
            /\ r.from = now /\ r.to = r.from + CAValidity
      /\ e # None /\ r # e =>
           now > e.from + CARefresh \/ now > e.to - CAValidity \div 5
  BY <1>1, <1>6, <1>a, CAMade
<1>8. \/ r \in Authorities /\ serial' = serial
      \/ /\ serial' = serial + 1 /\ r.id = serial + 1 /\ r.issuer = r.id
         /\ r.names = 0 /\ r.from = now /\ r.to = r.from + CAValidity
  <2>1. CASE r = e
    <3>1. r \in Authorities /\ SoundCA(r)
      BY <2>1, <1>1, <1>6, <1>7
    <3>2. ~(r.id > serial)
      BY <3>1 DEF SoundCA, Certs
    <3> QED
      BY <3>1, <3>2, <1>3 DEF Numbered
  <2>2. CASE r # e
    BY <2>2, <1>3, <1>7 DEF Numbered
  <2> QED
    BY <2>1, <2>2
<1>9. \/ todo' = Tail(todo) /\ failed' = failed
      \/ todo' = AfterChain(Head(todo)) /\ failed' = TRUE
  BY <1>2 DEF Applied, FailChain
<1>10. res = ca[c] \/ (res = r /\ e = ca[c] /\ r # e)
  BY <1>2 DEF Applied
<1>11. \/ ca' = ca
       \/ /\ ca' = [ca EXCEPT ![c] = signer']
          /\ ca[c] # None /\ ca'[c] # ca[c] =>
               now > ca[c].from + CARefresh \/ now > ca[c].to - CAValidity \div 5
  <2>1. CASE res = ca[c]
    BY <2>1, <1>2
  <2>2. CASE res = r /\ e = ca[c] /\ r # e
    BY <2>2, <1>2, <1>3, <1>7
  <2> QED
    BY <2>1, <2>2, <1>10
<1> QED
  BY <1>3, <1>4, <1>5, <1>7, <1>8, <1>9, <1>11

LEMMA AApplyCA ==
  ASSUME AInv, NEW c \in Chains, ApplyCA(c)
  PROVE AInv'
<1> USE AFacts, CAStep
<1>1. ca' \in [Chains -> Certs] /\ \A d \in Chains : ca'[d] = ca[d] \/ ca'[d] = signer'
  <2>1. ca' = ca \/ ca' = [ca EXCEPT ![c] = signer']
    OBVIOUS
  <2>2. signer' \in Certs
    OBVIOUS
  <2> QED
    BY <2>1, <2>2
<1>2. bundle' = bundle /\ snap' = snap
  OBVIOUS
<1>3. Authorities' \subseteq Authorities \cup {signer'}
  BY <1>1, <1>2 DEF Authorities, AuthoritiesOf, Chains
<1>4. AuthoritiesSound'
  <2>1. CASE signer' \in Authorities /\ serial' = serial
    <3>1. Authorities' \subseteq Authorities
      BY <2>1, <1>3
    <3>2. now' = now
      OBVIOUS
    <3> QED
      BY <2>1, <3>1, <3>2, AuthoritiesKept DEF AInv
  <2>2. CASE ~(signer' \in Authorities /\ serial' = serial)
    <3>1. /\ serial' = serial + 1 /\ signer'.id = serial + 1 /\ signer'.issuer = signer'.id
          /\ signer'.names = 0 /\ signer'.from = now /\ signer'.to = signer'.from + CAValidity
          /\ now' = now /\ signer' \in Certs
      BY <2>2
    <3> QED
      BY <3>1, <1>3, AuthoritiesGrown, CertificatesAssumption DEF AInv
  <2> QED
    BY <2>1, <2>2
<1>5. todo' \in Suffixes
  <2>1. CASE todo' = Tail(todo)
    BY <2>1, TailOfCA
  <2>2. CASE todo' = AfterChain(Head(todo))
    <3>1. todo # <<>> /\ Head(todo)[2] # "conn"
      BY DEF ApplyCA
    <3> QED
      BY <2>2, <3>1, GivenUp
  <2> QED
    BY <2>1, <2>2
<1>6. SyncSound'
  <2>1. signer' # None /\ UNCHANGED <<bundle, snap, names, used>>
    OBVIOUS
  <2> QED
    BY <1>5, <2>1 DEF SyncSound, AInv
<1>7. UNCHANGED <<now, lastSync, names, cert, conn, used>> /\ signer' \in Certs
  OBVIOUS
<1>7a. serial' \in Nat
  <2>1. serial \in Nat /\ (serial' = serial \/ serial' = serial + 1)
    OBVIOUS
  <2> QED
    BY <2>1
<1>8. queued' \in BOOLEAN
  BY Zenon DEF ApplyCA
<1>9. failed' \in BOOLEAN
  BY DEF AInv, TypeOK
<1> QED
  BY <1>1, <1>4, <1>6, <1>7, <1>7a, <1>8, <1>9, TypeKept DEF AInv, TypeOK

\* The bundle that is made and what becomes of it.
LEMMA BundleStep ==
  ASSUME AInv, NEW c \in Chains, ApplyBundle(c)
  PROVE /\ AtBundle(c)
        /\ \/ bundle' = bundle
           \/ /\ bundle[c] = getWithCache(snap.bundle[c], {}, bundle[c])
              /\ bundle' = [bundle EXCEPT ![c] = MakeCABundle(signer, bundle[c])]
        /\ \/ /\ todo' = Tail(todo) /\ failed' = failed
              /\ bundle[c] = getWithCache(snap.bundle[c], {}, bundle[c]) => signer \in bundle'[c]
           \/ todo' = AfterChain(Head(todo)) /\ failed' = TRUE
        /\ UNCHANGED <<now, lastSync, names, ca, cert, conn, snap, signer, serial, used>>
<1> USE AFacts
<1> DEFINE e == getWithCache(snap.bundle[c], {}, bundle[c])
<1> DEFINE r == MakeCABundle(signer, e)
<1>1. PICK res \in {r, bundle[c]} : Applied(r, e, bundle[c], res) /\ bundle' = [bundle EXCEPT ![c] = res]
  BY DEF ApplyBundle
<1>2. AtBundle(c) /\ UNCHANGED <<now, lastSync, names, ca, cert, conn, snap, signer, serial, used>>
  BY CallIs DEF ApplyBundle
<1>3. signer \in r
  BY DEF MakeCABundle
<1>4. bundle[c] = e => r = MakeCABundle(signer, bundle[c])
  OBVIOUS
<1>5. e = getWithCache(snap.bundle[c], {}, bundle[c])
  OBVIOUS
<1> HIDE DEF e, r
<1>6. bundle'[c] = res
  BY <1>1
<1>7. \/ bundle' = bundle
      \/ bundle[c] = e /\ bundle' = [bundle EXCEPT ![c] = r]
  BY <1>1 DEF Applied
<1>8. \/ /\ todo' = Tail(todo) /\ failed' = failed
         /\ bundle[c] = e => signer \in bundle'[c]
      \/ todo' = AfterChain(Head(todo)) /\ failed' = TRUE
  <2>1. CASE r = e /\ res = bundle[c] /\ todo' = Tail(todo) /\ UNCHANGED failed
    BY <2>1, <1>3, <1>6
  <2>2. CASE r # e /\ e = bundle[c] /\ res = r /\ todo' = Tail(todo) /\ UNCHANGED failed
    BY <2>2, <1>3, <1>6
  <2>3. CASE FailChain
    BY <2>3 DEF FailChain
  <2> QED
    BY <2>1, <2>2, <2>3, <1>1 DEF Applied
<1> QED
  BY <1>2, <1>4, <1>5, <1>7, <1>8

LEMMA AApplyBundle ==
  ASSUME AInv, NEW c \in Chains, ApplyBundle(c)
  PROVE AInv'
<1> USE AFacts, BundleStep
<1>1. signer # None
  BY DEF AInv, SyncSound
<1>2. MakeCABundle(signer, bundle[c]) \subseteq bundle[c] \cup {signer}
  BY DEF MakeCABundle, FilterOutExpiredCertificates
<1>3. \A d \in Chains : bundle'[d] \subseteq bundle[d] \cup {signer}
  BY <1>2
<1>4. bundle' \in [Chains -> SUBSET Certs]
  <2>1. bundle' = bundle \/ bundle' = [bundle EXCEPT ![c] = MakeCABundle(signer, bundle[c])]
    OBVIOUS
  <2>2. MakeCABundle(signer, bundle[c]) \subseteq Certs
    BY <1>2
  <2> QED
    BY <2>1, <2>2
<1>5. UNCHANGED <<now, lastSync, names, ca, cert, conn, snap, signer, serial, used>>
  OBVIOUS
<1>6. Authorities' \subseteq Authorities
  BY <1>3, <1>5 DEF Authorities, AuthoritiesOf, Chains
<1>7. AuthoritiesSound'
  BY <1>5, <1>6, AuthoritiesKept DEF AInv
<1>8. todo' \in Suffixes
  <2>1. CASE todo' = Tail(todo)
    BY <2>1, TailOfBundle
  <2>2. CASE todo' = AfterChain(Head(todo))
    <3>1. todo # <<>> /\ Head(todo)[2] # "conn"
      BY DEF ApplyBundle
    <3> QED
      BY <2>2, <3>1, GivenUp
  <2> QED
    BY <2>1, <2>2
<1>9. \A d \in Chains : None \notin bundle'[d]
  BY <1>1, <1>3 DEF AInv, SyncSound
<1>10. SyncSound'
  BY <1>1, <1>4, <1>5, <1>8, <1>9 DEF SyncSound, AInv
<1>11. queued' \in BOOLEAN
  BY Zenon DEF ApplyBundle
<1>12. failed' \in BOOLEAN
  BY DEF AInv, TypeOK
<1> QED
  BY <1>5, <1>7, <1>10, <1>11, <1>12, TypeKept DEF AInv, TypeOK

\* The leaf that is made and what becomes of it.
LEMMA CertStep ==
  ASSUME AInv, NEW c \in Chains, ApplyCert(c)
  PROVE \E e \in {snap.cert[c], cert[c]}, r \in Certs :
        /\ AtCert(c) /\ e = getWithCache(snap.cert[c], None, cert[c])
        /\ r # None /\ r.issuer = signer.id /\ now <= r.from + CertRefresh
        /\ r = e \/ r.to = r.from + CertValidity
        /\ \/ r = e /\ cert' = cert /\ todo' = Tail(todo) /\ failed' = failed
           \/ /\ e = cert[c] /\ cert' = [cert EXCEPT ![c] = r]
              /\ r # e /\ todo' = Tail(todo) /\ failed' = failed
           \/ cert' = cert /\ todo' = AfterChain(Head(todo)) /\ failed' = TRUE
        /\ serial' \in Nat /\ serial <= serial'
        /\ UNCHANGED <<now, lastSync, names, ca, bundle, conn, snap, signer, used>>
<1> USE AFacts
<1> DEFINE e == getWithCache(snap.cert[c], None, cert[c])
<1> DEFINE r == MakeCertificate(c, e)
<1>1. e \in Certs /\ e \in {snap.cert[c], cert[c]}
  BY DEF getWithCache
<1>2. PICK res \in {r, cert[c]} : Applied(r, e, cert[c], res) /\ cert' = [cert EXCEPT ![c] = res]
  BY DEF ApplyCert
<1>3. Numbered(r)
  BY DEF ApplyCert
<1>4. AtCert(c) /\ UNCHANGED <<now, lastSync, names, ca, bundle, conn, snap, signer, used>>
  BY CallIs DEF ApplyCert
<1>5. r = MakeCertificate(c, e) /\ e = getWithCache(snap.cert[c], None, cert[c])
  OBVIOUS
<1> HIDE DEF e, r
<1>6. /\ r \in Certs /\ r # None /\ r.issuer = signer.id /\ now <= r.from + CertRefresh
      /\ r = e \/ r.to = r.from + CertValidity
  BY <1>1, <1>5, CertMade
<1>7. serial' \in Nat /\ serial <= serial'
  BY <1>3, <1>6 DEF Numbered, Certs
<1>8. \/ r = e /\ cert' = cert /\ todo' = Tail(todo) /\ failed' = failed
      \/ /\ e = cert[c] /\ cert' = [cert EXCEPT ![c] = r]
         /\ r # e /\ todo' = Tail(todo) /\ failed' = failed
      \/ cert' = cert /\ todo' = AfterChain(Head(todo)) /\ failed' = TRUE
  BY <1>2 DEF Applied, FailChain
<1> QED
  BY <1>1, <1>4, <1>5, <1>6, <1>7, <1>8

LEMMA AApplyCert ==
  ASSUME AInv, NEW c \in Chains, ApplyCert(c)
  PROVE AInv'
<1> USE AFacts
<1>1. PICK e \in {snap.cert[c], cert[c]}, r \in Certs :
        /\ AtCert(c) /\ e = getWithCache(snap.cert[c], None, cert[c])
        /\ r # None /\ r.issuer = signer.id /\ now <= r.from + CertRefresh
        /\ r = e \/ r.to = r.from + CertValidity
        /\ \/ r = e /\ cert' = cert /\ todo' = Tail(todo) /\ failed' = failed
           \/ /\ e = cert[c] /\ cert' = [cert EXCEPT ![c] = r]
              /\ r # e /\ todo' = Tail(todo) /\ failed' = failed
           \/ cert' = cert /\ todo' = AfterChain(Head(todo)) /\ failed' = TRUE
        /\ serial' \in Nat /\ serial <= serial'
        /\ UNCHANGED <<now, lastSync, names, ca, bundle, conn, snap, signer, used>>
  BY CertStep
<1>2. cert' \in [Chains -> Certs]
  BY <1>1
<1>3. UNCHANGED <<now, lastSync, names, ca, bundle, conn, snap, signer, used>>
  BY <1>1
<1>4. Authorities' \subseteq Authorities
  BY <1>3 DEF Authorities, AuthoritiesOf, Chains
<1>5. AuthoritiesSound'
  BY <1>1, <1>3, <1>4, AuthoritiesKept DEF AInv
<1>6. todo' \in Suffixes /\ \A d \in Chains : ~AtBundle(d)' /\ ~AtCert(d)'
  <2>1. CASE todo' = Tail(todo)
    BY <2>1, <1>1, TailOfCert
  <2>2. CASE todo' = AfterChain(Head(todo))
    <3>1. todo # <<>> /\ Head(todo)[2] # "conn"
      BY DEF ApplyCert
    <3> QED
      BY <2>2, <3>1, GivenUp
  <2> QED
    BY <2>1, <2>2, <1>1
<1>7. SyncSound'
  BY <1>3, <1>6 DEF SyncSound, AInv
<1>8. queued' \in BOOLEAN
  BY Zenon DEF ApplyCert
<1>9. failed' \in BOOLEAN
  BY <1>1 DEF AInv, TypeOK
<1>10. serial' \in Nat
  BY <1>1
<1> QED
  BY <1>2, <1>3, <1>5, <1>7, <1>8, <1>9, <1>10, TypeKept DEF AInv, TypeOK

LEMMA ATick == AInv /\ Tick => AInv'
<1> SUFFICES ASSUME AInv, Tick PROVE AInv'
  OBVIOUS
<1> USE AFacts
<1>1. /\ now < MaxTime /\ now' = now + 1 /\ queued' = TRUE
      /\ UNCHANGED <<lastSync, names, ca, bundle, cert, conn, snap, signer, todo, failed, serial, used>>
  BY DEF Tick, objects
<1>2. now' \in 0..MaxTime /\ lastSync' \in 0..now' /\ now <= now'
  BY <1>1, CertificatesAssumption
<1>3. Authorities' \subseteq Authorities
  BY <1>1 DEF Authorities, AuthoritiesOf, Chains
<1>4. AuthoritiesSound'
  BY <1>1, <1>2, <1>3, AuthoritiesKept DEF AInv
<1>5. SyncSound'
  BY <1>1 DEF SyncSound, AInv, AtBundle, AtCert
<1> QED
  BY <1>1, <1>2, <1>4, <1>5, TypeKept DEF AInv, TypeOK

\* The events counted.
LEMMA UsedOther ==
  ASSUME AInv, CanHappen, used' = [used EXCEPT !.others = @ + 1]
  PROVE /\ used' \in [deletions : 0..MaxEvents, others : 0..MaxEvents]
        /\ used'.others = used.others + 1 /\ used.others + 1 <= MaxEvents
        /\ used'.deletions = used.deletions
<1> USE AFacts, CertificatesAssumption
<1>1. used.deletions \in Nat /\ used.others \in Nat /\ used.deletions + used.others < MaxEvents
  BY DEF CanHappen
<1> QED
  BY <1>1

LEMMA ACrash == AInv /\ Crash => AInv'
<1> SUFFICES ASSUME AInv, Crash PROVE AInv'
  OBVIOUS
<1> USE AFacts
<1>1. /\ todo' = <<>> /\ queued' = TRUE /\ signer' = None /\ failed' = FALSE
      /\ UNCHANGED <<now, lastSync, names, ca, bundle, cert, conn, serial>>
      /\ CanHappen /\ used' = [used EXCEPT !.others = @ + 1]
  BY DEF Crash, objects
<1>2. /\ snap'.ca = [d \in Chains |-> None] /\ snap'.cert = [d \in Chains |-> None]
      /\ snap'.bundle = [d \in Chains |-> {}] /\ snap'.names = 0
  BY DEF Crash, NoSnap
<1>3. Authorities' \subseteq Authorities
  BY <1>1, <1>2 DEF Authorities, AuthoritiesOf, Chains
<1>4. AuthoritiesSound'
  BY <1>1, <1>3, AuthoritiesKept DEF AInv
<1>5. \A d \in Chains : ~AtBundle(d)' /\ ~AtCert(d)'
  BY <1>1, Distinct DEF AtBundle, AtCert
<1>6. /\ used' \in [deletions : 0..MaxEvents, others : 0..MaxEvents]
      /\ used'.others = used.others + 1
  BY <1>1, UsedOther
<1>7. names' <= used'.others + 1
  BY <1>1, <1>6
<1>8. SyncSound'
  BY <1>1, <1>2, <1>5, <1>7, NoneFacts, SuffixesAre DEF SyncSound, AInv
<1> QED
  BY <1>1, <1>4, <1>6, <1>8, NoneFacts, TypeKept DEF AInv, TypeOK

LEMMA ARefuse == AInv /\ Refuse => AInv'
<1> SUFFICES ASSUME AInv, Refuse PROVE AInv'
  OBVIOUS
<1> USE AFacts
<1>1. /\ todo # <<>> /\ Head(todo)[2] # "conn" /\ todo' = AfterChain(Head(todo)) /\ failed' = TRUE
      /\ UNCHANGED <<now, lastSync, names, ca, bundle, cert, conn, queued, snap, signer, serial>>
      /\ CanHappen /\ used' = [used EXCEPT !.others = @ + 1]
  BY DEF Refuse, FailChain, objects
<1>2. todo' \in Suffixes /\ \A d \in Chains : ~AtBundle(d)' /\ ~AtCert(d)'
  BY <1>1, GivenUp DEF Chains
<1>3. Authorities' \subseteq Authorities
  BY <1>1 DEF Authorities, AuthoritiesOf, Chains
<1>4. AuthoritiesSound'
  BY <1>1, <1>3, AuthoritiesKept DEF AInv
<1>6. /\ used' \in [deletions : 0..MaxEvents, others : 0..MaxEvents]
      /\ used'.others = used.others + 1
  BY <1>1, UsedOther
<1>7. names' <= used'.others + 1
  BY <1>1, <1>6
<1>8. SyncSound'
  BY <1>1, <1>2, <1>7 DEF SyncSound, AInv
<1> QED
  BY <1>1, <1>4, <1>6, <1>8, TypeKept DEF AInv, TypeOK

LEMMA ARename == AInv /\ Rename => AInv'
<1> SUFFICES ASSUME AInv, Rename PROVE AInv'
  OBVIOUS
<1> USE AFacts
<1>1. /\ names' = names + 1 /\ queued' = TRUE
      /\ UNCHANGED <<now, lastSync, ca, bundle, cert, conn, snap, signer, todo, failed, serial>>
      /\ CanHappen /\ used' = [used EXCEPT !.others = @ + 1]
  BY DEF Rename, objects
<1>2. Authorities' \subseteq Authorities
  BY <1>1 DEF Authorities, AuthoritiesOf, Chains
<1>3. AuthoritiesSound'
  BY <1>1, <1>2, AuthoritiesKept DEF AInv
<1>4. /\ used' \in [deletions : 0..MaxEvents, others : 0..MaxEvents]
      /\ used'.others = used.others + 1 /\ used.others + 1 <= MaxEvents
  BY <1>1, UsedOther
<1>5. names' <= used'.others + 1 /\ names' \in 1..(MaxEvents + 1)
  BY <1>1, <1>4, CertificatesAssumption
<1>6. SyncSound'
  BY <1>1, <1>5 DEF SyncSound, AInv, AtBundle, AtCert
<1> QED
  BY <1>1, <1>3, <1>4, <1>5, <1>6, TypeKept DEF AInv, TypeOK

\* What a deletion does.
LEMMA DeleteStep ==
  ASSUME AInv, NEW c \in Chains, NEW kind \in Deletable, Delete(c, kind)
  PROVE /\ ca' \in [Chains -> Certs] /\ \A d \in Chains : ca'[d] \in {ca[d], None}
        /\ cert' \in [Chains -> Certs] /\ \A d \in Chains : cert'[d] \in {cert[d], None}
        /\ bundle' \in [Chains -> SUBSET Certs] /\ \A d \in Chains : bundle'[d] \subseteq bundle[d]
        /\ kind # "bundle" => bundle' = bundle
        /\ used' \in [deletions : 0..MaxEvents, others : 0..MaxEvents]
        /\ used'.others = used.others /\ used'.deletions > 0
        /\ UNCHANGED <<now, lastSync, names, conn, snap, signer, todo, failed, serial>>
<1> USE AFacts
<1>1. \/ kind = "ca" /\ ca' = [ca EXCEPT ![c] = None] /\ UNCHANGED <<bundle, cert>>
      \/ kind = "bundle" /\ bundle' = [bundle EXCEPT ![c] = {}] /\ UNCHANGED <<ca, cert>>
      \/ kind = "cert" /\ cert' = [cert EXCEPT ![c] = None] /\ UNCHANGED <<ca, bundle>>
  BY DEF Delete
<1>2. /\ ca' \in [Chains -> Certs] /\ \A d \in Chains : ca'[d] \in {ca[d], None}
      /\ cert' \in [Chains -> Certs] /\ \A d \in Chains : cert'[d] \in {cert[d], None}
      /\ bundle' \in [Chains -> SUBSET Certs] /\ \A d \in Chains : bundle'[d] \subseteq bundle[d]
      /\ kind # "bundle" => bundle' = bundle
  BY <1>1, NoneFacts
<1>3. CanHappen /\ used' = [used EXCEPT !.deletions = @ + 1]
  BY DEF Delete
<1>4. used.deletions \in Nat /\ used.others \in Nat /\ used.deletions + used.others < MaxEvents
  BY <1>3, CertificatesAssumption DEF CanHappen
<1>5. /\ used' \in [deletions : 0..MaxEvents, others : 0..MaxEvents]
      /\ used'.others = used.others /\ used'.deletions > 0
  BY <1>3, <1>4, CertificatesAssumption
<1>6. UNCHANGED <<now, lastSync, names, conn, snap, signer, todo, failed, serial>>
  BY DEF Delete
<1> QED
  BY <1>2, <1>5, <1>6

LEMMA ADelete ==
  ASSUME AInv, NEW c \in Chains, NEW kind \in Deletable, Delete(c, kind)
  PROVE AInv'
<1> USE AFacts, DeleteStep
<1>1. UNCHANGED <<now, lastSync, names, conn, snap, signer, todo, failed, serial>>
  OBVIOUS
<1>2. Authorities' \subseteq Authorities
  <2>1. \A d \in Chains : ca'[d] \in {ca[d], None} /\ bundle'[d] \subseteq bundle[d]
    OBVIOUS
  <2> QED
    BY <1>1, <2>1 DEF Authorities, AuthoritiesOf, Chains
<1>3. AuthoritiesSound'
  BY <1>1, <1>2, AuthoritiesKept DEF AInv
<1>4. SyncSound'
  <2>1. /\ bundle' \in [Chains -> SUBSET Certs] /\ \A d \in Chains : bundle'[d] \subseteq bundle[d]
        /\ used'.others = used.others
    OBVIOUS
  <2> QED
    BY <1>1, <2>1 DEF SyncSound, AInv, AtBundle, AtCert
<1>5. queued' = TRUE
  BY DEF Delete
<1> QED
  BY <1>1, <1>3, <1>4, <1>5, TypeKept DEF AInv, TypeOK

LEMMA ANext == AInv /\ [Next]_vars => AInv'
<1> SUFFICES ASSUME AInv, [Next]_vars PROVE AInv'
  OBVIOUS
<1>1. CASE StartSync
  BY <1>1, AStartSync
<1>2. CASE ApplyConn
  BY <1>2, AApplyConn
<1>3. CASE \E c \in Chains : ApplyCA(c) \/ ApplyBundle(c) \/ ApplyCert(c)
  BY <1>3, AApplyCA, AApplyBundle, AApplyCert
<1>4. CASE Tick
  BY <1>4, ATick
<1>5. CASE Crash
  BY <1>5, ACrash
<1>6. CASE Refuse
  BY <1>6, ARefuse
<1>7. CASE Rename
  BY <1>7, ARename
<1>8. CASE \E c \in Chains, kind \in Deletable : Delete(c, kind)
  BY <1>8, ADelete
<1>9. CASE UNCHANGED vars
  BY <1>9 DEF vars, AInv, TypeOK, SyncSound, AuthoritiesSound, Authorities, AuthoritiesOf, SoundCA,
              AtBundle, AtCert
<1> QED
  BY <1>1, <1>2, <1>3, <1>4, <1>5, <1>6, <1>7, <1>8, <1>9 DEF Next

\* Types, whatever is deleted, refused or interrupted.
THEOREM TypeCorrect == Spec => []TypeOK
<1>1. Init => AInv
  BY AInit
<1>2. AInv => TypeOK
  BY DEF AInv
<1> QED
  BY <1>1, <1>2, ANext, PTL DEF Spec

\* A CA key is only replaced at its refresh time or in the last fifth of its life,
\* whichever object a user deletes and whatever sync is refused or interrupted
\* (needsRefresh, MakeSelfSignedCA, and the conflict of an apply on a changed Secret).
THEOREM CAKeysStay == Spec => CAStays
<1>1. ASSUME AInv, [Next]_vars
      PROVE [\A c \in Chains : used'.deletions = 0 /\ ca[c] # None /\ ca'[c] # ca[c] =>
               now > ca[c].from + CARefresh \/ now > ca[c].to - CAValidity \div 5]_vars
  <2> SUFFICES ASSUME NEW c \in Chains, used'.deletions = 0, ca[c] # None, ca'[c] # ca[c]
               PROVE now > ca[c].from + CARefresh \/ now > ca[c].to - CAValidity \div 5
    OBVIOUS
  <2>1. CASE \E d \in Chains : ApplyCA(d)
    <3>1. PICK d \in Chains : ApplyCA(d)
      BY <2>1
    <3>2. \/ ca' = ca
          \/ /\ ca' = [ca EXCEPT ![d] = signer']
             /\ ca[d] # None /\ ca'[d] # ca[d] =>
                  now > ca[d].from + CARefresh \/ now > ca[d].to - CAValidity \div 5
      BY <1>1, <3>1, CAStep
    <3>3. c = d
      BY <3>2, AFacts, <1>1
    <3> QED
      BY <3>2, <3>3
  <2>2. CASE \E d \in Chains, kind \in Deletable : Delete(d, kind)
    BY <2>2, <1>1, DeleteStep
  <2>3. CASE ca' = ca
    BY <2>3
  <2>4. \/ ca' = ca \/ \E d \in Chains : ApplyCA(d)
        \/ \E d \in Chains, kind \in Deletable : Delete(d, kind)
    BY <1>1 DEF Next, StartSync, ApplyConn, ApplyBundle, ApplyCert, Tick, Crash, Refuse, Rename, objects, vars
  <2> QED
    BY <2>1, <2>2, <2>3, <2>4
<1>2. Init => AInv
  BY AInit
<1> QED
  BY <1>1, <1>2, ANext, PTL DEF Spec, CAStays

-----------------------------------------------------------------------------
(* The invariant that holds while no bundle is deleted. *)

\* No bundle is deleted, and there is time for two attempts between the refresh of a
\* certificate and its end.
RotationFits ==
  /\ "bundle" \notin Deletable
  /\ CARefresh + 2 * MaxGap < CAValidity
  /\ CertRefresh + 2 * MaxGap <= CertValidity

\* The bounds in the invariant are numbers.
LEMMA NumbersFacts ==
  CARefresh \in Nat /\ CertRefresh \in Nat /\ CAValidity \in Nat /\ CertValidity \in Nat /\ MaxGap \in Nat
BY CertificatesAssumption

LEMMA NotPassed ==
  ASSUME NEW c \in Chains, AtCA(c) \/ AtBundle(c) \/ AtCert(c)
  PROVE ~Passed(c) /\ todo # <<>>
BY Distinct DEF AtCA, AtBundle, AtCert, Passed, Chains

LEMMA IInit == Init => IInv
<1> SUFFICES ASSUME Init PROVE IInv
  OBVIOUS
<1>1. todo = <<>> /\ \A c \in Chains : cert[c] = None
  BY DEF Init, NoSnap
<1>2. \A c \in Chains : ~AtCA(c) /\ ~AtBundle(c) /\ ~AtCert(c) /\ ~Ahead(c)
  BY <1>1, Distinct DEF AtCA, AtBundle, AtCert, Ahead
<1> QED
  BY <1>1, <1>2, AInit DEF IInv, ViewsCurrent, SignerFresh, LeavesCovered

\* A leaf and a bundle that stay, while the sync stays or moves on.
LEMMA LeavesKept ==
  ASSUME LeavesCovered, UNCHANGED <<bundle, lastSync>>, NEW d \in Chains,
         cert'[d] \in {cert[d], None}, cert'[d] # None,
         Passed(d)' /\ ~failed' => Passed(d) /\ ~failed
  PROVE Covered(d, MaxGap)' /\ (Passed(d)' /\ ~failed' => Covered(d, 0)')
<1>1. Covered(d, MaxGap) /\ (Passed(d) /\ ~failed => Covered(d, 0))
  BY DEF LeavesCovered
<1>2. cert'[d] = cert[d]
  OBVIOUS
<1>3. (Covered(d, MaxGap) => Covered(d, MaxGap)') /\ (Covered(d, 0) => Covered(d, 0)')
  BY <1>2 DEF Covered
<1> QED
  BY <1>1, <1>3

LEMMA IStartSync == IInv /\ StartSync => IInv'
<1> SUFFICES ASSUME IInv, StartSync PROVE IInv'
  OBVIOUS
<1>1. /\ snap'.bundle = bundle /\ snap'.cert = cert /\ todo' = Left7
      /\ UNCHANGED <<now, lastSync, bundle, cert, signer>>
  BY SyncIsLeft7 DEF StartSync, objects
<1>2. \A d \in Chains : ~Passed(d)' /\ ~AtBundle(d)' /\ ~AtCert(d)'
  BY <1>1, Distinct DEF Passed, AtBundle, AtCert
<1>3. AInv'
  BY AStartSync DEF IInv
<1>4. ViewsCurrent'
  BY <1>1 DEF ViewsCurrent
<1>5. LeavesCovered'
  BY <1>1, <1>2, LeavesKept DEF LeavesCovered, IInv
<1>6. GapKept' /\ SignerFresh'
  BY <1>1, <1>2 DEF GapKept, SignerFresh, IInv
<1> QED
  BY <1>3, <1>4, <1>5, <1>6 DEF IInv

\* A sync that succeeds has renewed what was due.
LEMMA IApplyConn == IInv /\ ApplyConn => IInv'
<1> SUFFICES ASSUME IInv, ApplyConn PROVE IInv'
  OBVIOUS
<1> USE AFacts, NumbersFacts DEF IInv
<1>1. todo = Left1 /\ todo' = <<>>
  BY ConnIsLast
<1>2. UNCHANGED <<now, names, ca, bundle, cert, snap, signer, serial, used>>
  BY DEF ApplyConn
<1>3. \A d \in Chains : ~Passed(d)' /\ ~AtBundle(d)' /\ ~AtCert(d)' /\ ~Ahead(d)' /\ Passed(d)
  BY <1>1, Distinct DEF Passed, AtCA, AtBundle, AtCert, Ahead
<1>4. \/ lastSync' = lastSync
      \/ lastSync' = now /\ ~failed
  <2>1. failed' = failed \/ failed' = TRUE
    BY DEF ApplyConn, Applied, FailChain
  <2>2. lastSync' = IF failed' THEN lastSync ELSE now
    BY DEF ApplyConn
  <2> QED
    BY <2>1, <2>2
<1>5. AInv'
  BY AApplyConn
<1>6. ViewsCurrent' /\ SignerFresh'
  BY <1>1, <1>3 DEF ViewsCurrent, SignerFresh
<1>7. GapKept'
  BY <1>2, <1>4 DEF GapKept
<1>8. ASSUME NEW d \in Chains, cert'[d] # None
      PROVE Covered(d, MaxGap)'
  <2>1. cert'[d] = cert[d] /\ bundle'[d] = bundle[d] /\ cert[d] \in Certs /\ bundle[d] \subseteq Certs
    BY <1>2
  <2>2. CASE lastSync' = lastSync
    <3>1. Covered(d, MaxGap)
      BY <1>8, <2>1 DEF LeavesCovered
    <3> QED
      BY <2>1, <2>2, <3>1 DEF Covered
  <2>3. CASE lastSync' = now /\ ~failed
    <3>1. Covered(d, 0)
      BY <1>3, <1>8, <2>1, <2>3 DEF LeavesCovered
    <3>2. now <= lastSync + MaxGap
      BY DEF GapKept
    <3>3. cert[d].from \in Nat /\ \A b \in bundle[d] : b.from \in Nat
      BY <2>1 DEF Certs
    <3>4. lastSync' <= cert[d].from + CertRefresh + MaxGap
      BY <2>3, <3>1, <3>2, <3>3 DEF Covered
    <3>5. \A b \in bundle[d] : b.id = cert[d].issuer => lastSync' <= b.from + CARefresh + MaxGap
      BY <2>3, <3>1, <3>2, <3>3 DEF Covered
    <3> QED
      BY <2>1, <3>1, <3>4, <3>5 DEF Covered
  <2> QED
    BY <1>4, <2>2, <2>3
<1>9. LeavesCovered'
  BY <1>3, <1>8 DEF LeavesCovered
<1> QED
  BY <1>5, <1>6, <1>7, <1>9

LEMMA IApplyCA ==
  ASSUME IInv, NEW c \in Chains, ApplyCA(c)
  PROVE IInv'
<1> USE AFacts, NumbersFacts DEF IInv
<1>1. /\ AtCA(c) /\ now <= signer'.from + CARefresh /\ signer' \in Certs
      /\ \/ todo' = Tail(todo) /\ failed' = failed
         \/ todo' = AfterChain(Head(todo)) /\ failed' = TRUE
      /\ UNCHANGED <<now, lastSync, bundle, cert, snap>>
  BY CAStep
<1>2. todo # <<>> /\ Head(todo)[2] # "conn"
  BY DEF ApplyCA
<1>3. ASSUME NEW d \in Chains
      PROVE /\ ~AtCert(d)' /\ (Passed(d) => Passed(d)') /\ (Ahead(d)' => Ahead(d))
            /\ (Passed(d)' /\ ~failed' => Passed(d) /\ ~failed)
  BY <1>1, <1>2, TailOfCA, GivenUp
<1>4. AInv'
  BY AApplyCA
<1>5. ViewsCurrent'
  BY <1>1, <1>2, <1>3 DEF ViewsCurrent
<1>6. GapKept'
  BY <1>1 DEF GapKept
<1>7. lastSync' <= signer'.from + CARefresh
  <2>1. signer'.from \in Nat
    BY <1>1 DEF Certs
  <2>2. lastSync \in Nat /\ now \in Nat /\ lastSync <= now /\ lastSync' = lastSync
    BY <1>1
  <2> QED
    BY <1>1, <2>1, <2>2
<1>8. SignerFresh'
  BY <1>3, <1>7 DEF SignerFresh
<1>9. LeavesCovered'
  BY <1>1, <1>3, LeavesKept DEF LeavesCovered
<1> QED
  BY <1>4, <1>5, <1>6, <1>8, <1>9

\* A bundle that is rewritten keeps every CA in use: those are far from their end.
LEMMA IApplyBundle ==
  ASSUME IInv, RotationFits, NEW c \in Chains, ApplyBundle(c)
  PROVE IInv'
<1> USE AFacts, NumbersFacts DEF IInv
<1>1. /\ AtBundle(c)
      /\ UNCHANGED <<now, lastSync, names, ca, cert, conn, snap, signer, serial, used>>
  BY BundleStep
<1>2. bundle[c] = getWithCache(snap.bundle[c], {}, bundle[c])
  <2>1. bundle[c] = snap.bundle[c]
    BY <1>1 DEF Ahead, ViewsCurrent
  <2> QED
    BY <2>1 DEF getWithCache
<1>3. /\ bundle' = bundle \/ bundle' = [bundle EXCEPT ![c] = MakeCABundle(signer, bundle[c])]
      /\ \/ todo' = Tail(todo) /\ failed' = failed /\ signer \in bundle'[c]
         \/ todo' = AfterChain(Head(todo)) /\ failed' = TRUE
  BY <1>2, BundleStep
<1>4. todo # <<>> /\ Head(todo)[2] # "conn"
  BY DEF ApplyBundle
<1>5. ASSUME NEW d \in Chains
      PROVE /\ ~AtBundle(d)' /\ (AtCert(d)' => d = c /\ todo' = Tail(todo)) /\ (Passed(d) => Passed(d)')
            /\ (Ahead(d)' => Ahead(d))
            /\ (Passed(d)' /\ ~failed' => Passed(d) /\ ~failed)
            /\ (Ahead(d)' => d # c \/ todo' = AfterChain(Head(todo)))
  BY <1>1, <1>3, <1>4, TailOfBundle, GivenUp
<1>6. ~Passed(c)
  BY <1>1, NotPassed
<1>7. \A d \in Chains : d # c => bundle'[d] = bundle[d]
  BY <1>3
<1>8. bundle'[c] = bundle[c] \/ bundle'[c] = MakeCABundle(signer, bundle[c])
  BY <1>3
<1>9. AInv'
  BY AApplyBundle
<1>10. ~Ahead(c)'
  <2>1. CASE todo' = Tail(todo)
    BY <1>1, <2>1, TailOfBundle
  <2>2. CASE todo' = AfterChain(Head(todo))
    <3>1. c = "client" => todo = Left6 /\ todo' = Left4
      BY <1>1, <2>2, SuffixFacts, AfterChainIs DEF AtBundle
    <3>2. c = "serving" => todo = Left3 /\ todo' = Left1
      BY <1>1, <2>2, SuffixFacts, AfterChainIs DEF AtBundle
    <3> QED
      BY <3>1, <3>2, Distinct DEF Chains, Ahead, AtCA, AtBundle
  <2> QED
    BY <1>3, <2>1, <2>2
<1>11. ViewsCurrent'
  <2> SUFFICES ASSUME NEW d \in Chains
               PROVE /\ todo' # <<>> /\ ~Passed(d)' => cert'[d] \in {snap'.cert[d], None}
                     /\ Ahead(d)' => bundle'[d] = snap'.bundle[d]
    BY DEF ViewsCurrent
  <2>1. todo' # <<>> /\ ~Passed(d)' => cert'[d] \in {snap'.cert[d], None}
    BY <1>1, <1>4, <1>5 DEF ViewsCurrent
  <2>2. Ahead(d)' => bundle'[d] = snap'.bundle[d]
    BY <1>1, <1>5, <1>7, <1>10 DEF ViewsCurrent
  <2> QED
    BY <2>1, <2>2
<1>12. GapKept'
  BY <1>1 DEF GapKept
<1>13. lastSync <= signer.from + CARefresh
  BY <1>1 DEF SignerFresh
<1>14. SignerFresh'
  <2>1. \A d \in Chains : AtCert(d)' => signer' \in bundle'[d]
    <3> TAKE d \in Chains
    <3>1. ASSUME AtCert(d)' PROVE signer' \in bundle'[d]
      <4>1. d = c /\ todo' = Tail(todo)
        BY <1>5, <3>1
      <4>2. ~(todo' = AfterChain(Head(todo)))
        BY <1>4, <3>1, GivenUp
      <4> QED
        BY <1>1, <1>3, <4>1, <4>2
    <3> QED
      BY <3>1
  <2> QED
    BY <1>1, <1>5, <1>13, <2>1 DEF SignerFresh
<1>15. ASSUME cert[c] # None PROVE Covered(c, MaxGap)'
  <2>1. Covered(c, MaxGap)
    BY <1>15 DEF LeavesCovered
  <2>2. bundle[c] \subseteq Certs /\ signer \in Certs /\ \A b \in bundle[c] : SoundCA(b)
    <3>1. \A b \in bundle[c] : b \in Authorities
      BY DEF Authorities, AuthoritiesOf, Chains, AInv, SyncSound
    <3> QED
      BY <3>1 DEF AInv, AuthoritiesSound
  <2>3. CASE bundle'[c] = bundle[c]
    BY <1>1, <2>1, <2>3 DEF Covered
  <2>4. CASE bundle'[c] = MakeCABundle(signer, bundle[c])
    <3>1. PICK b \in bundle[c] : b.id = cert[c].issuer
      BY <2>1 DEF Covered
    <3>2. b.to > now
      <4>1. b.from \in Nat /\ b.to = b.from + CAValidity
        BY <2>2 DEF SoundCA, Certs
      <4>2. lastSync <= b.from + CARefresh + MaxGap
        BY <2>1, <3>1 DEF Covered
      <4>3. now <= lastSync + MaxGap
        BY DEF GapKept
      <4>4. CARefresh + 2 * MaxGap < CAValidity
        BY DEF RotationFits
      <4> QED
        BY <4>1, <4>2, <4>3, <4>4
    <3>3. b \in bundle'[c]
      BY <2>4, <3>2 DEF MakeCABundle, FilterOutExpiredCertificates
    <3>4. \A x \in bundle'[c] : x \in bundle[c] \/ x = signer
      BY <2>4 DEF MakeCABundle, FilterOutExpiredCertificates
    <3>5. ASSUME NEW x \in bundle'[c], x.id = cert[c].issuer
          PROVE lastSync <= x.from + CARefresh + MaxGap
      <4>1. CASE x \in bundle[c]
        BY <4>1, <3>5, <2>1 DEF Covered
      <4>2. CASE x = signer
        <5>1. signer.from \in Nat
          BY DEF Certs
        <5> QED
          BY <4>2, <5>1, <1>13
      <4> QED
        BY <3>4, <4>1, <4>2
    <3> QED
      BY <1>1, <2>1, <3>1, <3>3, <3>5 DEF Covered
  <2> QED
    BY <1>8, <2>3, <2>4
<1>16. ASSUME NEW d \in Chains, d # c, cert[d] # None
       PROVE Covered(d, MaxGap)' /\ (Passed(d)' /\ ~failed' => Covered(d, 0)')
  <2>1. Covered(d, MaxGap) /\ (Passed(d) /\ ~failed => Covered(d, 0))
    BY <1>16 DEF LeavesCovered
  <2>2. bundle'[d] = bundle[d]
    BY <1>7, <1>16
  <2>3. (Covered(d, MaxGap) => Covered(d, MaxGap)') /\ (Covered(d, 0) => Covered(d, 0)')
    BY <1>1, <2>2 DEF Covered
  <2> QED
    BY <1>5, <2>1, <2>3
<1>17. LeavesCovered'
  <2> SUFFICES ASSUME NEW d \in Chains, cert'[d] # None
               PROVE Covered(d, MaxGap)' /\ (Passed(d)' /\ ~failed' => Covered(d, 0)')
    BY DEF LeavesCovered
  <2>1. cert[d] # None
    BY <1>1
  <2>2. CASE d = c
    BY <1>5, <1>6, <1>15, <2>1, <2>2
  <2>3. CASE d # c
    BY <1>16, <2>1, <2>3
  <2> QED
    BY <2>2, <2>3
<1> QED
  BY <1>9, <1>11, <1>12, <1>14, <1>17

\* A leaf is signed by a CA that is published and young.
LEMMA IApplyCert ==
  ASSUME IInv, NEW c \in Chains, ApplyCert(c)
  PROVE IInv'
<1> USE AFacts, NumbersFacts DEF IInv
<1>1. PICK e \in {snap.cert[c], cert[c]}, r \in Certs :
        /\ AtCert(c) /\ e = getWithCache(snap.cert[c], None, cert[c])
        /\ r # None /\ r.issuer = signer.id /\ now <= r.from + CertRefresh
        /\ r = e \/ r.to = r.from + CertValidity
        /\ \/ r = e /\ cert' = cert /\ todo' = Tail(todo) /\ failed' = failed
           \/ /\ e = cert[c] /\ cert' = [cert EXCEPT ![c] = r]
              /\ r # e /\ todo' = Tail(todo) /\ failed' = failed
           \/ cert' = cert /\ todo' = AfterChain(Head(todo)) /\ failed' = TRUE
        /\ serial' \in Nat /\ serial <= serial'
        /\ UNCHANGED <<now, lastSync, names, ca, bundle, conn, snap, signer, used>>
  BY CertStep
<1>2. UNCHANGED <<now, lastSync, names, ca, bundle, conn, snap, signer, used>>
  BY <1>1
<1>3. AInv'
  BY AApplyCert
<1>4. todo # <<>> /\ Head(todo)[2] # "conn" /\ AtCert(c) /\ ~Passed(c)
  BY <1>1, NotPassed DEF ApplyCert
<1>5. todo' = Tail(todo) \/ (todo' = AfterChain(Head(todo)) /\ failed' = TRUE /\ cert' = cert)
  BY <1>1
<1>6. ASSUME NEW d \in Chains
      PROVE /\ ~AtBundle(d)' /\ ~AtCert(d)' /\ (Passed(d) => Passed(d)') /\ (Ahead(d)' => Ahead(d))
            /\ todo' = Tail(todo) => (Passed(d)' <=> Passed(d) \/ d = c)
  BY <1>4, <1>5, TailOfCert, GivenUp
<1>7. \A d \in Chains : d # c => cert'[d] = cert[d]
  BY <1>1
<1>8. ViewsCurrent'
  <2> SUFFICES ASSUME NEW d \in Chains
               PROVE /\ todo' # <<>> /\ ~Passed(d)' => cert'[d] \in {snap'.cert[d], None}
                     /\ Ahead(d)' => bundle'[d] = snap'.bundle[d]
    BY DEF ViewsCurrent
  <2>1. Ahead(d)' => bundle'[d] = snap'.bundle[d]
    BY <1>2, <1>6 DEF ViewsCurrent
  <2>2. ASSUME ~Passed(d)' PROVE cert'[d] \in {snap'.cert[d], None}
    <3>1. cert'[d] = cert[d] /\ ~Passed(d)
      BY <1>5, <1>6, <1>7, <2>2
    <3> QED
      BY <1>2, <1>4, <3>1 DEF ViewsCurrent
  <2> QED
    BY <2>1, <2>2
<1>9. GapKept' /\ SignerFresh'
  BY <1>2, <1>6 DEF GapKept, SignerFresh
<1>10. ASSUME todo' = Tail(todo), failed' = failed, cert'[c] # None, cert'[c] = r,
              r.to = r.from + CertValidity
       PROVE Covered(c, 0)' /\ Covered(c, MaxGap)'
  <2>1. signer \in bundle[c] /\ lastSync <= signer.from + CARefresh
    BY <1>4 DEF SignerFresh
  <2>2. \A b \in bundle[c] : b.id = signer.id => b = signer
    <3>1. \A b \in bundle[c] : b \in Authorities
      BY DEF Authorities, AuthoritiesOf, Chains, AInv, SyncSound
    <3> QED
      BY <2>1, <3>1 DEF AInv, AuthoritiesSound
  <2>3. signer.from \in Nat /\ r.from \in Nat
    BY DEF Certs
  <2>4. lastSync <= r.from + CertRefresh
    BY <1>1, <2>3
  <2>5. /\ r.issuer = signer.id /\ cert'[c] = r /\ bundle' = bundle /\ lastSync' = lastSync
    BY <1>1, <1>10
  <2>6. Covered(c, 0)'
    BY <1>10, <2>1, <2>2, <2>3, <2>4, <2>5 DEF Covered
  <2>7. Covered(c, MaxGap)'
    <3>1. lastSync <= signer.from + CARefresh + MaxGap
      BY <2>1, <2>3
    <3>2. lastSync <= r.from + CertRefresh + MaxGap
      BY <2>3, <2>4
    <3> QED
      BY <1>10, <2>1, <2>2, <2>5, <3>1, <3>2 DEF Covered
  <2> QED
    BY <2>6, <2>7
<1>11. ASSUME cert'[c] # None
       PROVE Covered(c, MaxGap)' /\ (Passed(c)' /\ ~failed' => Covered(c, 0)')
  <2>1. CASE r = e /\ cert' = cert /\ todo' = Tail(todo) /\ failed' = failed
    <3>1. cert[c] = snap.cert[c]
      BY <1>4, <1>11, <2>1 DEF ViewsCurrent
    <3>2. cert[c] = e
      BY <1>1, <1>11, <2>1, <3>1 DEF getWithCache
    <3>3. r.to = r.from + CertValidity
      BY <1>11, <2>1, <3>2 DEF LeavesCovered, Covered
    <3> QED
      BY <1>10, <1>11, <2>1, <3>2, <3>3
  <2>2. CASE /\ e = cert[c] /\ cert' = [cert EXCEPT ![c] = r]
             /\ r # e /\ todo' = Tail(todo) /\ failed' = failed
    <3>1. cert'[c] = r /\ r.to = r.from + CertValidity
      BY <1>1, <2>2
    <3> QED
      BY <1>10, <1>11, <2>2, <3>1
  <2>3. CASE cert' = cert /\ todo' = AfterChain(Head(todo)) /\ failed' = TRUE
    <3>1. Covered(c, MaxGap)
      BY <1>11, <2>3 DEF LeavesCovered
    <3> QED
      BY <1>2, <2>3, <3>1 DEF Covered
  <2> QED
    BY <1>1, <2>1, <2>2, <2>3
<1>12. ASSUME NEW d \in Chains, d # c, cert'[d] # None
       PROVE Covered(d, MaxGap)' /\ (Passed(d)' /\ ~failed' => Covered(d, 0)')
  <2>1. Passed(d)' /\ ~failed' => Passed(d) /\ ~failed
    BY <1>1, <1>5, <1>6, <1>12
  <2> QED
    BY <1>2, <1>7, <1>12, <2>1, LeavesKept
<1>13. LeavesCovered'
  BY <1>11, <1>12 DEF LeavesCovered
<1> QED
  BY <1>3, <1>8, <1>9, <1>13

LEMMA ITick == IInv /\ Tick => IInv'
<1> SUFFICES ASSUME IInv, Tick PROVE IInv'
  OBVIOUS
<1> USE AFacts, NumbersFacts DEF IInv
<1>1. /\ now - lastSync < MaxGap /\ now' = now + 1
      /\ UNCHANGED <<lastSync, bundle, cert, snap, signer, todo, failed>>
  BY DEF Tick, objects
<1>2. AInv'
  BY ATick
<1>3. GapKept'
  BY <1>1 DEF GapKept
<1>4. ViewsCurrent'
  BY <1>1 DEF ViewsCurrent, Passed, Ahead, AtCA, AtBundle
<1>5. SignerFresh'
  BY <1>1 DEF SignerFresh, AtBundle, AtCert
<1>6. LeavesCovered'
  BY <1>1 DEF LeavesCovered, Covered, Passed
<1> QED
  BY <1>2, <1>3, <1>4, <1>5, <1>6

LEMMA ICrash == IInv /\ Crash => IInv'
<1> SUFFICES ASSUME IInv, Crash PROVE IInv'
  OBVIOUS
<1> USE DEF IInv
<1>1. todo' = <<>> /\ UNCHANGED <<now, lastSync, bundle, cert>>
  BY DEF Crash, objects
<1>2. \A d \in Chains : ~Passed(d)' /\ ~AtBundle(d)' /\ ~AtCert(d)' /\ ~Ahead(d)'
  BY <1>1, Distinct DEF Passed, AtCA, AtBundle, AtCert, Ahead
<1>3. AInv'
  BY ACrash
<1>4. ViewsCurrent' /\ GapKept' /\ SignerFresh'
  BY <1>1, <1>2 DEF ViewsCurrent, GapKept, SignerFresh
<1>5. LeavesCovered'
  BY <1>1, <1>2, LeavesKept DEF LeavesCovered
<1> QED
  BY <1>3, <1>4, <1>5

LEMMA IRefuse == IInv /\ Refuse => IInv'
<1> SUFFICES ASSUME IInv, Refuse PROVE IInv'
  OBVIOUS
<1> USE AFacts DEF IInv
<1>1. /\ todo # <<>> /\ Head(todo)[2] # "conn" /\ todo' = AfterChain(Head(todo)) /\ failed' = TRUE
      /\ UNCHANGED <<now, lastSync, bundle, cert, snap>>
  BY DEF Refuse, FailChain, objects
<1>2. \A d \in Chains : /\ ~AtBundle(d)' /\ ~AtCert(d)'
                        /\ (Passed(d) => Passed(d)') /\ (Ahead(d)' => Ahead(d))
  BY <1>1, GivenUp
<1>3. AInv'
  BY ARefuse
<1>4. ViewsCurrent' /\ GapKept' /\ SignerFresh'
  BY <1>1, <1>2 DEF ViewsCurrent, GapKept, SignerFresh
<1>5. LeavesCovered'
  BY <1>1, LeavesKept DEF LeavesCovered
<1> QED
  BY <1>3, <1>4, <1>5

LEMMA IRename == IInv /\ Rename => IInv'
<1> SUFFICES ASSUME IInv, Rename PROVE IInv'
  OBVIOUS
<1> USE DEF IInv
<1>1. UNCHANGED <<now, lastSync, bundle, cert, snap, signer, todo, failed>>
  BY DEF Rename, objects
<1>2. AInv'
  BY ARename
<1>3. ViewsCurrent' /\ GapKept'
  BY <1>1 DEF ViewsCurrent, GapKept, Passed, Ahead, AtCA, AtBundle
<1>4. SignerFresh'
  BY <1>1 DEF SignerFresh, AtBundle, AtCert
<1>5. LeavesCovered'
  BY <1>1 DEF LeavesCovered, Covered, Passed
<1> QED
  BY <1>2, <1>3, <1>4, <1>5

LEMMA IDelete ==
  ASSUME IInv, RotationFits, NEW c \in Chains, NEW kind \in Deletable, Delete(c, kind)
  PROVE IInv'
<1> USE DEF IInv
<1>1. /\ \A d \in Chains : cert'[d] \in {cert[d], None}
      /\ bundle' = bundle /\ UNCHANGED <<now, lastSync, snap, signer, todo, failed>>
  BY DeleteStep DEF RotationFits
<1>2. AInv'
  BY ADelete
<1>3. ViewsCurrent' /\ GapKept'
  BY <1>1 DEF ViewsCurrent, GapKept, Passed, Ahead, AtCA, AtBundle
<1>4. SignerFresh'
  BY <1>1 DEF SignerFresh, AtBundle, AtCert
<1>5. \A d \in Chains : Passed(d)' <=> Passed(d)
  BY <1>1 DEF Passed
<1>6. LeavesCovered'
  BY <1>1, <1>5, LeavesKept DEF LeavesCovered
<1> QED
  BY <1>2, <1>3, <1>4, <1>6

LEMMA INext ==
  ASSUME RotationFits
  PROVE IInv /\ [Next]_vars => IInv'
<1> SUFFICES ASSUME IInv, [Next]_vars PROVE IInv'
  OBVIOUS
<1>1. CASE StartSync
  BY <1>1, IStartSync
<1>2. CASE ApplyConn
  BY <1>2, IApplyConn
<1>3. CASE \E c \in Chains : ApplyCA(c) \/ ApplyBundle(c) \/ ApplyCert(c)
  BY <1>3, IApplyCA, IApplyBundle, IApplyCert
<1>4. CASE Tick
  BY <1>4, ITick
<1>5. CASE Crash
  BY <1>5, ICrash
<1>6. CASE Refuse
  BY <1>6, IRefuse
<1>7. CASE Rename
  BY <1>7, IRename
<1>8. CASE \E c \in Chains, kind \in Deletable : Delete(c, kind)
  BY <1>8, IDelete
<1>9. CASE UNCHANGED vars
  <2>1. UNCHANGED <<now, lastSync, bundle, cert, snap, signer, todo, failed>>
    BY <1>9 DEF vars
  <2>2. AInv'
    BY <1>9, ANext DEF IInv
  <2>3. ViewsCurrent' /\ GapKept' /\ SignerFresh'
    BY <2>1 DEF IInv, ViewsCurrent, GapKept, SignerFresh, Passed, Ahead, AtCA, AtBundle, AtCert
  <2>4. LeavesCovered'
    BY <2>1 DEF IInv, LeavesCovered, Covered, Passed
  <2> QED
    BY <2>2, <2>3, <2>4 DEF IInv
<1> QED
  BY <1>1, <1>2, <1>3, <1>4, <1>5, <1>6, <1>7, <1>8, <1>9 DEF Next

-----------------------------------------------------------------------------
(* Theorems. *)

\* A leaf that is served is always covered by the bundle that clients have
\* (ManageCertificates: the bundle is written before the leaf, MakeCABundle keeps
\* every CA that is valid), whatever crashes, conflicts or deleted Secrets come
\* between, if no bundle is deleted and the refresh leaves time for two attempts.
THEOREM LeavesAreTrusted ==
  ASSUME RotationFits
  PROVE Spec => []IssuerTrusted
<1>1. Init => IInv
  BY IInit
<1>2. IInv /\ [Next]_vars => IInv'
  BY INext
<1>3. IInv => IssuerTrusted
  BY DEF IInv, LeavesCovered, Covered, IssuerTrusted
<1> QED
  BY <1>1, <1>2, <1>3, PTL DEF Spec

\* The whole chain is valid at every moment (needsRefresh of a leaf whose CA was
\* replaced, of a CA and of a leaf at its refresh time), under the same conditions.
THEOREM ChainsAreValid ==
  ASSUME RotationFits
  PROVE Spec => []ChainValid
<1>1. Init => IInv
  BY IInit
<1>2. IInv /\ [Next]_vars => IInv'
  BY INext
<1>3. IInv => ChainValid
  <2> SUFFICES ASSUME IInv, NEW c \in Chains, cert[c] # None
               PROVE /\ now <= cert[c].to
                     /\ \A b \in bundle[c] : b.id = cert[c].issuer => now <= b.to
    BY DEF ChainValid
  <2> USE NumbersFacts DEF RotationFits
  <2>1. Covered(c, MaxGap) /\ GapKept /\ AInv
    BY DEF IInv, LeavesCovered
  <2>2. now \in Nat /\ lastSync \in Nat /\ cert[c] \in Certs /\ now <= lastSync + MaxGap
    BY <2>1, AFacts DEF GapKept
  <2>3. now <= cert[c].to
    <3>1. cert[c].from \in Nat
      BY <2>2 DEF Certs
    <3>2. lastSync <= cert[c].from + CertRefresh + MaxGap /\ cert[c].to = cert[c].from + CertValidity
      BY <2>1 DEF Covered
    <3> QED
      BY <2>2, <3>1, <3>2
  <2>4. ASSUME NEW b \in bundle[c], b.id = cert[c].issuer PROVE now <= b.to
    <3>1. b \in Authorities
      BY <2>1 DEF Authorities, AuthoritiesOf, Chains, AInv, SyncSound
    <3>2. SoundCA(b)
      BY <2>1, <3>1 DEF AInv, AuthoritiesSound
    <3>3. b.from \in Nat /\ b.to = b.from + CAValidity
      BY <3>2 DEF SoundCA, Certs
    <3>4. lastSync <= b.from + CARefresh + MaxGap
      BY <2>1, <2>4 DEF Covered
    <3> QED
      BY <2>2, <3>3, <3>4
  <2> QED
    BY <2>3, <2>4
<1> QED
  BY <1>1, <1>2, <1>3, PTL DEF Spec

=============================================================================
