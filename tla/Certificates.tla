---------------------------- MODULE Certificates ----------------------------
(***************************************************************************)
(* The certificates of a datacenter: syncCerts manages chains of a CA       *)
(* Secret, a CA bundle ConfigMap and a leaf Secret, call by call, and then  *)
(* the connection config that is built from them.                          *)
(*                                                                          *)
(* Time is a counter.  A certificate is its number, its issuer's number,    *)
(* the time it is valid from and to, and the names it is made for; a CA     *)
(* issues itself.                                                           *)
(***************************************************************************)
EXTENDS Naturals, Sequences, FiniteSets

CONSTANTS
  CAValidity, CARefresh,       \* lifetime of a CA, and age at which it is refreshed
  CertValidity, CertRefresh,   \* the same for leaf certificates
  MaxTime,                     \* bound on time
  MaxGap,                      \* time in which the operator completes a sync
  Deletable,                   \* kinds of object a user may delete
  MaxEvents                    \* bound on deletions, changes of the names, crashes
                               \* and refused calls, together

ASSUME CertificatesAssumption ==
  /\ CAValidity \in Nat \ {0} /\ CARefresh \in 1..CAValidity
  /\ CertValidity \in Nat \ {0} /\ CertRefresh \in 1..CertValidity
  /\ MaxTime \in Nat /\ MaxGap \in Nat \ {0}
  /\ Deletable \subseteq {"ca", "bundle", "cert"}
  /\ MaxEvents \in Nat

Chains == {"client", "serving"}

VARIABLES
  now,       \* the time
  lastSync,  \* when the last sync ended without an error
  names,     \* the names and addresses the serving certificate is to carry
  ca,        \* chain -> CA certificate in its Secret
  bundle,    \* chain -> CA certificates in its ConfigMap
  cert,      \* chain -> leaf certificate in its Secret
  conn,      \* what the connection config holds: a leaf and a bundle
  queued,    \* the datacenter is in the work queue
  snap,      \* the objects as listed at the start of the sync
  signer,    \* the CA that the sync signs with
  todo,      \* the calls that the sync has left
  failed,    \* a call of this sync failed
  serial,    \* the last certificate number given
  used       \* deletions and other events so far

objects == <<ca, bundle, cert, conn>>
vars == <<now, lastSync, names, ca, bundle, cert, conn, queued, snap, signer, todo, failed, serial, used>>

None == [id |-> 0, issuer |-> 0, from |-> 0, to |-> 0, names |-> 0]
NoConn == [cert |-> None, cas |-> {}]
NoSnap == [ca |-> [c \in Chains |-> None], bundle |-> [c \in Chains |-> {}],
           cert |-> [c \in Chains |-> None], conn |-> NoConn, names |-> 0]

Certs == [id : Nat, issuer : Nat, from : Nat, to : Nat, names : Nat]

TypeOK ==
  /\ now \in 0..MaxTime /\ lastSync \in 0..now
  /\ names \in 1..(MaxEvents + 1)
  /\ ca \in [Chains -> Certs] /\ cert \in [Chains -> Certs]
  /\ \A c \in Chains : \A b \in bundle[c] : b \in Certs /\ b.id = b.issuer
  /\ conn.cert \in Certs /\ \A b \in conn.cas : b \in Certs
  /\ queued \in BOOLEAN /\ failed \in BOOLEAN
  /\ todo \in Seq(Chains \X {"ca", "bundle", "cert", "conn"}) /\ Len(todo) <= 7
  /\ signer \in Certs /\ serial \in Nat
  /\ used \in [deletions : 0..MaxEvents, others : 0..MaxEvents]

Init ==
  /\ now = 0 /\ lastSync = 0 /\ names = 1
  /\ ca = NoSnap.ca /\ bundle = NoSnap.bundle /\ cert = NoSnap.cert /\ conn = NoConn
  /\ queued = TRUE /\ snap = NoSnap /\ signer = None /\ todo = <<>> /\ failed = FALSE
  /\ serial = 0
  /\ used = [deletions |-> 0, others |-> 0]

-----------------------------------------------------------------------------
(* Certificates. *)

\* FilterOutExpiredCertificates.
FilterOutExpiredCertificates(certs) == {c \in certs : c.to > now}

\* MakeCABundle: the current CA, and the previous ones that are valid.
MakeCABundle(current, previous) == {current} \cup FilterOutExpiredCertificates(previous)

\* Mutant: only an expired certificate is refreshed.
needsRefreshWhenExpired(c, refresh, issuer, wanted) ==
  now > c.to \/ c.names # wanted \/ c.issuer # issuer

\* Mutant: a change of the names is not noticed.
needsRefreshIgnoringNames(c, refresh, issuer, wanted) ==
  \/ now > c.to \/ now > c.to - (c.to - c.from) \div 5 \/ now > c.from + refresh
  \/ c.issuer # issuer

\* needsRefresh.
needsRefresh(c, refresh, issuer, wanted) ==
  \/ now > c.to
  \/ now > c.to - (c.to - c.from) \div 5
  \/ now > c.from + refresh
  \/ c.names # wanted
  \/ c.issuer # issuer

\* MakeCertificate of X509CertCreator: a new key and a certificate over it.
NewCertificate(issuer, validity, wanted) ==
  [id |-> serial + 1, issuer |-> issuer, from |-> now, to |-> now + validity, names |-> wanted]

\* Mutant: a certificate is made at every sync of another time.
makeCertificateAnew(existing, issuer, validity, refresh, wanted) ==
  IF existing = None \/ existing.from # now \/ existing.names # wanted \/ existing.issuer # issuer
  THEN NewCertificate(issuer, validity, wanted) ELSE existing

\* extractExistingSecret: a Secret without a usable certificate is as good as none.
Usable(existing, refresh, issuer, wanted) ==
  existing # None /\ ~needsRefresh(existing, refresh, issuer, wanted)

\* makeCertificate: the existing certificate, or a new one.
makeCertificate(existing, issuer, validity, refresh, wanted) ==
  IF Usable(existing, refresh, issuer, wanted) THEN existing
  ELSE NewCertificate(issuer, validity, wanted)

\* MakeSelfSignedCA: the key, and with it the issuer, is the certificate's own.
MakeSelfSignedCA(existing) ==
  LET self == IF existing = None THEN serial + 1 ELSE existing.id
      made == makeCertificate(existing, self, CAValidity, CARefresh, 0)
  IN [made EXCEPT !.issuer = made.id]

\* MakeCertificate of SigningTLSSecret.
MakeCertificate(chain, existing) ==
  makeCertificate(existing, signer.id, CertValidity, CertRefresh,
                  IF chain = "serving" THEN snap.names ELSE 0)

-----------------------------------------------------------------------------
(* The sync. *)

\* Mutant: the leaf is applied before the bundle.
StagesLeafFirst(chain) == <<<<chain, "ca">>, <<chain, "cert">>, <<chain, "bundle">>>>

\* ManageCertificates: the order of the objects of a chain.
Stages(chain) == <<<<chain, "ca">>, <<chain, "bundle">>, <<chain, "cert">>>>

\* syncCerts: the client chain, the serving chain, the connection config.
syncCerts == Stages("client") \o Stages("serving") \o <<<<"client", "conn">>>>

\* The names and addresses of the member and identity Services, of their Pods and
\* the Host IDs, as syncCerts collects and sorts them.
servingNames == names

StartSync ==
  /\ todo = <<>> /\ queued
  /\ queued' = FALSE /\ failed' = FALSE
  /\ snap' = [ca |-> ca, bundle |-> bundle, cert |-> cert, conn |-> conn, names |-> servingNames]
  /\ todo' = syncCerts
  /\ UNCHANGED <<now, lastSync, names, objects, signer, serial, used>>

\* getWithCache: the listed object, or a read of it when it was not listed.
getWithCache(listed, absent, current) == IF listed # absent THEN listed ELSE current

\* The number of a new certificate is used up.
Numbered(made) == serial' = IF made.id > serial THEN made.id ELSE serial

\* The calls that are left of the sync when the chain of `call' is given up.
AfterChain(call) ==
  IF call[2] = "conn" THEN <<>>
  ELSE (IF call[1] = "client" THEN Stages("serving") ELSE <<>>) \o <<<<"client", "conn">>>>

\* A call that fails ends its chain, not the sync; the datacenter is requeued.
FailChain == failed' = TRUE /\ todo' = AfterChain(Head(todo))

\* What an apply of `required' over the object seen as `existing' does: nothing
\* when they are equal, an update, or a conflict when the object has changed.
Applied(required, existing, current, result) ==
  \/ /\ required = existing /\ result = current
     /\ todo' = Tail(todo) /\ UNCHANGED failed
  \/ /\ required # existing /\ existing = current /\ result = required
     /\ todo' = Tail(todo) /\ UNCHANGED failed
  \/ /\ required # existing /\ existing # current /\ result = current
     /\ FailChain

\* The CA, which signs from now on.
ApplyCA(c) ==
  /\ todo # <<>> /\ Head(todo) = <<c, "ca">>
  /\ LET existing == getWithCache(snap.ca[c], None, ca[c])
         required == MakeSelfSignedCA(existing)
     IN /\ \E r \in {required, ca[c]} :
             Applied(required, existing, ca[c], r) /\ ca' = [ca EXCEPT ![c] = r]
        /\ signer' = required
        /\ Numbered(required)
  /\ queued' = (queued \/ ca' # ca)
  /\ UNCHANGED <<now, lastSync, names, bundle, cert, conn, snap, used>>

ApplyBundle(c) ==
  /\ todo # <<>> /\ Head(todo) = <<c, "bundle">>
  /\ LET existing == getWithCache(snap.bundle[c], {}, bundle[c])
         required == MakeCABundle(signer, existing)
     IN \E r \in {required, bundle[c]} :
          Applied(required, existing, bundle[c], r) /\ bundle' = [bundle EXCEPT ![c] = r]
  /\ queued' = (queued \/ bundle' # bundle)
  /\ UNCHANGED <<now, lastSync, names, ca, cert, conn, snap, signer, serial, used>>

ApplyCert(c) ==
  /\ todo # <<>> /\ Head(todo) = <<c, "cert">>
  /\ LET existing == getWithCache(snap.cert[c], None, cert[c])
         required == MakeCertificate(c, existing)
     IN /\ \E r \in {required, cert[c]} :
             Applied(required, existing, cert[c], r) /\ cert' = [cert EXCEPT ![c] = r]
        /\ Numbered(required)
  /\ queued' = (queued \/ cert' # cert)
  /\ UNCHANGED <<now, lastSync, names, ca, bundle, conn, snap, signer, used>>

\* makeScyllaConnectionConfig: from the objects as they were listed.
makeScyllaConnectionConfig == [cert |-> snap.cert["client"], cas |-> snap.bundle["serving"]]

ApplyConn ==
  /\ todo # <<>> /\ Head(todo)[2] = "conn"
  /\ IF snap.cert["client"] = None \/ snap.bundle["serving"] = {}
     THEN FailChain /\ UNCHANGED conn
     ELSE \E r \in {makeScyllaConnectionConfig, conn} :
            Applied(makeScyllaConnectionConfig, snap.conn, conn, r) /\ conn' = r
  /\ lastSync' = IF failed' THEN lastSync ELSE now
  /\ queued' = (queued \/ failed' \/ conn' # conn)
  /\ UNCHANGED <<now, names, ca, bundle, cert, snap, signer, serial, used>>

-----------------------------------------------------------------------------
(* The environment. *)

\* Time passes.  The informers resync, which queues the datacenter, and the
\* operator is never without a completed sync for longer than MaxGap.
Tick ==
  /\ now < MaxTime /\ now - lastSync < MaxGap
  /\ now' = now + 1
  /\ queued' = TRUE
  /\ UNCHANGED <<lastSync, names, objects, snap, signer, todo, failed, serial, used>>

CanHappen == used.deletions + used.others < MaxEvents

\* The operator restarts: everything is queued again.
Crash ==
  /\ todo # <<>> /\ CanHappen
  /\ todo' = <<>> /\ queued' = TRUE /\ snap' = NoSnap /\ signer' = None /\ failed' = FALSE
  /\ used' = [used EXCEPT !.others = @ + 1]
  /\ UNCHANGED <<now, lastSync, names, objects, serial>>

\* The next call is refused.
Refuse ==
  /\ todo # <<>> /\ Head(todo)[2] # "conn" /\ CanHappen
  /\ FailChain
  /\ used' = [used EXCEPT !.others = @ + 1]
  /\ UNCHANGED <<now, lastSync, names, objects, queued, snap, signer, serial>>

Delete(c, kind) ==
  /\ kind \in Deletable /\ CanHappen
  /\ \/ kind = "ca" /\ ca' = [ca EXCEPT ![c] = None] /\ UNCHANGED <<bundle, cert>>
     \/ kind = "bundle" /\ bundle' = [bundle EXCEPT ![c] = {}] /\ UNCHANGED <<ca, cert>>
     \/ kind = "cert" /\ cert' = [cert EXCEPT ![c] = None] /\ UNCHANGED <<ca, bundle>>
  /\ queued' = TRUE
  /\ used' = [used EXCEPT !.deletions = @ + 1]
  /\ UNCHANGED <<now, lastSync, names, conn, snap, signer, todo, failed, serial>>

\* A node gets another address or Host ID.
Rename ==
  /\ CanHappen
  /\ names' = names + 1 /\ queued' = TRUE
  /\ used' = [used EXCEPT !.others = @ + 1]
  /\ UNCHANGED <<now, lastSync, objects, snap, signer, todo, failed, serial>>

Sync == StartSync \/ ApplyConn \/ \E c \in Chains : ApplyCA(c) \/ ApplyBundle(c) \/ ApplyCert(c)

Next ==
  \/ StartSync \/ ApplyConn
  \/ \E c \in Chains : ApplyCA(c) \/ ApplyBundle(c) \/ ApplyCert(c)
  \/ Tick \/ Crash \/ Refuse \/ Rename
  \/ \E c \in Chains, kind \in Deletable : Delete(c, kind)

Spec == Init /\ [][Next]_vars
FairSpec == Spec /\ WF_vars(Sync)

-----------------------------------------------------------------------------
(* Properties. *)

\* A leaf is always covered by the published bundle: with the order of the calls in
\* ManageCertificates no crash, conflict or deleted Secret exposes a leaf whose CA
\* the clients cannot find, and the bundle never drops a CA that is still in use.
IssuerTrusted ==
  \A c \in Chains : cert[c] # None => \E b \in bundle[c] : b.id = cert[c].issuer

\* The whole chain is valid at every moment: leaf and CA are renewed, one because
\* of the other, before either expires.
ChainValid ==
  \A c \in Chains : cert[c] # None =>
    now <= cert[c].to /\ \A b \in bundle[c] : b.id = cert[c].issuer => now <= b.to

\* A CA key is only replaced for a reason: without a deletion, the CA of a chain
\* stays for its refresh time, whatever sync is interrupted.
CAStays ==
  [][\A c \in Chains : used'.deletions = 0 /\ ca[c] # None /\ ca'[c] # ca[c] =>
       now > ca[c].from + CARefresh \/ now > ca[c].to - CAValidity \div 5]_vars

\* In the end the leaf has the current names, and the connection config, which a
\* sync builds from what it listed before its own changes, has the current leaf
\* and bundle.
EventuallySettled ==
  <>[](/\ cert["serving"].names = names
       /\ conn = [cert |-> cert["client"], cas |-> bundle["serving"]]
       /\ ca["client"].id = cert["client"].issuer
       /\ ca["serving"].id = cert["serving"].issuer)

=============================================================================
