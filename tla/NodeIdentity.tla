---------------------------- MODULE NodeIdentity ----------------------------
(***************************************************************************)
(* The identity of one Data-Plane node on the Control Plane: enrollment    *)
(* tokens, the registered certificate serial, the revocation list, and the *)
(* handlers that verify a caller and later change its registration (Enroll,*)
(* RenewCert, the heartbeat), with the files of both sides.  More than one *)
(* host may claim the node's ID.                                           *)
(*                                                                         *)
(* Abstractions.  A certificate is its serial; serials are never reused    *)
(* (SignCSR draws 128 random bits).  Verification, which reads the store   *)
(* twice, is one step.  Any status but revoked is "connected".  Labels,    *)
(* rate limits, CA rotation, expiry and removal of tokens, removal of CRL  *)
(* entries after a year, and the issuance fence (HALease) are left out.    *)
(***************************************************************************)
EXTENDS Integers, FiniteSets

CONSTANTS
  Host,                \* machines that claim the node's ID
  Ticket,              \* enrollment tokens that were generated for it
  MaxSerial,           \* bound on issued certificates
  IdentityScenarios    \* bounds on crashes, failing saves, and lost replies

ASSUME IdentityAssumption ==
  /\ IsFiniteSet(Host) /\ IsFiniteSet(Ticket) /\ MaxSerial \in Nat
  /\ IdentityScenarios \subseteq [crashes : Nat, faults : Nat, losses : Nat]

VARIABLES
  registry,  \* ClusterStore: the node's serial and status, the CRL, used tokens
  regfile,   \* cluster.json
  machine,   \* per host: the serials of its cert and key files, and of the
             \* certificate its connection presented
  rpc,       \* per host: the call it is in
  expired,   \* serials whose certificate has expired
  minted,    \* history: how many certificates each token was good for
  signed,    \* the last serial issued
  barred,    \* history: an operator's revocation, "yes" once acknowledged,
             \* "void" if an enrollment took its place before it was saved
  crossed,   \* history: a caller verified before the revocation was served after
  cutoff,    \* history: a certificate may have missed its host
  mercy      \* the scenario, as far as it is not used up

identityVars == <<registry, regfile, machine, rpc, expired, minted, signed, barred,
                  crossed, cutoff, mercy>>

Serial == 0..MaxSerial
Registry == [serial : Serial, status : {"none", "connected", "revoked"},
             crl : SUBSET Serial, used : SUBSET Ticket]
Mercy == [crashes : Nat, faults : Nat, losses : Nat]
NoCall == [at |-> "none", ticket |-> {}, prior |-> 0, serial |-> 0]
Revoking == {"pending", "void"}   \* RevokeNode has yet to save
CPSteps == {"admitted", "consumed", "registered", "supersede", "superseded", "verified",
            "seen", "periodic", "reply"}
RpcSteps == {"none", "install", "pair"} \cup CPSteps
Rpc == [at : RpcSteps, ticket : SUBSET Ticket, prior : Serial, serial : Serial]

IdentityTypeOK ==
  /\ registry \in Registry /\ regfile \in Registry
  /\ machine \in [Host -> [crt : Serial, key : Serial, wire : Serial]]
  /\ rpc \in [Host -> Rpc]
  /\ expired \subseteq Serial /\ signed \in Serial
  /\ minted \in [Ticket -> Nat]
  /\ barred \in {"no", "yes"} \cup Revoking /\ {crossed, cutoff} \subseteq BOOLEAN
  /\ mercy \in Mercy

IdentityInit ==
  /\ registry = [serial |-> 0, status |-> "none", crl |-> {}, used |-> {}]
  /\ regfile = registry
  /\ machine = [h \in Host |-> [crt |-> 0, key |-> 0, wire |-> 0]]
  /\ rpc = [h \in Host |-> NoCall]
  /\ expired = {} /\ minted = [t \in Ticket |-> 0] /\ signed = 0
  /\ barred = "no" /\ crossed = FALSE /\ cutoff = FALSE
  /\ mercy \in IdentityScenarios

-----------------------------------------------------------------------------
Draw(what) == mercy[what] > 0 /\ mercy' = [mercy EXCEPT ![what] = @ - 1]
Proceed(h, at) == rpc' = [rpc EXCEPT ![h].at = at]
Answer(h) == rpc' = [rpc EXCEPT ![h] = NoCall]

\* The store is saved, or the write fails and is only logged.
SaveStore(new) ==
  \/ regfile' = new /\ UNCHANGED <<mercy, cutoff>>
  \/ Draw("faults") /\ cutoff' = TRUE /\ UNCHANGED regfile

\* verifyNode: the serial the caller presented is the registered one, and it is
\* not revoked.
Verified(h) ==
  /\ machine[h].wire # 0 /\ machine[h].wire = registry.serial
  /\ registry.serial \notin registry.crl

-----------------------------------------------------------------------------
(* Enroll.                                                                 *)

\* admitEnrollment's duplicate check: unknown, revoked, or expired.
EnrollAdmit(h, t) ==
  /\ rpc[h] = NoCall
  /\ LET again == registry.status = "connected" /\ registry.serial \in expired
     IN /\ registry.status # "connected" \/ again
        /\ rpc' = [rpc EXCEPT ![h] = [at |-> "admitted", ticket |-> {t}, serial |-> 0,
                                      prior |-> IF again THEN registry.serial ELSE 0]]
  /\ UNCHANGED <<registry, regfile, machine, expired, minted, signed, barred, crossed,
                 cutoff, mercy>>

\* Mutant: the token is saved with the registration that follows.
EnrollConsumeUnsaved(h) ==
  /\ rpc[h].at = "admitted"
  /\ LET new == [registry EXCEPT !.used = @ \cup rpc[h].ticket] IN
     \/ rpc[h].ticket \subseteq registry.used /\ Answer(h) /\ UNCHANGED registry
     \/ /\ ~(rpc[h].ticket \subseteq registry.used)
        /\ registry' = new /\ Proceed(h, "consumed")
  /\ UNCHANGED <<regfile, machine, expired, minted, signed, barred, crossed, cutoff, mercy>>

\* ValidateAndConsumeToken: marked and saved under one lock; refused if that
\* fails, with the mark left in memory.
EnrollConsume(h) ==
  /\ rpc[h].at = "admitted"
  /\ LET new == [registry EXCEPT !.used = @ \cup rpc[h].ticket] IN
     \/ /\ rpc[h].ticket \subseteq registry.used /\ Answer(h)
        /\ UNCHANGED <<registry, regfile, mercy>>
     \/ /\ ~(rpc[h].ticket \subseteq registry.used) /\ registry' = new
        /\ \/ regfile' = new /\ Proceed(h, "consumed") /\ UNCHANGED mercy
           \/ Draw("faults") /\ Answer(h) /\ UNCHANGED regfile
  /\ UNCHANGED <<machine, expired, minted, signed, barred, crossed, cutoff>>

\* The certificate is signed and the node registered.
EnrollRegister(h) ==
  /\ rpc[h].at = "consumed" /\ signed < MaxSerial /\ signed' = signed + 1
  /\ registry' = [registry EXCEPT !.serial = signed', !.status = "connected"]
  /\ rpc' = [rpc EXCEPT ![h].at = "registered", ![h].serial = signed']
  /\ minted' = [t \in Ticket |-> IF t \in rpc[h].ticket THEN minted[t] + 1 ELSE minted[t]]
  /\ barred' = (IF barred \in Revoking THEN "void" ELSE "no") /\ crossed' = FALSE
  /\ UNCHANGED <<regfile, machine, expired, cutoff, mercy>>

\* The CSR is refused or cannot be signed: an enrollment has used its token up,
\* a renewal has changed nothing.
SignRefused(h) ==
  /\ rpc[h].at \in {"consumed", "verified"} /\ Answer(h)
  /\ UNCHANGED <<registry, regfile, machine, expired, minted, signed, barred, crossed,
                 cutoff, mercy>>

\* RegisterNode's save, after its unlock.
EnrollSave(h) ==
  /\ rpc[h].at = "registered" /\ SaveStore(registry)
  /\ Proceed(h, IF rpc[h].prior = 0 THEN "reply" ELSE "supersede")
  /\ UNCHANGED <<registry, machine, expired, minted, signed, barred, crossed>>

\* recordExpiredNodeReenrollment: the expired serial joins the CRL, if it is not
\* on it already; RevokeSerial saves after its unlock.
Supersede(h) ==
  /\ rpc[h].at = "supersede"
  /\ \/ rpc[h].prior \in registry.crl /\ Proceed(h, "reply") /\ UNCHANGED registry
     \/ /\ rpc[h].prior \notin registry.crl /\ Proceed(h, "superseded")
        /\ registry' = [registry EXCEPT !.crl = @ \cup {rpc[h].prior}]
  /\ UNCHANGED <<regfile, machine, expired, minted, signed, barred, crossed, cutoff, mercy>>

SupersedeSave(h) ==
  /\ rpc[h].at = "superseded" /\ SaveStore(registry) /\ Proceed(h, "reply")
  /\ UNCHANGED <<registry, machine, expired, minted, signed, barred, crossed>>

-----------------------------------------------------------------------------
(* RenewCert and the heartbeat.                                            *)

Call(h, at) ==
  /\ rpc[h] = NoCall /\ Verified(h)
  /\ rpc' = [rpc EXCEPT ![h] = [NoCall EXCEPT !.at = at]]
  /\ UNCHANGED <<registry, regfile, machine, expired, minted, signed, barred, crossed,
                 cutoff, mercy>>

RenewCert(h) == Call(h, "verified")
Heartbeat(h) == Call(h, "seen")

\* A verified caller is served although it was revoked since.
Crossing == crossed' = (crossed \/ barred # "no")

\* Mutant: the new serial is left to the next periodic save.
RenewUpdateUnsaved(h) ==
  /\ rpc[h].at = "verified" /\ signed < MaxSerial /\ signed' = signed + 1
  /\ registry' = [registry EXCEPT !.serial = signed'] /\ Crossing
  /\ rpc' = [rpc EXCEPT ![h].at = "reply", ![h].serial = signed']
  /\ UNCHANGED <<regfile, machine, expired, minted, barred, cutoff, mercy>>

\* RenewCert signs, and replaces the serial and saves under one lock.
RenewUpdate(h) ==
  /\ rpc[h].at = "verified" /\ signed < MaxSerial /\ signed' = signed + 1
  /\ registry' = [registry EXCEPT !.serial = signed'] /\ Crossing
  /\ SaveStore(registry')
  /\ rpc' = [rpc EXCEPT ![h].at = "reply", ![h].serial = signed']
  /\ UNCHANGED <<machine, expired, minted, barred>>

\* UpdateNodeSeen; every tenth call saves after its unlock, as best it can.
Seen(h) ==
  /\ rpc[h].at = "seen" /\ Crossing
  /\ registry' = [registry EXCEPT !.status = "connected"]
  /\ Answer(h) \/ Proceed(h, "periodic")
  /\ UNCHANGED <<regfile, machine, expired, minted, signed, barred, cutoff, mercy>>

SeenSave(h) ==
  /\ rpc[h].at = "periodic" /\ Answer(h) /\ regfile' \in {regfile, registry}
  /\ UNCHANGED <<registry, machine, expired, minted, signed, barred, crossed, cutoff, mercy>>

-----------------------------------------------------------------------------
(* The operator.                                                           *)

\* Mutant: only the status changes.
RevokeStatusOnly ==
  /\ registry.status = "connected" /\ barred \notin Revoking
  /\ registry' = [registry EXCEPT !.status = "revoked"]
  /\ barred' = "pending" /\ crossed' = FALSE
  /\ UNCHANGED <<regfile, machine, rpc, expired, minted, signed, cutoff, mercy>>

\* RevokeNode: the serial joins the CRL; the save follows after the unlock.
RevokeNode ==
  /\ registry.status = "connected" /\ barred \notin Revoking
  /\ registry' = [registry EXCEPT !.status = "revoked", !.crl = @ \cup {registry.serial}]
  /\ barred' = "pending" /\ crossed' = FALSE
  /\ UNCHANGED <<regfile, machine, rpc, expired, minted, signed, cutoff, mercy>>

RevokeSave ==
  /\ barred \in Revoking
  /\ \/ /\ regfile' = registry /\ UNCHANGED mercy
        /\ barred' = IF barred = "pending" THEN "yes" ELSE "no"
     \/ Draw("faults") /\ barred' = "no" /\ UNCHANGED regfile
  /\ UNCHANGED <<registry, machine, rpc, expired, minted, signed, crossed, cutoff>>

-----------------------------------------------------------------------------
(* The host: delivery of a reply, its files, its connection.               *)

Deliver(h) ==
  /\ rpc[h].at = "reply"
  /\ \/ Proceed(h, "install") /\ UNCHANGED <<cutoff, mercy>>
     \/ Draw("losses") /\ Answer(h) /\ cutoff' = TRUE
  /\ UNCHANGED <<registry, regfile, machine, expired, minted, signed, barred, crossed>>

\* The host refuses a certificate of a stale epoch, or cannot write a file.
InstallFails(h) == Draw("faults") /\ Answer(h) /\ cutoff' = TRUE /\ UNCHANGED machine

\* The certificate is written, then the key; a new connection presents them
\* unless the redial fails or the CA file cannot be written first.
WriteCert(h) ==
  /\ rpc[h].at = "install"
  /\ \/ InstallFails(h)
     \/ /\ Proceed(h, "pair") /\ UNCHANGED <<cutoff, mercy>>
        /\ machine' = [machine EXCEPT ![h].crt = rpc[h].serial]
  /\ UNCHANGED <<registry, regfile, expired, minted, signed, barred, crossed>>

WriteKey(h) ==
  /\ rpc[h].at = "pair"
  /\ \/ InstallFails(h)
     \/ /\ Answer(h) /\ UNCHANGED <<cutoff, mercy>>
        /\ \E w \in {machine[h].wire, rpc[h].serial} :
             machine' = [machine EXCEPT ![h].key = rpc[h].serial, ![h].wire = w]
  /\ UNCHANGED <<registry, regfile, expired, minted, signed, barred, crossed>>

\* The handshake takes a pair of files that match and have not expired.
Connect(h) ==
  /\ rpc[h] = NoCall /\ machine[h].crt # 0 /\ machine[h].crt = machine[h].key
  /\ machine[h].crt \notin expired
  /\ machine[h].wire # machine[h].crt
  /\ machine' = [machine EXCEPT ![h].wire = machine[h].crt]
  /\ UNCHANGED <<registry, regfile, rpc, expired, minted, signed, barred, crossed, cutoff, mercy>>

\* A certificate expires; a connection that presented it goes on.
ExpireCert ==
  /\ registry.serial # 0 /\ registry.serial \notin expired
  /\ expired' = expired \cup {registry.serial}
  /\ UNCHANGED <<registry, regfile, machine, rpc, minted, signed, barred, crossed, cutoff, mercy>>

HostCrash(h) ==
  /\ Draw("crashes")
  /\ machine' = [machine EXCEPT ![h].wire = 0]
  /\ Answer(h) /\ cutoff' = (cutoff \/ rpc[h].at # "none")
  /\ UNCHANGED <<registry, regfile, expired, minted, signed, barred, crossed>>

\* The Control Plane restarts; a call it was serving fails.
CPCrash ==
  /\ Draw("crashes") /\ registry' = regfile
  /\ rpc' = [h \in Host |-> IF rpc[h].at \in CPSteps THEN NoCall ELSE rpc[h]]
  /\ cutoff' = (cutoff \/ \E h \in Host : rpc[h].at \in CPSteps /\ rpc[h].serial # 0)
  /\ barred' = IF barred \in Revoking THEN "no" ELSE barred
  /\ UNCHANGED <<regfile, machine, expired, minted, signed, crossed>>

-----------------------------------------------------------------------------
IdentityNext ==
  \/ \E h \in Host :
       \/ \E t \in Ticket : EnrollAdmit(h, t)
       \/ EnrollConsume(h) \/ EnrollRegister(h) \/ EnrollSave(h)
       \/ SignRefused(h) \/ Supersede(h) \/ SupersedeSave(h)
       \/ RenewCert(h) \/ RenewUpdate(h) \/ Heartbeat(h) \/ Seen(h) \/ SeenSave(h)
       \/ Deliver(h) \/ WriteCert(h) \/ WriteKey(h) \/ Connect(h) \/ HostCrash(h)
  \/ RevokeNode \/ RevokeSave \/ ExpireCert \/ CPCrash

IdentitySpec == IdentityInit /\ [][IdentityNext]_identityVars

-----------------------------------------------------------------------------
(* Properties.                                                             *)

\* "preventing replay attacks after crashes" (ValidateAndConsumeToken): a token
\* is good for one certificate, whichever hosts present it at once, and
\* whatever crashes and failing saves come between.
TokenOnce == \A t \in Ticket : minted[t] <= 1

\* An acknowledged revocation stays in force until an operator's token lets the
\* node in again: the registered serial is on the CRL, in memory and for every
\* later process, and the status admits that token.  The exception is a call
\* that was verified before the revocation and served after it (README, 3.3).
RevocationHolds ==
  (barred = "yes" /\ ~crossed)
    => \A store \in {registry, regfile} :
         store.serial \in store.crl /\ store.status = "revoked"

\* The registered certificate is in the hands of a host, with its key, whenever
\* no call is under way: across renewals, competing enrollments and restarts of
\* both sides at other times.  A lost reply, a crash in the middle of a call
\* and a failed write of either side are the exceptions, after which the node is locked out
\* until its certificate expires or it is revoked.
RegisteredIsHeld ==
  (~cutoff /\ registry.serial # 0 /\ \A h \in Host : rpc[h] = NoCall)
    => \E h \in Host : machine[h].crt = registry.serial /\ machine[h].key = registry.serial

=============================================================================
