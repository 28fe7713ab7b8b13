------------------------- MODULE NodeIdentityProofs -------------------------
(***************************************************************************)
(* Proofs about NodeIdentity for any number of hosts, tokens and           *)
(* certificates, and any number of crashes, failing saves and lost         *)
(* replies.                                                                *)
(*                                                                         *)
(* Each safety property has an invariant of its own, inductive relative to *)
(* IdentityTypeOK: TicketInv follows a token from memory to disk to the    *)
(* certificate it bought, RevokeInv the revocation between its lock and    *)
(* its save, SerialInv a certificate from the signature to the host's two  *)
(* files.                                                                  *)
(*                                                                         *)
(* The last section composes the parts of a node: each of them keeps its   *)
(* invariant in MCServices, where one part moves and the others stand.     *)
(***************************************************************************)
EXTENDS MCServices, LoopsConnProofs, FeedDraftProofs, TLAPS

-----------------------------------------------------------------------------
(* The records the actions edit.                                           *)

\* The next serial is one.
LEMMA SerialFacts ==
  /\ 0 \in Serial /\ Serial \subseteq Int
  /\ \A s \in Serial : s < MaxSerial => s + 1 \in Serial
BY IdentityAssumption DEF Serial

\* What the handlers write into the store keeps its type.
LEMMA RegistryEdits ==
  ASSUME NEW r \in Registry
  PROVE  /\ \A s \in Serial : [r EXCEPT !.serial = s] \in Registry
         /\ \A s \in Serial : [r EXCEPT !.serial = s, !.status = "connected"] \in Registry
         /\ [r EXCEPT !.status = "connected"] \in Registry
         /\ \A c \in SUBSET Serial : [r EXCEPT !.crl = @ \cup c] \in Registry
         /\ [r EXCEPT !.status = "revoked", !.crl = @ \cup {r.serial}] \in Registry
         /\ \A u \in SUBSET Ticket : [r EXCEPT !.used = @ \cup u] \in Registry
BY DEF Registry

\* So do the steps of a call.
LEMMA RpcEdits ==
  /\ NoCall \in Rpc
  /\ \A a \in RpcSteps : [NoCall EXCEPT !.at = a] \in Rpc
  /\ \A c \in Rpc, a \in RpcSteps :
       /\ [c EXCEPT !.at = a] \in Rpc
       /\ \A s \in Serial : [c EXCEPT !.at = a, !.serial = s] \in Rpc
BY SerialFacts DEF Rpc, NoCall, RpcSteps, CPSteps

\* Moving on with a call, and ending it.
LEMMA CallTypes ==
  ASSUME IdentityTypeOK, NEW h \in Host
  PROVE  /\ \A a \in RpcSteps : Proceed(h, a) => rpc' \in [Host -> Rpc]
         /\ Answer(h) => rpc' \in [Host -> Rpc]
<1>1. \A c \in Rpc : [rpc EXCEPT ![h] = c] \in [Host -> Rpc]
  BY DEF IdentityTypeOK
<1>2. \A a \in RpcSteps : [rpc[h] EXCEPT !.at = a] \in Rpc
  BY RpcEdits DEF IdentityTypeOK
<1> QED BY <1>1, <1>2, RpcEdits DEF Proceed, Answer

\* The scenario's budget stays a triple of numbers.
LEMMA DrawTypes ==
  ASSUME IdentityTypeOK, NEW what \in {"crashes", "faults", "losses"}, Draw(what)
  PROVE  mercy' \in Mercy
BY DEF IdentityTypeOK, Draw, Mercy

\* A save, taken or failed, leaves a well-typed file.
LEMMA SaveTypes ==
  ASSUME IdentityTypeOK, NEW new \in Registry, SaveStore(new)
  PROVE  regfile' \in Registry /\ cutoff' \in BOOLEAN /\ mercy' \in Mercy
<1>1. CASE Draw("faults")
  BY <1>1, DrawTypes DEF IdentityTypeOK, SaveStore
<1>2. CASE ~Draw("faults")
  BY <1>2 DEF IdentityTypeOK, SaveStore
<1> QED BY <1>1, <1>2

-----------------------------------------------------------------------------
(* Type correctness.                                                       *)

\* Every action of the Control Plane, the hosts and the operator keeps the
\* state well typed.
LEMMA IdentityTypeStep == IdentityTypeOK /\ [IdentityNext]_identityVars => IdentityTypeOK'
<1> SUFFICES ASSUME IdentityTypeOK, [IdentityNext]_identityVars PROVE IdentityTypeOK'
  OBVIOUS
<1> USE DEF Revoking
<1>t. /\ registry \in Registry /\ regfile \in Registry /\ registry.serial \in Serial
      /\ registry.status \in {"none", "connected", "revoked"}
      /\ \A h \in Host : rpc[h] \in Rpc /\ rpc[h].serial \in Serial
                         /\ rpc[h].prior \in Serial /\ rpc[h].ticket \subseteq Ticket
  BY DEF IdentityTypeOK, Registry, Rpc
<1>s. {"none", "install", "pair", "registered", "consumed", "reply", "supersede",
       "superseded", "verified", "seen", "periodic"} \subseteq RpcSteps
  BY DEF RpcSteps, CPSteps
<1>1. CASE UNCHANGED identityVars
  BY <1>1 DEF IdentityTypeOK, identityVars
<1>2. ASSUME NEW h \in Host, NEW t \in Ticket, EnrollAdmit(h, t) PROVE IdentityTypeOK'
  <2> DEFINE c == [at |-> "admitted", ticket |-> {t}, serial |-> 0,
                   prior |-> IF registry.status = "connected" /\ registry.serial \in expired
                             THEN registry.serial ELSE 0]
  <2>1. c \in Rpc
    BY <1>t, SerialFacts DEF Rpc, RpcSteps, CPSteps
  <2>2. rpc' = [rpc EXCEPT ![h] = c]
    BY <1>2 DEF EnrollAdmit
  <2> HIDE DEF c
  <2> QED BY <1>2, <2>1, <2>2 DEF IdentityTypeOK, EnrollAdmit
<1>3. ASSUME NEW h \in Host, EnrollConsume(h) PROVE IdentityTypeOK'
  <2>1. registry' \in Registry /\ regfile' \in Registry
    <3>1. [registry EXCEPT !.used = @ \cup rpc[h].ticket] \in Registry
      BY <1>t, RegistryEdits
    <3> QED BY <1>3, <1>t, <3>1 DEF EnrollConsume
  <2>2. mercy' \in Mercy
    BY <1>3, DrawTypes DEF IdentityTypeOK, EnrollConsume
  <2>3. rpc' \in [Host -> Rpc]
    BY <1>3, <1>s, CallTypes DEF EnrollConsume
  <2> QED BY <1>3, <2>1, <2>2, <2>3 DEF IdentityTypeOK, EnrollConsume
<1>4. ASSUME NEW h \in Host, EnrollRegister(h) PROVE IdentityTypeOK'
  <2>1. signed' \in Serial
    BY <1>4, SerialFacts DEF IdentityTypeOK, EnrollRegister
  <2>2. registry' \in Registry
    BY <1>4, <1>t, <2>1, RegistryEdits DEF EnrollRegister
  <2>3. rpc' \in [Host -> Rpc]
    BY <1>4, <1>s, <1>t, <2>1, RpcEdits DEF EnrollRegister, IdentityTypeOK
  <2>4. minted' \in [Ticket -> Nat]
    BY <1>4 DEF IdentityTypeOK, EnrollRegister
  <2> QED BY <1>4, <2>1, <2>2, <2>3, <2>4 DEF IdentityTypeOK, EnrollRegister
<1>5. ASSUME NEW h \in Host, EnrollSave(h) PROVE IdentityTypeOK'
  <2>1. rpc' \in [Host -> Rpc]
    BY <1>5, <1>s, CallTypes DEF EnrollSave
  <2> QED BY <1>5, <1>t, <2>1, SaveTypes DEF IdentityTypeOK, EnrollSave
<1>6. ASSUME NEW h \in Host, Supersede(h) PROVE IdentityTypeOK'
  <2>1. rpc' \in [Host -> Rpc]
    BY <1>6, <1>s, CallTypes DEF Supersede
  <2>2. registry' \in Registry
    <3>1. [registry EXCEPT !.crl = @ \cup {rpc[h].prior}] \in Registry
      BY <1>t, RegistryEdits
    <3> QED BY <1>6, <1>t, <3>1 DEF Supersede
  <2> QED BY <1>6, <2>1, <2>2 DEF IdentityTypeOK, Supersede
<1>7. ASSUME NEW h \in Host, RenewCert(h) \/ Heartbeat(h) PROVE IdentityTypeOK'
  BY <1>7, <1>s, RpcEdits DEF IdentityTypeOK, RenewCert, Heartbeat, Call
<1>8. ASSUME NEW h \in Host, RenewUpdate(h) PROVE IdentityTypeOK'
  <2>1. signed' \in Serial
    BY <1>8, SerialFacts DEF IdentityTypeOK, RenewUpdate
  <2>2. registry' \in Registry
    BY <1>8, <1>t, <2>1, RegistryEdits DEF RenewUpdate
  <2>3. rpc' \in [Host -> Rpc]
    BY <1>8, <1>s, <1>t, <2>1, RpcEdits DEF RenewUpdate, IdentityTypeOK
  <2> QED BY <1>8, <2>1, <2>2, <2>3, SaveTypes DEF IdentityTypeOK, RenewUpdate, Crossing
<1>9. ASSUME NEW h \in Host, Seen(h) PROVE IdentityTypeOK'
  <2>1. registry' \in Registry
    BY <1>9, <1>t, RegistryEdits DEF Seen
  <2>2. rpc' \in [Host -> Rpc]
    BY <1>9, <1>s, CallTypes DEF Seen
  <2> QED BY <1>9, <2>1, <2>2 DEF IdentityTypeOK, Seen, Crossing
<1>10. ASSUME NEW h \in Host, Deliver(h) PROVE IdentityTypeOK'
  BY <1>10, <1>s, DrawTypes, CallTypes DEF IdentityTypeOK, Deliver
<1>11. ASSUME NEW h \in Host, WriteCert(h) PROVE IdentityTypeOK'
  <2>1. rpc' \in [Host -> Rpc] /\ mercy' \in Mercy /\ cutoff' \in BOOLEAN
    BY <1>11, <1>s, DrawTypes, CallTypes DEF IdentityTypeOK, WriteCert, InstallFails
  <2>2. machine' \in [Host -> [crt : Serial, key : Serial, wire : Serial]]
    BY <1>11, <1>t DEF IdentityTypeOK, WriteCert, InstallFails
  <2> QED BY <1>11, <2>1, <2>2 DEF IdentityTypeOK, WriteCert
<1>12. ASSUME NEW h \in Host, WriteKey(h) PROVE IdentityTypeOK'
  <2>1. rpc' \in [Host -> Rpc] /\ mercy' \in Mercy /\ cutoff' \in BOOLEAN
    BY <1>12, DrawTypes, CallTypes DEF IdentityTypeOK, WriteKey, InstallFails
  <2>2. machine' \in [Host -> [crt : Serial, key : Serial, wire : Serial]]
    BY <1>12, <1>t DEF IdentityTypeOK, WriteKey, InstallFails
  <2> QED BY <1>12, <2>1, <2>2 DEF IdentityTypeOK, WriteKey
<1>13. ASSUME NEW h \in Host, Connect(h) PROVE IdentityTypeOK'
  BY <1>13 DEF IdentityTypeOK, Connect
<1>14. ASSUME NEW h \in Host, HostCrash(h) PROVE IdentityTypeOK'
  BY <1>14, SerialFacts, DrawTypes, CallTypes DEF IdentityTypeOK, HostCrash
<1>15. CASE RevokeNode
  BY <1>15, <1>t, RegistryEdits DEF IdentityTypeOK, RevokeNode
<1>16. CASE RevokeSave
  BY <1>16, DrawTypes DEF IdentityTypeOK, RevokeSave
<1>17. CASE ExpireCert
  BY <1>17, <1>t DEF IdentityTypeOK, ExpireCert
<1>18. CASE CPCrash
  <2>1. rpc' \in [Host -> Rpc]
    BY <1>18, <1>t, RpcEdits DEF CPCrash
  <2>2. mercy' \in Mercy /\ cutoff' \in BOOLEAN
    BY <1>18, DrawTypes DEF CPCrash
  <2>3. barred' \in {"no", "yes"} \cup Revoking
    BY <1>18 DEF IdentityTypeOK, CPCrash
  <2> QED BY <1>18, <2>1, <2>2, <2>3 DEF IdentityTypeOK, CPCrash
<1>19. ASSUME NEW h \in Host, SupersedeSave(h) PROVE IdentityTypeOK'
  <2>1. rpc' \in [Host -> Rpc]
    BY <1>19, <1>s, CallTypes DEF SupersedeSave
  <2> QED BY <1>19, <1>t, <2>1, SaveTypes DEF IdentityTypeOK, SupersedeSave
<1>20. ASSUME NEW h \in Host, SignRefused(h) \/ SeenSave(h) PROVE IdentityTypeOK'
  BY <1>20, CallTypes DEF IdentityTypeOK, SignRefused, SeenSave
<1> QED BY <1>1, <1>2, <1>3, <1>4, <1>5, <1>6, <1>7, <1>8, <1>9, <1>10, <1>11, <1>12,
           <1>13, <1>14, <1>15, <1>16, <1>17, <1>18, <1>19, <1>20 DEF IdentityNext

\* A fresh store and fresh hosts are well typed.
LEMMA IdentityTypeInit == IdentityInit => IdentityTypeOK
<1> SUFFICES ASSUME IdentityInit PROVE IdentityTypeOK
  OBVIOUS
<1>1. registry \in Registry /\ regfile \in Registry
  BY SerialFacts DEF IdentityInit, Registry
<1>2. rpc \in [Host -> Rpc] /\ machine \in [Host -> [crt : Serial, key : Serial, wire : Serial]]
  BY SerialFacts, RpcEdits DEF IdentityInit
<1>3. mercy \in Mercy
  BY IdentityAssumption DEF IdentityInit, Mercy
<1> QED BY <1>1, <1>2, <1>3, SerialFacts DEF IdentityInit, IdentityTypeOK

\* Every reachable state of node enrollment, renewal and revocation is well
\* typed, for any hosts, tokens, certificates and faults.
THEOREM IdentityTypeCorrect == IdentitySpec => []IdentityTypeOK
BY IdentityTypeInit, IdentityTypeStep, PTL DEF IdentitySpec

-----------------------------------------------------------------------------
(* A token buys one certificate.                                           *)

\* A token that bought a certificate is used up on disk; so is one whose
\* enrollment goes on, which has bought nothing yet and is in one call only.
\* What is used up on disk is used up in memory.
TicketInv ==
  /\ regfile.used \subseteq registry.used
  /\ \A t \in Ticket : minted[t] <= 1 /\ (minted[t] = 1 => t \in regfile.used)
  /\ \A h \in Host : rpc[h].at = "admitted" => \E t \in Ticket : rpc[h].ticket = {t}
  /\ \A h \in Host : rpc[h].at = "consumed"
       => \A t \in rpc[h].ticket : t \in regfile.used /\ minted[t] = 0
  /\ \A g, h \in Host : (g # h /\ rpc[g].at = "consumed" /\ rpc[h].at = "consumed")
       => rpc[g].ticket \cap rpc[h].ticket = {}

\* The calls of the other hosts go on unchanged.
OthersKeep(h) == \A g \in Host \ {h} : rpc'[g] = rpc[g]

\* What a call looks like after it moved on, ended, or drew a certificate.
LEMMA CallFacts ==
  ASSUME IdentityTypeOK, NEW h \in Host
  PROVE  /\ \A a : Proceed(h, a) =>
              /\ OthersKeep(h) /\ rpc'[h].at = a /\ rpc'[h].ticket = rpc[h].ticket
              /\ rpc'[h].serial = rpc[h].serial /\ rpc'[h].prior = rpc[h].prior
         /\ Answer(h) => OthersKeep(h) /\ rpc'[h] = NoCall
         /\ \A a, s : rpc' = [rpc EXCEPT ![h].at = a, ![h].serial = s]
              => OthersKeep(h) /\ rpc'[h].at = a /\ rpc'[h].serial = s
         /\ \A a : Call(h, a) => OthersKeep(h) /\ rpc'[h].at = a /\ rpc'[h].serial = 0
<1>1. rpc \in [Host -> Rpc] /\ rpc[h] \in Rpc
  BY DEF IdentityTypeOK
<1>2. \A a : Proceed(h, a) =>
              /\ OthersKeep(h) /\ rpc'[h].at = a /\ rpc'[h].ticket = rpc[h].ticket
              /\ rpc'[h].serial = rpc[h].serial /\ rpc'[h].prior = rpc[h].prior
  BY <1>1 DEF Proceed, OthersKeep, Rpc
<1>3. Answer(h) => OthersKeep(h) /\ rpc'[h] = NoCall
  BY <1>1 DEF Answer, OthersKeep
<1>4. \A a, s : rpc' = [rpc EXCEPT ![h].at = a, ![h].serial = s]
              => OthersKeep(h) /\ rpc'[h].at = a /\ rpc'[h].serial = s
  BY <1>1 DEF OthersKeep, Rpc
<1>5. \A a : Call(h, a) => OthersKeep(h) /\ rpc'[h].at = a /\ rpc'[h].serial = 0
  BY <1>1 DEF Call, OthersKeep, NoCall
<1> QED BY <1>2, <1>3, <1>4, <1>5

\* Fields of the store that an edit leaves alone, and those it sets.
LEMMA StoreFacts ==
  ASSUME NEW r \in Registry
  PROVE  /\ \A s : LET n == [r EXCEPT !.serial = s]
                   IN n.serial = s /\ n.status = r.status /\ n.crl = r.crl /\ n.used = r.used
         /\ \A s, p : LET n == [r EXCEPT !.serial = s, !.status = p]
                      IN n.serial = s /\ n.status = p /\ n.crl = r.crl /\ n.used = r.used
         /\ \A p : LET n == [r EXCEPT !.status = p]
                   IN n.serial = r.serial /\ n.status = p /\ n.crl = r.crl /\ n.used = r.used
         /\ \A c : LET n == [r EXCEPT !.crl = c]
                   IN n.serial = r.serial /\ n.status = r.status /\ n.crl = c /\ n.used = r.used
         /\ \A p, c : LET n == [r EXCEPT !.status = p, !.crl = c]
                      IN n.serial = r.serial /\ n.status = p /\ n.crl = c /\ n.used = r.used
         /\ \A u : LET n == [r EXCEPT !.used = u]
                   IN n.serial = r.serial /\ n.status = r.status /\ n.crl = r.crl /\ n.used = u
BY DEF Registry

\* No action but EnrollConsume takes an enrollment past its token, or marks
\* one; no action but EnrollRegister mints a certificate for one.
TicketFrame ==
  /\ minted' = minted
  /\ regfile.used \subseteq regfile'.used /\ regfile'.used \subseteq registry'.used
  /\ \A h \in Host : \/ rpc'[h] = rpc[h] \/ rpc'[h].at \notin {"admitted", "consumed"}
                     \/ rpc'[h].at = "admitted" /\ \E t \in Ticket : rpc'[h].ticket = {t}

\* So every other action keeps the tokens' bookkeeping.
LEMMA TicketFrameStep == IdentityTypeOK /\ TicketInv /\ TicketFrame => TicketInv'
BY DEF TicketInv, TicketFrame, IdentityTypeOK

\* A step of one call that leaves the tokens alone.
LEMMA TicketCall ==
  ASSUME IdentityTypeOK, TicketInv, NEW h \in Host, OthersKeep(h),
         rpc'[h].at \notin {"admitted", "consumed"}, minted' = minted,
         regfile.used \subseteq regfile'.used, regfile'.used \subseteq registry'.used
  PROVE  TicketInv'
BY TicketFrameStep DEF TicketFrame, OthersKeep

\* A save keeps the used tokens that were on disk.
LEMMA SaveKeepsUsed ==
  ASSUME NEW new, SaveStore(new), regfile.used \subseteq new.used
  PROVE  regfile.used \subseteq regfile'.used /\ regfile'.used \subseteq new.used
BY DEF SaveStore

\* Every action keeps the tokens' bookkeeping.
LEMMA TicketStep ==
  IdentityTypeOK /\ TicketInv /\ [IdentityNext]_identityVars => TicketInv'
<1> SUFFICES ASSUME IdentityTypeOK, TicketInv, [IdentityNext]_identityVars PROVE TicketInv'
  OBVIOUS
<1>t. registry \in Registry /\ regfile \in Registry /\ rpc \in [Host -> Rpc]
  BY DEF IdentityTypeOK
<1>u. regfile.used \subseteq registry.used
  BY DEF TicketInv
<1>n. NoCall.at = "none"
  BY DEF NoCall
<1>1. CASE UNCHANGED identityVars
  BY <1>1 DEF TicketInv, identityVars
<1>2. ASSUME NEW h \in Host, NEW t \in Ticket, EnrollAdmit(h, t) PROVE TicketInv'
  <2>1. TicketFrame
    BY <1>2, <1>t, <1>u DEF TicketFrame, EnrollAdmit
  <2> QED BY <2>1, TicketFrameStep
<1>3. ASSUME NEW h \in Host, EnrollConsume(h) PROVE TicketInv'
  <2> DEFINE new == [registry EXCEPT !.used = @ \cup rpc[h].ticket]
  <2>1. PICK t \in Ticket : rpc[h].ticket = {t}
    BY <1>3 DEF TicketInv, EnrollConsume
  <2>n. new.used = registry.used \cup {t}
    BY <1>t, <2>1, StoreFacts
  <2>m. minted' = minted
    BY <1>3 DEF EnrollConsume
  <2>c. \/ t \in registry.used /\ Answer(h) /\ registry' = registry /\ regfile' = regfile
        \/ t \notin registry.used /\ registry' = new /\ regfile' = regfile /\ Answer(h)
        \/ t \notin registry.used /\ registry' = new /\ regfile' = new /\ Proceed(h, "consumed")
    BY <1>3, <2>1 DEF EnrollConsume
  <2> HIDE DEF new
  <2>2. CASE Answer(h) /\ regfile' = regfile /\ registry' \in {registry, new}
    BY <1>u, <1>n, <2>2, <2>n, <2>m, TicketCall, CallFacts
  <2>4. CASE /\ t \notin registry.used /\ Proceed(h, "consumed")
             /\ registry' = new /\ regfile' = new
    <3>1. registry'.used = registry.used \cup {t} /\ regfile'.used = registry.used \cup {t}
      BY <2>n, <2>4
    <3>2. /\ rpc'[h].ticket = {t} /\ rpc'[h].at = "consumed"
          /\ \A g \in Host \ {h} : rpc'[g] = rpc[g]
      BY <2>1, <2>4, CallFacts DEF OthersKeep
    <3>3. minted[t] = 0 /\ \A g \in Host : rpc[g].at = "consumed" => t \notin rpc[g].ticket
      BY <1>u, <2>4 DEF TicketInv, IdentityTypeOK
    <3> QED BY <2>m, <1>u, <3>1, <3>2, <3>3 DEF TicketInv
  <2> QED BY <2>c, <2>2, <2>4
<1>4. ASSUME NEW h \in Host, EnrollRegister(h) PROVE TicketInv'
  <2>1. registry'.used = registry.used /\ regfile' = regfile
    BY <1>4, <1>t, StoreFacts DEF EnrollRegister
  <2>2. rpc'[h].at = "registered" /\ \A g \in Host \ {h} : rpc'[g] = rpc[g]
    BY <1>4, CallFacts DEF EnrollRegister, OthersKeep
  <2>3. \A t \in Ticket : minted'[t] = IF t \in rpc[h].ticket THEN minted[t] + 1 ELSE minted[t]
    BY <1>4 DEF EnrollRegister
  <2>4. rpc[h].at = "consumed" /\ rpc[h].ticket \subseteq Ticket
    BY <1>4, <1>t DEF EnrollRegister, Rpc
  <2>5. \A t \in rpc[h].ticket : t \in regfile.used /\ minted[t] = 0
    BY <2>4 DEF TicketInv
  <2>6. \A t \in Ticket : minted'[t] <= 1 /\ (minted'[t] = 1 => t \in regfile'.used)
    BY <2>1, <2>3, <2>5 DEF TicketInv, IdentityTypeOK
  <2>7. \A g \in Host : rpc'[g].at = "consumed"
          => \A t \in rpc'[g].ticket : t \in regfile'.used /\ minted'[t] = 0
    <3> SUFFICES ASSUME NEW g \in Host, rpc'[g].at = "consumed", NEW t \in rpc'[g].ticket
                 PROVE  t \in regfile'.used /\ minted'[t] = 0
      OBVIOUS
    <3>1. g # h /\ rpc'[g] = rpc[g] /\ t \in Ticket
      BY <2>2, <1>t DEF Rpc
    <3>2. t \notin rpc[h].ticket
      BY <2>4, <3>1 DEF TicketInv
    <3> QED BY <2>1, <2>3, <3>1, <3>2 DEF TicketInv
  <2>8. /\ \A g \in Host : rpc'[g].at = "admitted" => \E t \in Ticket : rpc'[g].ticket = {t}
        /\ \A f, g \in Host : (f # g /\ rpc'[f].at = "consumed" /\ rpc'[g].at = "consumed")
             => rpc'[f].ticket \cap rpc'[g].ticket = {}
    BY <2>2 DEF TicketInv
  <2> QED BY <1>u, <2>1, <2>6, <2>7, <2>8 DEF TicketInv
<1>5. ASSUME NEW h \in Host, EnrollSave(h) PROVE TicketInv'
  <2>1. regfile.used \subseteq regfile'.used /\ regfile'.used \subseteq registry'.used
    BY <1>5, <1>u, SaveKeepsUsed DEF EnrollSave
  <2>2. OthersKeep(h) /\ rpc'[h].at \in {"reply", "supersede"} /\ minted' = minted
    BY <1>5, CallFacts DEF EnrollSave
  <2> QED BY <2>1, <2>2, TicketCall
<1>6. ASSUME NEW h \in Host, Supersede(h) PROVE TicketInv'
  <2> DEFINE new == [registry EXCEPT !.crl = @ \cup {rpc[h].prior}]
  <2>n. new.used = registry.used
    BY <1>t, StoreFacts
  <2>c. registry' \in {registry, new} /\ regfile' = regfile
    BY <1>6 DEF Supersede
  <2> HIDE DEF new
  <2>1. registry'.used = registry.used /\ regfile' = regfile
    BY <2>n, <2>c
  <2>2. OthersKeep(h) /\ rpc'[h].at \in {"reply", "superseded"} /\ minted' = minted
    BY <1>6, CallFacts DEF Supersede
  <2> QED BY <1>u, <2>1, <2>2, TicketCall
<1>7. ASSUME NEW h \in Host, RenewCert(h) \/ Heartbeat(h) PROVE TicketInv'
  <2>1. OthersKeep(h) /\ rpc'[h].at \in {"verified", "seen"}
    BY <1>7, CallFacts DEF RenewCert, Heartbeat
  <2>2. minted' = minted /\ regfile' = regfile /\ registry' = registry
    BY <1>7 DEF RenewCert, Heartbeat, Call
  <2> QED BY <1>u, <2>1, <2>2, TicketCall
<1>8. ASSUME NEW h \in Host, RenewUpdate(h) PROVE TicketInv'
  <2>1. registry'.used = registry.used /\ SaveStore(registry') /\ minted' = minted
    BY <1>8, <1>t, StoreFacts DEF RenewUpdate
  <2>2. regfile.used \subseteq regfile'.used /\ regfile'.used \subseteq registry'.used
    BY <1>u, <2>1, SaveKeepsUsed
  <2>3. OthersKeep(h) /\ rpc'[h].at = "reply"
    BY <1>8, CallFacts DEF RenewUpdate
  <2> QED BY <2>1, <2>2, <2>3, TicketCall
<1>9. ASSUME NEW h \in Host, Seen(h) PROVE TicketInv'
  <2>1. registry'.used = registry.used /\ regfile' = regfile /\ minted' = minted
    BY <1>9, <1>t, StoreFacts DEF Seen
  <2>2. OthersKeep(h) /\ rpc'[h].at \in {"none", "periodic"}
    BY <1>9, <1>n, CallFacts DEF Seen
  <2> QED BY <1>u, <2>1, <2>2, TicketCall
<1>10. ASSUME NEW h \in Host, \/ Deliver(h) \/ WriteCert(h) \/ WriteKey(h)
                              \/ HostCrash(h) \/ SignRefused(h)
       PROVE TicketInv'
  <2>1. minted' = minted /\ regfile' = regfile /\ registry' = registry
    BY <1>10 DEF Deliver, WriteCert, WriteKey, HostCrash, SignRefused
  <2>2. Proceed(h, "install") \/ Proceed(h, "pair") \/ Answer(h)
    BY <1>10 DEF Deliver, WriteCert, WriteKey, InstallFails, HostCrash, SignRefused
  <2>3. OthersKeep(h) /\ rpc'[h].at \in {"install", "pair", "none"}
    BY <1>n, <2>2, CallFacts
  <2> QED BY <1>u, <2>1, <2>3, TicketCall
<1>11. ASSUME NEW h \in Host, Connect(h) PROVE TicketInv'
  BY <1>11 DEF Connect, TicketInv
<1>12. CASE RevokeNode
  <2>1. registry'.used = registry.used
    BY <1>12, <1>t, StoreFacts DEF RevokeNode
  <2> QED BY <1>12, <1>u, <2>1 DEF TicketInv, RevokeNode
<1>13. CASE RevokeSave \/ ExpireCert
  <2>1. TicketFrame
    BY <1>13, <1>u DEF TicketFrame, RevokeSave, ExpireCert
  <2> QED BY <2>1, TicketFrameStep
<1>14. CASE CPCrash
  <2>1. TicketFrame
    BY <1>14, <1>n DEF TicketFrame, CPCrash
  <2> QED BY <2>1, TicketFrameStep
<1>15. ASSUME NEW h \in Host, SupersedeSave(h) PROVE TicketInv'
  <2>1. regfile.used \subseteq regfile'.used /\ regfile'.used \subseteq registry'.used
    BY <1>15, <1>u, SaveKeepsUsed DEF SupersedeSave
  <2>2. OthersKeep(h) /\ rpc'[h].at = "reply" /\ minted' = minted
    BY <1>15, CallFacts DEF SupersedeSave
  <2> QED BY <2>1, <2>2, TicketCall
<1>16. ASSUME NEW h \in Host, SeenSave(h) PROVE TicketInv'
  <2>1. registry' = registry /\ regfile' \in {regfile, registry} /\ minted' = minted
    BY <1>16 DEF SeenSave
  <2>2. OthersKeep(h) /\ rpc'[h].at = "none"
    BY <1>16, <1>n, CallFacts DEF SeenSave
  <2> QED BY <1>u, <2>1, <2>2, TicketCall
<1> QED BY <1>1, <1>2, <1>3, <1>4, <1>5, <1>6, <1>7, <1>8, <1>9, <1>10, <1>11, <1>12,
           <1>13, <1>14, <1>15, <1>16 DEF IdentityNext

\* A token is good for one certificate, however many hosts present it at once
\* and whatever crashes and failing saves come between
\* (ValidateAndConsumeToken).
THEOREM TokenBuysOnce == IdentitySpec => []TokenOnce
<1>1. IdentityInit => TicketInv
  BY DEF IdentityInit, TicketInv, NoCall
<1>2. TicketInv => TokenOnce
  BY DEF TicketInv, TokenOnce
<1> QED BY <1>1, <1>2, TicketStep, IdentityTypeCorrect, PTL DEF IdentitySpec

-----------------------------------------------------------------------------
(* An acknowledged revocation holds.                                       *)

\* From the step that takes the lock, the revocation is in force in memory; the
\* save that acknowledges it puts it on disk, and from then on every later save
\* and every restart finds it in both.
InForce(store) == store.serial \in store.crl /\ store.status = "revoked"
RevokeInv ==
  /\ (barred = "pending" /\ ~crossed) => InForce(registry)
  /\ (barred = "yes" /\ ~crossed) => InForce(registry) /\ InForce(regfile)

\* A step that leaves the serial and the status of both stores alone, removes
\* nothing from the CRL, and copies at most the store in memory to disk.
RevokeFrame ==
  /\ barred' = barred /\ crossed' = crossed
  /\ InForce(registry) => InForce(registry')
  /\ regfile' \in {regfile, registry'}

\* Such a step keeps the revocation.
LEMMA RevokeFrameStep == RevokeInv /\ RevokeFrame => RevokeInv'
BY DEF RevokeInv, RevokeFrame, InForce

\* Every action keeps the revocation.
LEMMA RevokeStep ==
  IdentityTypeOK /\ RevokeInv /\ [IdentityNext]_identityVars => RevokeInv'
<1> SUFFICES ASSUME IdentityTypeOK, RevokeInv, [IdentityNext]_identityVars PROVE RevokeInv'
  OBVIOUS
<1>t. /\ registry \in Registry /\ regfile \in Registry
      /\ barred \in {"no", "yes", "pending", "void"} /\ crossed \in BOOLEAN
  BY DEF IdentityTypeOK, Revoking
<1>s. \A new : SaveStore(new) => regfile' \in {regfile, new}
  BY DEF SaveStore
<1>1. CASE UNCHANGED identityVars
  BY <1>1 DEF RevokeInv, InForce, identityVars
<1>2. ASSUME NEW h \in Host,
             \/ \E t \in Ticket : EnrollAdmit(h, t)
             \/ RenewCert(h) \/ Heartbeat(h) \/ Deliver(h) \/ WriteCert(h) \/ WriteKey(h)
             \/ Connect(h) \/ HostCrash(h) \/ SignRefused(h)
      PROVE  RevokeInv'
  <2>1. UNCHANGED <<registry, regfile, barred, crossed>>
    BY <1>2 DEF EnrollAdmit, RenewCert, Heartbeat, Call, Deliver, WriteCert, WriteKey,
                Connect, HostCrash, SignRefused
  <2> QED BY <2>1 DEF RevokeInv, InForce
<1>3. ASSUME NEW h \in Host, EnrollConsume(h) PROVE RevokeInv'
  <2> DEFINE new == [registry EXCEPT !.used = @ \cup rpc[h].ticket]
  <2>1. InForce(new) = InForce(registry)
    BY <1>t, StoreFacts DEF InForce
  <2>2. registry' \in {registry, new} /\ regfile' \in {regfile, registry'}
        /\ barred' = barred /\ crossed' = crossed
    BY <1>3 DEF EnrollConsume
  <2> HIDE DEF new
  <2> QED BY <2>1, <2>2, RevokeFrameStep DEF RevokeFrame
<1>4. ASSUME NEW h \in Host, EnrollRegister(h) PROVE RevokeInv'
  BY <1>4, <1>t DEF EnrollRegister, RevokeInv, Revoking
<1>5. ASSUME NEW h \in Host, EnrollSave(h) \/ SupersedeSave(h) \/ SeenSave(h)
      PROVE  RevokeInv'
  BY <1>5, <1>s, RevokeFrameStep DEF EnrollSave, SupersedeSave, SeenSave, RevokeFrame
<1>6. ASSUME NEW h \in Host, Supersede(h) PROVE RevokeInv'
  <2> DEFINE new == [registry EXCEPT !.crl = @ \cup {rpc[h].prior}]
  <2>1. InForce(registry) => InForce(new)
    BY <1>t, StoreFacts DEF InForce
  <2>2. registry' \in {registry, new} /\ regfile' \in {regfile, registry'}
        /\ barred' = barred /\ crossed' = crossed
    BY <1>6 DEF Supersede
  <2> HIDE DEF new
  <2> QED BY <2>1, <2>2, RevokeFrameStep DEF RevokeFrame
<1>7. ASSUME NEW h \in Host, RenewUpdate(h) \/ Seen(h) PROVE RevokeInv'
  BY <1>7, <1>t DEF RenewUpdate, Seen, Crossing, RevokeInv
<1>8. CASE RevokeNode
  <2>1. InForce(registry') /\ barred' = "pending"
    BY <1>8, <1>t, StoreFacts DEF RevokeNode, InForce
  <2> QED BY <2>1 DEF RevokeInv
<1>9. CASE RevokeSave
  BY <1>9 DEF RevokeSave, RevokeInv, Revoking, InForce
<1>10. CASE ExpireCert
  BY <1>10 DEF ExpireCert, RevokeInv, InForce
<1>11. CASE CPCrash
  BY <1>11 DEF CPCrash, RevokeInv, Revoking, InForce
<1> QED BY <1>1, <1>2, <1>3, <1>4, <1>5, <1>6, <1>7, <1>8, <1>9, <1>10, <1>11
        DEF IdentityNext

\* An acknowledged revocation (RevokeNode) stays in force, in memory and on
\* disk, until a token lets the node in again or a call verified before it is
\* served after it.
THEOREM RevocationKept == IdentitySpec => []RevocationHolds
<1>1. IdentityInit => RevokeInv
  BY DEF IdentityInit, RevokeInv
<1>2. RevokeInv => RevocationHolds
  BY DEF RevokeInv, RevocationHolds, InForce
<1> QED BY <1>1, <1>2, RevokeStep, IdentityTypeCorrect, PTL DEF IdentitySpec

-----------------------------------------------------------------------------
(* The registered certificate is held.                                     *)

\* The steps of a call that has a certificate to hand over.
Holding == {"registered", "supersede", "superseded", "reply", "install", "pair"}

\* A host holds a certificate with its key, or is in the call that brings it.
HeldBy(h, s) == rpc[h].serial = s \/ (machine[h].crt = s /\ machine[h].key = s)

\* A call carries a serial exactly while it has a certificate to hand over, and
\* that one is newer than the host's key; only the certificate's file is ahead
\* of the key's, between the two writes.
HostInv(h) ==
  /\ rpc[h].serial # 0 <=> rpc[h].at \in Holding
  /\ machine[h].crt <= signed /\ machine[h].key <= signed /\ rpc[h].serial <= signed
  /\ rpc[h].serial # 0 => machine[h].key < rpc[h].serial
  /\ rpc[h].at = "pair" => machine[h].crt = rpc[h].serial

\* Unless a certificate may have missed its host, the last one signed is the
\* registered one, on disk too but for the call that is about to save it, and
\* some host holds it.
LastInv ==
  /\ registry.serial = signed
  /\ regfile.serial = signed \/ \E h \in Host : rpc[h].at = "registered"
  /\ signed # 0 => \E h \in Host : HeldBy(h, signed)

SerialInv == (\A h \in Host : HostInv(h)) /\ (~cutoff => LastInv)

\* The host the step is about, if its certificate counted, still counts.
LEMMA HeldKept ==
  ASSUME NEW h \in Host, OthersKeep(h), \A g \in Host \ {h} : machine'[g] = machine[g],
         signed' = signed, HeldBy(h, signed) => HeldBy(h, signed)',
         \E g \in Host : HeldBy(g, signed)
  PROVE  \E g \in Host : HeldBy(g, signed)'
<1>1. PICK g \in Host : HeldBy(g, signed)
  OBVIOUS
<1>2. CASE g = h
  BY <1>1, <1>2
<1>3. CASE g # h
  <2>1. HeldBy(g, signed)'
    BY <1>1, <1>3 DEF OthersKeep, HeldBy
  <2> QED BY <2>1
<1> QED BY <1>2, <1>3

\* A step of one host that signs nothing: it suffices to look at that host, and
\* at the stores if it cut nothing off.
LEMMA SerialCall ==
  ASSUME IdentityTypeOK, SerialInv, NEW h \in Host, OthersKeep(h),
         \A g \in Host \ {h} : machine'[g] = machine[g], signed' = signed, HostInv(h)',
         \/ cutoff'
         \/ /\ ~cutoff /\ registry'.serial = registry.serial
            /\ \/ regfile'.serial = registry.serial
               \/ regfile'.serial = regfile.serial /\ rpc[h].at # "registered"
            /\ HeldBy(h, signed) => HeldBy(h, signed)'
  PROVE  SerialInv'
<1>1. \A g \in Host : HostInv(g)'
  <2> SUFFICES ASSUME NEW g \in Host, g # h PROVE HostInv(g)'
    OBVIOUS
  <2>1. HostInv(g) /\ rpc'[g] = rpc[g] /\ machine'[g] = machine[g]
    BY DEF SerialInv, OthersKeep
  <2> QED BY <2>1 DEF HostInv
<1>2. ASSUME ~cutoff' PROVE LastInv'
  <2>1. LastInv
    BY <1>2 DEF SerialInv
  <2>2. registry'.serial = signed'
    BY <1>2, <2>1 DEF LastInv
  <2>3. signed' # 0 => \E g \in Host : HeldBy(g, signed)'
    BY <1>2, <2>1, HeldKept DEF LastInv
  <2>4. regfile'.serial = signed' \/ \E g \in Host : rpc'[g].at = "registered"
    BY <1>2, <2>1 DEF LastInv, OthersKeep
  <2> QED BY <2>2, <2>3, <2>4 DEF LastInv
<1> QED BY <1>1, <1>2 DEF SerialInv

\* A call that signs a certificate takes the next serial for itself.
LEMMA SerialIssue ==
  ASSUME IdentityTypeOK, SerialInv, NEW h \in Host, OthersKeep(h), machine' = machine,
         signed' = signed + 1, rpc'[h].serial = signed', rpc'[h].at \in Holding \ {"pair"},
         registry'.serial = signed',
         cutoff' \/ (~cutoff /\ (regfile'.serial = signed' \/ rpc'[h].at = "registered"))
  PROVE  SerialInv'
<1>t. signed \in Nat /\ machine[h].key \in Int
  BY IdentityAssumption DEF IdentityTypeOK, Serial
<1>1. ASSUME NEW g \in Host PROVE HostInv(g)'
  <2>1. HostInv(g) /\ rpc[g].serial \in Int /\ machine[g].crt \in Int /\ machine[g].key \in Int
    BY IdentityAssumption DEF SerialInv, IdentityTypeOK, Serial, Rpc
  <2>2. CASE g = h
    BY <1>t, <2>1, <2>2 DEF HostInv
  <2>3. CASE g # h
    <3>1. rpc'[g] = rpc[g] /\ machine'[g] = machine[g]
      BY <2>3 DEF OthersKeep
    <3> QED BY <1>t, <2>1, <3>1 DEF HostInv
  <2> QED BY <2>2, <2>3
<1>2. HeldBy(h, signed)'
  BY DEF HeldBy
<1>3. ~cutoff' => LastInv'
  BY <1>2 DEF LastInv
<1> QED BY <1>1, <1>3 DEF SerialInv

\* Every action keeps the account of the certificates.
LEMMA SerialStep ==
  IdentityTypeOK /\ SerialInv /\ [IdentityNext]_identityVars => SerialInv'
<1> SUFFICES ASSUME IdentityTypeOK, SerialInv, [IdentityNext]_identityVars PROVE SerialInv'
  OBVIOUS
<1>t. /\ registry \in Registry /\ regfile \in Registry /\ cutoff \in BOOLEAN
      /\ machine \in [Host -> [crt : Serial, key : Serial, wire : Serial]]
      /\ signed \in Nat
      /\ \A h \in Host : rpc[h].serial \in Nat /\ machine[h].crt \in Nat /\ machine[h].key \in Nat
  BY IdentityAssumption DEF IdentityTypeOK, Serial, Rpc
<1>h. \A h \in Host : HostInv(h)
  BY DEF SerialInv
<1>n. NoCall.at = "none" /\ NoCall.serial = 0
  BY DEF NoCall
<1>s. \A new : SaveStore(new) => \/ cutoff' = TRUE
                                 \/ regfile' = new /\ cutoff' = cutoff
  BY DEF SaveStore
<1>1. CASE UNCHANGED identityVars
  BY <1>1 DEF SerialInv, HostInv, LastInv, HeldBy, identityVars
<1>2. ASSUME NEW h \in Host, NEW t \in Ticket, EnrollAdmit(h, t) PROVE SerialInv'
  <2>1. OthersKeep(h) /\ rpc'[h].at = "admitted" /\ rpc'[h].serial = 0
    BY <1>2 DEF EnrollAdmit, OthersKeep, IdentityTypeOK
  <2>2. UNCHANGED <<registry, regfile, machine, signed, cutoff>> /\ rpc[h] = NoCall
    BY <1>2 DEF EnrollAdmit
  <2>3. HostInv(h)'
    BY <1>h, <1>t, <2>1, <2>2 DEF HostInv, Holding
  <2>4. HeldBy(h, signed) => HeldBy(h, signed)'
    BY <1>n, <2>1, <2>2 DEF HeldBy
  <2>5. cutoff' \/ ~cutoff
    BY <1>t, <2>2
  <2> QED BY <1>t, <1>n, <2>1, <2>2, <2>3, <2>4, <2>5, SerialCall
<1>3. ASSUME NEW h \in Host, EnrollConsume(h) PROVE SerialInv'
  <2> DEFINE new == [registry EXCEPT !.used = @ \cup rpc[h].ticket]
  <2>1. new.serial = registry.serial
    BY <1>t, StoreFacts
  <2>2. /\ UNCHANGED <<machine, signed, cutoff>> /\ rpc[h].at = "admitted"
        /\ registry' \in {registry, new} /\ regfile' \in {regfile, new}
    BY <1>3 DEF EnrollConsume
  <2>3. Answer(h) \/ Proceed(h, "consumed")
    BY <1>3 DEF EnrollConsume
  <2> HIDE DEF new
  <2>4. rpc[h].serial = 0
    BY <1>h, <2>2 DEF HostInv, Holding
  <2>5. OthersKeep(h) /\ rpc'[h].at \in {"none", "consumed"} /\ rpc'[h].serial = 0
    BY <1>n, <2>3, <2>4, CallFacts
  <2>6. HostInv(h)'
    BY <1>h, <2>2, <2>5 DEF HostInv, Holding
  <2>7. HeldBy(h, signed) => HeldBy(h, signed)'
    BY <2>2, <2>4, <2>5 DEF HeldBy
  <2>8. /\ registry'.serial = registry.serial
        /\ regfile'.serial = registry.serial \/ regfile'.serial = regfile.serial
    BY <2>1, <2>2
  <2>9. machine' = machine /\ signed' = signed /\ cutoff' = cutoff /\ rpc[h].at # "registered"
    BY <2>2
  <2> QED BY <1>t, <2>5, <2>6, <2>7, <2>8, <2>9, SerialCall
<1>4. ASSUME NEW h \in Host, EnrollRegister(h) PROVE SerialInv'
  <2>1. /\ signed' = signed + 1 /\ registry'.serial = signed' /\ machine' = machine
        /\ cutoff' = cutoff
    BY <1>4, <1>t, StoreFacts DEF EnrollRegister
  <2>2. OthersKeep(h) /\ rpc'[h].at = "registered" /\ rpc'[h].serial = signed'
    <3>1. rpc' = [rpc EXCEPT ![h].at = "registered", ![h].serial = signed']
      BY <1>4 DEF EnrollRegister
    <3>2. rpc \in [Host -> Rpc]
      BY DEF IdentityTypeOK
    <3> QED BY <3>1, <3>2 DEF OthersKeep, Rpc
  <2> QED BY <1>t, <2>1, <2>2, SerialIssue DEF Holding
<1>5. ASSUME NEW h \in Host, EnrollSave(h) PROVE SerialInv'
  <2>1. /\ UNCHANGED <<registry, machine, signed>> /\ rpc[h].at = "registered"
        /\ cutoff' = TRUE \/ (regfile' = registry /\ cutoff' = cutoff)
    BY <1>5, <1>s DEF EnrollSave
  <2>2. OthersKeep(h) /\ rpc'[h].at \in {"reply", "supersede"} /\ rpc'[h].serial = rpc[h].serial
    BY <1>5, CallFacts DEF EnrollSave
  <2>3. HostInv(h)'
    BY <1>h, <2>1, <2>2 DEF HostInv, Holding
  <2>4. HeldBy(h, signed) => HeldBy(h, signed)'
    BY <2>1, <2>2 DEF HeldBy
  <2> QED BY <1>t, <2>1, <2>2, <2>3, <2>4, SerialCall
<1>6. ASSUME NEW h \in Host, Supersede(h) PROVE SerialInv'
  <2> DEFINE new == [registry EXCEPT !.crl = @ \cup {rpc[h].prior}]
  <2>1. new.serial = registry.serial
    BY <1>t, StoreFacts
  <2>2. /\ UNCHANGED <<machine, signed, regfile, cutoff>> /\ rpc[h].at = "supersede"
        /\ registry' \in {registry, new}
    BY <1>6 DEF Supersede
  <2>3. /\ OthersKeep(h) /\ rpc'[h].at \in {"reply", "superseded"}
        /\ rpc'[h].serial = rpc[h].serial
    BY <1>6, CallFacts DEF Supersede
  <2> HIDE DEF new
  <2>4. HostInv(h)'
    BY <1>h, <2>2, <2>3 DEF HostInv, Holding
  <2>5. HeldBy(h, signed) => HeldBy(h, signed)'
    BY <2>2, <2>3 DEF HeldBy
  <2> QED BY <1>t, <2>1, <2>2, <2>3, <2>4, <2>5, SerialCall
<1>7. ASSUME NEW h \in Host, RenewCert(h) \/ Heartbeat(h) PROVE SerialInv'
  <2>1. /\ UNCHANGED <<registry, regfile, machine, signed, cutoff>> /\ rpc[h] = NoCall
        /\ OthersKeep(h) /\ rpc'[h].at \in {"verified", "seen"} /\ rpc'[h].serial = 0
    BY <1>7, CallFacts DEF RenewCert, Heartbeat, Call
  <2>2. HostInv(h)'
    BY <1>h, <1>t, <2>1 DEF HostInv, Holding
  <2>3. HeldBy(h, signed) => HeldBy(h, signed)'
    BY <1>n, <2>1 DEF HeldBy
  <2>4. rpc[h].at # "registered" /\ machine' = machine /\ signed' = signed /\ cutoff' = cutoff
    BY <1>n, <2>1
  <2> QED BY <1>t, <2>1, <2>2, <2>3, <2>4, SerialCall
<1>8. ASSUME NEW h \in Host, RenewUpdate(h) PROVE SerialInv'
  <2>1. /\ signed' = signed + 1 /\ registry'.serial = signed' /\ machine' = machine
        /\ cutoff' = TRUE \/ (regfile' = registry' /\ cutoff' = cutoff)
    BY <1>8, <1>t, <1>s, StoreFacts DEF RenewUpdate
  <2>2. OthersKeep(h) /\ rpc'[h].at = "reply" /\ rpc'[h].serial = signed'
    <3>1. rpc' = [rpc EXCEPT ![h].at = "reply", ![h].serial = signed']
      BY <1>8 DEF RenewUpdate
    <3>2. rpc \in [Host -> Rpc]
      BY DEF IdentityTypeOK
    <3> QED BY <3>1, <3>2 DEF OthersKeep, Rpc
  <2> QED BY <1>t, <2>1, <2>2, SerialIssue DEF Holding
<1>9. ASSUME NEW h \in Host, Seen(h) PROVE SerialInv'
  <2>1. /\ UNCHANGED <<machine, signed, cutoff>> /\ rpc[h].at = "seen"
        /\ registry'.serial = registry.serial /\ regfile' = regfile
    BY <1>9, <1>t, StoreFacts DEF Seen
  <2>3. rpc[h].serial = 0
    BY <1>h, <2>1 DEF HostInv, Holding
  <2>2. OthersKeep(h) /\ rpc'[h].at \in {"none", "periodic"} /\ rpc'[h].serial = 0
    BY <1>9, <1>n, <2>3, CallFacts DEF Seen
  <2>4. HostInv(h)'
    BY <1>h, <2>1, <2>2 DEF HostInv, Holding
  <2>5. HeldBy(h, signed) => HeldBy(h, signed)'
    BY <2>1, <2>2, <2>3 DEF HeldBy
  <2>6. rpc[h].at # "registered" /\ machine' = machine /\ signed' = signed /\ cutoff' = cutoff
    BY <2>1
  <2> QED BY <1>t, <2>1, <2>2, <2>4, <2>5, <2>6, SerialCall
<1>10. ASSUME NEW h \in Host, Deliver(h) PROVE SerialInv'
  <2>1. UNCHANGED <<registry, regfile, machine, signed>> /\ rpc[h].at = "reply"
    BY <1>10 DEF Deliver
  <2>2. CASE Proceed(h, "install") /\ cutoff' = cutoff
    <3>1. OthersKeep(h) /\ rpc'[h].at = "install" /\ rpc'[h].serial = rpc[h].serial
      BY <2>2, CallFacts
    <3>2. HostInv(h)'
      BY <1>h, <2>1, <3>1 DEF HostInv, Holding
    <3>3. HeldBy(h, signed) => HeldBy(h, signed)'
      BY <2>1, <3>1 DEF HeldBy
    <3> QED BY <1>t, <2>1, <2>2, <3>1, <3>2, <3>3, SerialCall
  <2>3. CASE Answer(h) /\ cutoff' = TRUE
    <3>1. OthersKeep(h) /\ rpc'[h].at = "none" /\ rpc'[h].serial = 0
      BY <1>n, <2>3, CallFacts
    <3>2. HostInv(h)'
      BY <1>h, <1>t, <2>1, <3>1 DEF HostInv, Holding
    <3> QED BY <1>t, <2>1, <2>3, <3>1, <3>2, SerialCall
  <2> QED BY <1>10, <2>2, <2>3 DEF Deliver
<1>f. ASSUME NEW h \in Host, rpc[h].at \in {"install", "pair"}, InstallFails(h),
             UNCHANGED <<registry, regfile, signed>>
      PROVE  SerialInv'
  <2>1. OthersKeep(h) /\ rpc'[h].at = "none" /\ rpc'[h].serial = 0 /\ machine' = machine
    BY <1>f, <1>n, CallFacts DEF InstallFails
  <2>2. HostInv(h)'
    BY <1>f, <1>h, <1>t, <2>1 DEF HostInv, Holding
  <2>3. cutoff'
    BY <1>f DEF InstallFails
  <2> QED BY <1>f, <1>t, <2>1, <2>2, <2>3, SerialCall
<1>11. ASSUME NEW h \in Host, WriteCert(h) PROVE SerialInv'
  <2>1. UNCHANGED <<registry, regfile, signed>> /\ rpc[h].at = "install"
    BY <1>11 DEF WriteCert
  <2>2. CASE InstallFails(h)
    BY <1>f, <2>1, <2>2
  <2>3. CASE /\ Proceed(h, "pair") /\ UNCHANGED <<cutoff, mercy>>
             /\ machine' = [machine EXCEPT ![h].crt = rpc[h].serial]
    <3>1. OthersKeep(h) /\ rpc'[h].at = "pair" /\ rpc'[h].serial = rpc[h].serial
      BY <2>3, CallFacts
    <3>2. /\ \A g \in Host \ {h} : machine'[g] = machine[g]
          /\ machine'[h].crt = rpc[h].serial /\ machine'[h].key = machine[h].key
      BY <2>3, <1>t
    <3>3. HostInv(h)'
      BY <1>h, <1>t, <2>1, <3>1, <3>2 DEF HostInv, Holding
    <3>4. HeldBy(h, signed) => HeldBy(h, signed)'
      BY <1>h, <1>t, <2>1, <3>1, <3>2 DEF HeldBy, HostInv, Holding
    <3> QED BY <1>t, <2>1, <2>3, <3>1, <3>2, <3>3, <3>4, SerialCall
  <2> QED BY <1>11, <2>2, <2>3 DEF WriteCert
<1>12. ASSUME NEW h \in Host, WriteKey(h) PROVE SerialInv'
  <2>1. UNCHANGED <<registry, regfile, signed>> /\ rpc[h].at = "pair"
    BY <1>12 DEF WriteKey
  <2>2. CASE InstallFails(h)
    BY <1>f, <2>1, <2>2
  <2>3. ASSUME NEW w, Answer(h), UNCHANGED cutoff,
               machine' = [machine EXCEPT ![h].key = rpc[h].serial, ![h].wire = w]
        PROVE  SerialInv'
    <3>1. OthersKeep(h) /\ rpc'[h].at = "none" /\ rpc'[h].serial = 0
      BY <2>3, <1>n, CallFacts
    <3>2. /\ \A g \in Host \ {h} : machine'[g] = machine[g]
          /\ machine'[h].crt = machine[h].crt /\ machine'[h].key = rpc[h].serial
      BY <2>3, <1>t
    <3>3. HostInv(h)'
      BY <1>h, <1>t, <2>1, <3>1, <3>2 DEF HostInv, Holding
    <3>4. HeldBy(h, signed) => HeldBy(h, signed)'
      BY <1>h, <1>t, <2>1, <3>1, <3>2 DEF HeldBy, HostInv, Holding
    <3> QED BY <1>t, <2>1, <2>3, <3>1, <3>2, <3>3, <3>4, SerialCall
  <2> QED BY <1>12, <2>2, <2>3 DEF WriteKey
<1>13. ASSUME NEW h \in Host, Connect(h) PROVE SerialInv'
  <2>1. \A g \in Host : machine'[g].crt = machine[g].crt /\ machine'[g].key = machine[g].key
    BY <1>13, <1>t DEF Connect
  <2> QED BY <1>13, <2>1 DEF Connect, SerialInv, HostInv, LastInv, HeldBy
<1>14. ASSUME NEW h \in Host, HostCrash(h) PROVE SerialInv'
  <2>1. /\ UNCHANGED <<registry, regfile, signed>>
        /\ OthersKeep(h) /\ rpc'[h].at = "none" /\ rpc'[h].serial = 0
        /\ cutoff' = (cutoff \/ rpc[h].at # "none")
    BY <1>14, <1>n, CallFacts DEF HostCrash
  <2>2. \A g \in Host : /\ g # h => machine'[g] = machine[g]
                        /\ machine'[g].crt = machine[g].crt /\ machine'[g].key = machine[g].key
    BY <1>14, <1>t DEF HostCrash
  <2>3. HostInv(h)'
    BY <1>h, <1>t, <2>1, <2>2 DEF HostInv, Holding
  <2>4. cutoff' \/ (rpc[h].serial = 0 /\ rpc[h].at = "none" /\ ~cutoff)
    BY <1>h, <2>1 DEF HostInv, Holding
  <2>5. ~cutoff' => (HeldBy(h, signed) => HeldBy(h, signed)')
    BY <2>1, <2>2, <2>4 DEF HeldBy
  <2> QED BY <1>t, <2>1, <2>2, <2>3, <2>4, <2>5, SerialCall
<1>15. CASE RevokeNode
  <2>1. registry'.serial = registry.serial
    BY <1>15, <1>t, StoreFacts DEF RevokeNode
  <2> QED BY <1>15, <2>1 DEF RevokeNode, SerialInv, HostInv, LastInv, HeldBy
<1>16. CASE RevokeSave \/ ExpireCert
  BY <1>16 DEF RevokeSave, ExpireCert, SerialInv, HostInv, LastInv, HeldBy
<1>17. CASE CPCrash
  <2>1. /\ registry' = regfile /\ UNCHANGED <<regfile, machine, signed>>
        /\ \A h \in Host : rpc'[h] = IF rpc[h].at \in CPSteps THEN NoCall ELSE rpc[h]
        /\ cutoff' = (cutoff \/ \E h \in Host : rpc[h].at \in CPSteps /\ rpc[h].serial # 0)
    BY <1>17 DEF CPCrash
  <2>2. ASSUME NEW h \in Host PROVE HostInv(h)'
    <3>1. CASE rpc[h].at \in CPSteps
      BY <1>h, <1>t, <1>n, <2>1, <3>1 DEF HostInv, Holding
    <3>2. CASE rpc[h].at \notin CPSteps
      BY <1>h, <2>1, <3>2 DEF HostInv
    <3> QED BY <3>1, <3>2
  <2>3. ASSUME ~cutoff' PROVE LastInv'
    <3>1. LastInv /\ \A h \in Host : rpc[h].at \in CPSteps => rpc[h].serial = 0
      BY <2>1, <2>3 DEF SerialInv
    <3>2. \A h \in Host : rpc[h].at # "registered"
      BY <1>h, <3>1 DEF HostInv, Holding, CPSteps
    <3>3. \A h \in Host : rpc'[h].serial = rpc[h].serial
      BY <1>n, <2>1, <3>1
    <3> QED BY <2>1, <3>1, <3>2, <3>3 DEF LastInv, HeldBy
  <2> QED BY <2>2, <2>3 DEF SerialInv
<1>18. ASSUME NEW h \in Host, SupersedeSave(h) PROVE SerialInv'
  <2>1. /\ UNCHANGED <<registry, machine, signed>> /\ rpc[h].at = "superseded"
        /\ cutoff' = TRUE \/ (regfile' = registry /\ cutoff' = cutoff)
    BY <1>18, <1>s DEF SupersedeSave
  <2>2. OthersKeep(h) /\ rpc'[h].at = "reply" /\ rpc'[h].serial = rpc[h].serial
    BY <1>18, CallFacts DEF SupersedeSave
  <2>3. HostInv(h)'
    BY <1>h, <2>1, <2>2 DEF HostInv, Holding
  <2>4. HeldBy(h, signed) => HeldBy(h, signed)'
    BY <2>1, <2>2 DEF HeldBy
  <2> QED BY <1>t, <2>1, <2>2, <2>3, <2>4, SerialCall
<1>19. ASSUME NEW h \in Host, SignRefused(h) \/ SeenSave(h) PROVE SerialInv'
  <2>1. /\ UNCHANGED <<registry, machine, signed, cutoff>> /\ regfile' \in {regfile, registry}
        /\ rpc[h].at \in {"consumed", "verified", "periodic"}
    BY <1>19 DEF SignRefused, SeenSave
  <2>2. OthersKeep(h) /\ rpc'[h].at = "none" /\ rpc'[h].serial = 0
    BY <1>19, <1>n, CallFacts DEF SignRefused, SeenSave
  <2>3. rpc[h].serial = 0
    BY <1>h, <2>1 DEF HostInv, Holding
  <2>4. HostInv(h)'
    BY <1>h, <2>1, <2>2 DEF HostInv, Holding
  <2>5. HeldBy(h, signed) => HeldBy(h, signed)'
    BY <2>1, <2>2, <2>3 DEF HeldBy
  <2>6. rpc[h].at # "registered" /\ machine' = machine /\ signed' = signed /\ cutoff' = cutoff
    BY <2>1
  <2> QED BY <1>t, <2>1, <2>2, <2>4, <2>5, <2>6, SerialCall
<1> QED BY <1>1, <1>2, <1>3, <1>4, <1>5, <1>6, <1>7, <1>8, <1>9, <1>10, <1>11, <1>12,
           <1>13, <1>14, <1>15, <1>16, <1>17, <1>18, <1>19 DEF IdentityNext

\* Unless a reply was lost, a save failed or a crash cut a call short, the
\* registered certificate and its key are on a host whenever no call is under
\* way, across renewals, competing enrollments and restarts (RegisterNode,
\* RenewCert, and the node's two file writes).
THEOREM RegisteredStaysHeld == IdentitySpec => []RegisteredIsHeld
<1>1. IdentityInit => SerialInv
  BY DEF IdentityInit, SerialInv, HostInv, LastInv, Holding, NoCall
<1>2. IdentityTypeOK /\ SerialInv => RegisteredIsHeld
  <2> SUFFICES ASSUME SerialInv, ~cutoff, registry.serial # 0, \A h \in Host : rpc[h] = NoCall
               PROVE  \E h \in Host : machine[h].crt = registry.serial
                                      /\ machine[h].key = registry.serial
    BY DEF RegisteredIsHeld
  <2>1. PICK h \in Host : HeldBy(h, registry.serial)
    BY DEF SerialInv, LastInv
  <2>2. rpc[h].serial = 0
    BY DEF NoCall
  <2> QED BY <2>1, <2>2 DEF HeldBy
<1> QED BY <1>1, <1>2, SerialStep, IdentityTypeCorrect, PTL DEF IdentitySpec

-----------------------------------------------------------------------------
(* The parts together.                                                     *)

\* A step of the services is a step of each part or leaves its variables alone.
LEMMA ServicesStep ==
  [ServicesNext]_servicesVars =>
    /\ [LoopsNext]_loopVars /\ [ConnNext]_connVars /\ [FeedNext]_feedVars
    /\ [PolicyNext]_policyVars /\ [IdentityNext]_identityVars
<1> SUFFICES ASSUME [ServicesNext]_servicesVars
             PROVE  /\ [LoopsNext]_loopVars /\ [ConnNext]_connVars /\ [FeedNext]_feedVars
                    /\ [PolicyNext]_policyVars /\ [IdentityNext]_identityVars
  OBVIOUS
<1>1. CASE ServicesNext
  BY <1>1, Zenon DEF ServicesNext
<1>2. CASE UNCHANGED servicesVars
  BY <1>2, Zenon DEF servicesVars
<1> QED
  BY <1>1, <1>2

\* Every reachable state of the loops, the limiter, the feed, the policy store
\* and the node registry is well typed, whichever of them a behaviour drives.
THEOREM ServicesTypeCorrect == ServicesSpec => []ServicesTypeOK
<1>1. ServicesInit => LoopInv /\ ConnInv /\ FeedInv /\ PolicyInv /\ IdentityTypeOK
  BY LoopsInitInv, ConnInitInv, FeedInitInv, PolicyInitInv, IdentityTypeInit DEF ServicesInit
<1>2. LoopInv /\ ConnInv /\ FeedInv /\ PolicyInv /\ IdentityTypeOK => ServicesTypeOK
  BY LoopInvTypes, ConnInvTypes DEF FeedInv, PolicyInv, ServicesTypeOK
<1> QED
  BY <1>1, <1>2, ServicesStep, LoopsNextInv, ConnNextInv, FeedNextInv, PolicyNextInv,
     IdentityTypeStep, PTL DEF ServicesSpec
=============================================================================
