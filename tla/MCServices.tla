----------------------------- MODULE MCServices -----------------------------
(***************************************************************************)
(* Parts of a node that share no state, checked in one run: a behaviour    *)
(* picks one of them and leaves the variables of the others at an initial  *)
(* value, so that the state spaces add up.                                 *)
(***************************************************************************)
EXTENDS HALoops, ConnLimit, SaaSFeed, PolicyDraft, NodeIdentity

VARIABLE part
servicesVars == <<part, loopVars, connVars, feedVars, policyVars, identityVars>>

\* Crashes with an override edit, a churn of overrides that outlasts the
\* attempts of an activation, and one fault of each kind.
MCFeedScenarios ==
  {[crashes |-> 2, faults |-> 0, damage |-> 0, edits |-> 1],
   [crashes |-> 0, faults |-> 0, damage |-> 0, edits |-> 3],
   [crashes |-> 1, faults |-> 1, damage |-> 1, edits |-> 1]}

\* A rollback beside a crash, beside a failing write, and the two without it.
MCPolicyScenarios ==
  {[rollbacks |-> 1, crashes |-> 1, faults |-> 0],
   [rollbacks |-> 1, crashes |-> 0, faults |-> 1],
   [rollbacks |-> 0, crashes |-> 1, faults |-> 1]}

\* A crash, a failing save, or a lost reply.
MCIdentityScenarios ==
  {[crashes |-> 1, faults |-> 0, losses |-> 0],
   [crashes |-> 0, faults |-> 1, losses |-> 0],
   [crashes |-> 0, faults |-> 0, losses |-> 1]}

One(S) == CHOOSE x \in S : TRUE

ServicesInit ==
  /\ part \in {"loops", "conn", "feed", "policy", "identity"}
  /\ LoopsInit /\ ConnInit /\ FeedInit /\ PolicyInit /\ IdentityInit
  /\ part # "loops" => ch["sync"] = 1
  /\ part # "conn" => limiter.cap = One(Caps)
  /\ part # "feed" => spare = One(FeedScenarios)
  /\ run.c = One(Rules)
  /\ part # "policy" => chances = One(PolicyScenarios)
  /\ part # "identity" => mercy = One(IdentityScenarios)

ServicesNext ==
  \/ /\ part = "loops" /\ LoopsNext
     /\ UNCHANGED <<part, connVars, feedVars, policyVars, identityVars>>
  \/ /\ part = "conn" /\ ConnNext
     /\ UNCHANGED <<part, loopVars, feedVars, policyVars, identityVars>>
  \/ /\ part = "feed" /\ FeedNext
     /\ UNCHANGED <<part, loopVars, connVars, policyVars, identityVars>>
  \/ /\ part = "policy" /\ PolicyNext
     /\ UNCHANGED <<part, loopVars, connVars, feedVars, identityVars>>
  \/ /\ part = "identity" /\ IdentityNext
     /\ UNCHANGED <<part, loopVars, connVars, feedVars, policyVars>>

\* The fairness of each module, asked of the behaviours of its part only.
ServicesFairness ==
  /\ \A t \in Thread : WF_loopVars(part = "loops" /\ ThreadStep(t))
  /\ WF_loopVars(part = "loops" /\ stop # "no" /\ Stop)
  /\ WF_feedVars(part = "feed" /\ JobStep)
  /\ SF_feedVars(part = "feed" /\ pub > 0 /\ Fetch(pub, TRUE))

ServicesSpec == ServicesInit /\ [][ServicesNext]_servicesVars /\ ServicesFairness

\* The variables of every part have their types.
ServicesTypeOK == LoopsTypeOK /\ ConnTypeOK /\ FeedTypeOK /\ PolicyTypeOK /\ IdentityTypeOK
=============================================================================
