---------------------------- MODULE MCDashboard ----------------------------
(* Values of the constants of Wizard for TLC, and three ways of spending the   *)
(* bounds: a behaviour takes every step of the sessions and of the guard, or,  *)
(* with one session, which may end, every step of the pages but for the        *)
(* review's, or the review's beside one callback of the others at a time. The  *)
(* review only draws: nothing but its own steps reads it.                      *)
EXTENDS Wizard

VARIABLE focus

mcVars == <<vars, focus>>

OneSession(c) ==
  /\ SignIn(c) \/ ((LoginIssue(c) \/ LoginProfile(c)) /\ UNCHANGED wizardVars)
  /\ Cardinality({d \in Callers : call'[d] # Idle}) <= 1
  /\ page' = "/login" /\ tab = SignedOut /\ (sessions # <<>> => call[c] # Idle)

OnePost == Cardinality({i \in Posts : post'[i] # NoPost}) <= 1

MCInit == Init /\ focus \in {"sessions", "pages", "review"}
MCNext ==
  /\ UNCHANGED focus
  /\ \/ focus = "sessions" /\ ApiAuthNext /\ UNCHANGED wizardVars
     \/ focus = "sessions" /\ \E c \in Callers : SignIn(c)
     \/ focus = "sessions" /\ Guard /\ UNCHANGED authVars
     \/ focus = "pages" /\ StoreNext /\ UNCHANGED authVars
     \/ focus = "review" /\ PageNext /\ OnePost /\ UNCHANGED authVars
     \/ focus # "sessions" /\ \E c \in Callers : OneSession(c)
     \/ page # "/login" /\ SignOut /\ UNCHANGED wizardVars
MCSpec == MCInit /\ [][MCNext]_mcVars
          /\ WF_mcVars(Guard /\ UNCHANGED <<authVars, focus>>)
          /\ WF_mcVars(AskReview /\ UNCHANGED <<authVars, focus>>)
          /\ WF_mcVars((ShowReview \/ ReviewFails) /\ UNCHANGED <<authVars, focus>>)
=============================================================================
