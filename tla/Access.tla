------------------------------- MODULE Access --------------------------------
(***************************************************************************)
(* What stands between the server and its clients: the rate limiter, the   *)
(* shop's sessions, the back office's, and the lists.  They share the      *)
(* clock and nothing else, so a behaviour shows one of them: which one is  *)
(* chosen at the start and stays.                                          *)
(***************************************************************************)
EXTENDS RateLimiter, Sessions, AdminAccess, Browsing

VARIABLE door     \* the one of the four this behaviour is about

accessVars == <<now, limiterVars, sessionVars, adminVars, browsingVars, door>>

AccessInit ==
  /\ ClockInit /\ LimiterInit /\ SessionsInit /\ AdminInit
  /\ door \in {"limiter", "shop", "office", "window"}
  /\ IF door = "window" THEN BrowsingInit ELSE NobodyReads

AccessNext ==
  /\ \/ door = "limiter" /\ LimiterNext /\ UNCHANGED <<sessionVars, adminVars, browsingVars>>
     \/ door = "shop" /\ SessionsNext /\ UNCHANGED <<limiterVars, adminVars, browsingVars>>
     \/ door = "office" /\ AdminNext /\ UNCHANGED <<limiterVars, sessionVars, browsingVars>>
     \/ /\ door = "window" /\ BrowsingNext
        /\ UNCHANGED <<now, limiterVars, sessionVars, adminVars>>
     \/ /\ door # "window" /\ Tick
        /\ UNCHANGED <<limiterVars, sessionVars, adminVars, browsingVars>>
  /\ UNCHANGED door

AccessSpec == AccessInit /\ [][AccessNext]_accessVars

\* The tables, maps and requests of all four are what their code makes of them.
AccessTypeOK == LimiterTypeOK /\ SessionsTypeOK /\ AdminTypeOK /\ BrowsingTypeOK
=============================================================================
