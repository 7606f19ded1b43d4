------------------------------ MODULE MCAccess -------------------------------
(* One address and three tokens in four units of time; two tabs of a        *)
(* browser, two names and one address in two spellings, two users and two   *)
(* sessions, each of one unit of time; two tabs of the admin and two        *)
(* secrets; lists of up to three rows at the start, in pages of one or two, *)
(* and two changes while they are read.  Names and tabs may change places.  *)
EXTENDS Access, TLC
CONSTANTS here, ann, bob, small, large, tab1, tab2, left, right
MCBrowser == [t \in Tab |-> "desk"]
MCLower == [e \in Typed |-> small]
MCMost == [shop |-> 2, pool |-> 3]
MCUsual == [shop |-> 1, pool |-> 2]
MCSymmetry == Permutations(Name) \cup Permutations({tab1, tab2}) \cup Permutations(Desk)
=============================================================================
