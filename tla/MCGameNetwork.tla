---------------------------- MODULE MCGameNetwork ----------------------------
(* Small instances of GameNetwork. *)
EXTENDS GameNetwork, TLC

CONSTANTS h, a, b, all

Deactivation == [type |-> "Deactivate", client |-> a]
Activation == [type |-> "Activate", client |-> a]
Change == [type |-> "Set", client |-> h] \* changes no client

(* A game in which nothing happens but the given synchronous controls.     *)
Game(nodes, mode, syncControls) ==
    [nodes |-> nodes, mode |-> mode, rate |-> 1, preSend |-> 1, syncControls |-> syncControls,
     crashing |-> {}, joining |-> {}, playing |-> {}, pausing |-> FALSE, subjects |-> {},
     voters |-> {}, hasty |-> FALSE,
     maxBehind |-> 1,
     maxCommands |-> 0, maxStart |-> 0, maxFrame |-> 1]

(* The host pauses, resumes and deactivates the other client.              *)
Pauses ==
    {[Game({h, a}, "Decentral", {Deactivation}) EXCEPT
        !.pausing = TRUE, !.maxCommands = 3, !.maxFrame = 4]}

(* A client joins the running game, and has players; it may disappear.     *)
Joins ==
    {[Game({h, a}, mode, {}) EXCEPT
        !.joining = {a}, !.playing = {a}, !.crashing = leaving, !.maxBehind = 0, !.maxStart = 1,
        !.maxFrame = IF leaving = {} THEN 3 ELSE 2]
        : mode \in {"Central", "Decentral"}, leaving \in SUBSET {a}}

(* The host pauses while a client joins.                                   *)
PausedJoins ==
    {[Game({h, a}, "Central", {}) EXCEPT
        !.joining = {a}, !.pausing = TRUE, !.maxBehind = 0, !.maxCommands = 1, !.maxStart = 1,
        !.maxFrame = 3]}

(* The users of some clients vote on some subjects.                        *)
Kick(c) == [type |-> "Kick", data |-> c]
PauseVote(on) == [type |-> "Pause", data |-> on]

Voting(nodes, voters, subjects) ==
    [Game(nodes, "Central", {}) EXCEPT
        !.subjects = subjects, !.voters = voters, !.maxCommands = 2]

PauseVotes(c) ==
    [Voting({h, a}, {c}, {PauseVote(TRUE), PauseVote(FALSE)}) EXCEPT
        !.maxStart = 1, !.maxFrame = 2]

(* The players vote to remove a client or to pause the game: those of the  *)
(* host and of the other client, which may disappear, or of one of the two. *)
Votings ==
    {[Voting({h, a}, {h, a}, {Kick(a)}) EXCEPT !.crashing = {a}],
     Voting({h, a}, {h, a}, {PauseVote(TRUE)}), PauseVotes(h),
     [PauseVotes(a) EXCEPT !.mode = "Decentral"]}

StatusGames == Pauses \cup Joins \cup Votings

(* Client b disappears and is removed, the others recover what it had      *)
(* sent; or in central mode, with two frames per tick, the host pauses,    *)
(* resumes, deactivates a client and activates it again.                   *)
Removals ==
    {[Game({h, a, b}, "Decentral", {Change}) EXCEPT !.crashing = {b}],
     [Game({h, a, b}, "Central", {Deactivation, Activation}) EXCEPT
        !.rate = 2, !.pausing = TRUE, !.maxCommands = 2, !.maxStart = 1, !.maxFrame = 3]}

(* A client is deactivated and activated again.                            *)
Reactivation ==
    {[Game({h, a}, "Decentral", {Deactivation, Activation}) EXCEPT
        !.maxCommands = 2, !.maxStart = 1, !.maxFrame = 3]}

(* The host gives a command before the last one is over.                   *)
Haste ==
    {[Game({h, a}, "Central", {Change}) EXCEPT
        !.pausing = TRUE, !.hasty = TRUE, !.maxCommands = 2, !.maxStart = 1, !.maxFrame = 3]}

(* A client joins, and two chase targets may name the same tick.           *)
HastyJoins ==
    {[Game({h, a}, "Decentral", {}) EXCEPT
        !.joining = {a}, !.playing = {a}, !.hasty = TRUE, !.maxBehind = 0, !.maxStart = 1,
        !.maxFrame = 3]}

(* A pause, with three clients in decentral mode.                          *)
PausedThree ==
    {[Game({h, a, b}, "Decentral", {Change}) EXCEPT !.pausing = TRUE, !.maxCommands = 1]}

(* Two players of three vote on the removal of a client, at their own pace. *)
HastyVoting ==
    {[Voting({h, a, b}, {h, b}, {Kick(a)}) EXCEPT !.hasty = TRUE, !.maxCommands = 1]}
=============================================================================
