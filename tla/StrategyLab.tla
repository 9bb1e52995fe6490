---------------------------- MODULE StrategyLab ----------------------------
(***************************************************************************)
(* The brain (brain/main.py, repair.py): the thread that looks for         *)
(* strategies, tries the best one on paper and then promotes it to live,   *)
(* and the watchdog that restarts the node when it is down.  They share    *)
(* the rate limit of the restarts, which repair.py keeps in memory and in  *)
(* a file, and the node, which reads the overrides when it starts          *)
(* (denaro/denaro_node.py).  One symbol, one node; scores are left out: a  *)
(* candidate may beat what is live, a paper run may have a gain.           *)
(*                                                                         *)
(* An operator XBug, defined before X, is X with a plausible coding error. *)
(***************************************************************************)
EXTENDS Integers

CONSTANTS
    Candidates,
    None,
    ValidateAge,    \* PAPER_VALIDATE_H
    Cooldown,       \* REPAIR_COOLDOWN_S
    Hour,
    MaxPerHour,     \* REPAIR_MAX_PER_HOUR
    MaxTime,        \* bound: the clock
    MaxFails,       \* bound: node crashes, commands that fail
    MaxDeaths       \* bound: ends of the brain's process

ASSUME LabAssumption ==
    /\ None \notin Candidates
    /\ Hour \in Nat \ {0} /\ MaxPerHour \in Nat \ {0}
    /\ {ValidateAge, Cooldown, MaxTime, MaxFails, MaxDeaths} \subseteq Nat

VARIABLES
    now,
    \* on the disk
    registry,   \* registry.json
    overrides,  \* strategy_overrides.json where the node reads it
    limitFile,  \* repair_state.json
    \* of the node
    up, node,   \* whether it runs, and the overrides it has read
    \* of the strategy thread
    lab,        \* where the cycle is
    reg,        \* the registry it has loaded
    changed,
    \* of the watchdog
    dog, loaded,    \* where it is, and the limit it has read from the file
    \* of both
    limit,      \* repair._state of the unit
    \* observers
    promoted,   \* when a candidate was last put on paper
    aged,       \* candidates found on paper ValidateAge after that
    ran,        \* candidates that the node has run on paper
    skipped,    \* candidates for which a command failed, was refused or cut short
    raced,      \* the limit was checked, or loaded, while a restart was under way
    restarts,   \* when the node was last restarted by the brain, and the time before
    fails, deaths

diskVars == <<registry, overrides, limitFile>>
nodeVars == <<up, node>>
labVars == <<lab, reg, changed>>
dogVars == <<dog, loaded>>
pastVars == <<promoted, aged, ran, skipped, raced, restarts, fails, deaths>>
brainVars == <<now, registry, overrides, limitFile, up, node, lab, reg, changed, dog, loaded, limit,
          promoted, aged, ran, skipped, raced, restarts, fails, deaths>>

Strategies == Candidates \cup {None}
NoLimit == [last |-> -Cooldown, count |-> 0, hour |-> 0]
Nothing == [paper |-> None, live |-> None]
NewSymbol == [best |-> None, paper |-> None, started |-> 0, live |-> None]

LabInit ==
    /\ now = 0
    /\ registry \in {[NewSymbol EXCEPT !.best = c] : c \in Strategies}
    /\ overrides = Nothing /\ limitFile = NoLimit
    /\ up = TRUE /\ node = Nothing
    /\ lab = "idle" /\ reg = NewSymbol /\ changed = FALSE
    /\ dog = "start" /\ loaded = NoLimit /\ limit = NoLimit
    /\ promoted = 0 /\ aged = {} /\ ran = {} /\ skipped = {} /\ raced = FALSE
    /\ restarts = [last |-> -Cooldown, before |-> -2 * Cooldown]
    /\ fails = 0 /\ deaths = 0

Fail == fails < MaxFails /\ fails' = fails + 1
ToLab(where) == lab' = where
ToDog(where) == dog' = where

\* The candidate that a failing step of the cycle concerns.
Skip == skipped' = skipped \cup ({reg.paper} \ {None})

\* From the promotion to the save the cycle takes no time to speak of.
Tick ==
    /\ now < MaxTime /\ lab \notin {"promote", "validate", "write", "save"}
    /\ now' = now + 1
    /\ UNCHANGED <<diskVars, nodeVars, labVars, dogVars, limit, pastVars>>

NodeCrashes ==
    /\ up /\ Fail
    /\ up' = FALSE
    /\ UNCHANGED <<now, diskVars, node, labVars, dogVars, limit, promoted, aged, ran,
                   skipped, raced, restarts, deaths>>

-----------------------------------------------------------------------------
\* repair.py: the limit, and a restart within it.

\* _allowed.
Allowed ==
    /\ now - limit.last >= Cooldown
    /\ limit.hour # now \div Hour \/ limit.count < MaxPerHour

\* _allowed starts a new hour.
HourStarted == IF limit.hour = now \div Hour \/ now - limit.last < Cooldown THEN limit
               ELSE [limit EXCEPT !.hour = now \div Hour, !.count = 0]

MarkedBug == [limit EXCEPT !.count = @ + 1]

\* _mark, after a restart that succeeded.
Marked == [limit EXCEPT !.last = now, !.count = @ + 1]

\* systemctl restart: the node reads the overrides, the limit is marked and saved.
Restart ==
    /\ up' = TRUE /\ node' = overrides /\ ran' = ran \cup ({overrides.paper} \ {None})
    /\ limit' = Marked /\ limitFile' = Marked
    /\ restarts' = [last |-> now, before |-> restarts.last]

\* A restart that fails is not marked.
RestartFails == Fail /\ UNCHANGED <<nodeVars, ran, limit, limitFile, restarts>>

-----------------------------------------------------------------------------
\* strategy_cycle.

\* The first cycle comes hours after the watchdog's first pass.
LoadRegistry ==
    /\ lab = "idle" /\ dog \notin {"start", "first"}
    /\ reg' = registry /\ changed' = FALSE
    /\ ToLab("round")
    /\ UNCHANGED <<now, diskVars, nodeVars, dogVars, limit, pastVars>>

\* run_round: with its own copy of the registry, which it saves.
RunRound(c) ==
    /\ lab = "round"
    /\ registry' = [registry EXCEPT !.best = c]
    /\ ToLab("promote")
    /\ UNCHANGED <<now, overrides, limitFile, nodeVars, reg, changed, dogVars, limit,
                   pastVars>>

RoundFails ==
    /\ lab = "round" /\ Fail
    /\ ToLab("promote")
    /\ UNCHANGED <<now, diskVars, nodeVars, reg, changed, dogVars, limit, promoted, aged,
                   ran, skipped, raced, restarts, deaths>>

\* promote_candidates: the candidate may be better than what is live.
Promote(better) ==
    /\ lab = "promote"
    /\ better => reg.best # None /\ reg.paper = None
    /\ reg' = IF better THEN [reg EXCEPT !.paper = reg.best, !.started = now] ELSE reg
    /\ promoted' = IF better THEN now ELSE promoted
    /\ changed' = better
    /\ ToLab("validate")
    /\ UNCHANGED <<now, diskVars, nodeVars, dogVars, limit, aged, ran, skipped, raced,
                   restarts, fails, deaths>>

DueBug == reg.paper # None

\* validate_paper concerns the paper strategies of a full day.
Due == reg.paper # None /\ now - reg.started >= ValidateAge

\* The health file of the bot tells of a gain, or not, or cannot be read.
Validate(gain) ==
    /\ lab = "validate" /\ (gain => Due)
    /\ reg' = CASE ~Due -> reg
                [] Due /\ gain -> [reg EXCEPT !.live = reg.paper, !.paper = None,
                                              !.started = 0]
                [] OTHER -> [reg EXCEPT !.paper = None, !.started = 0]
    /\ aged' = IF now - promoted >= ValidateAge THEN aged \cup ({reg.paper} \ {None}) ELSE aged
    /\ changed' = (changed \/ Due)
    /\ ToLab("write")
    /\ UNCHANGED <<now, diskVars, nodeVars, dogVars, limit, promoted, ran, skipped, raced,
                   restarts, fails, deaths>>

OverridesBug == [paper |-> registry.paper, live |-> registry.live]

\* The overrides of the registry that the cycle holds.
Overrides == [paper |-> reg.paper, live |-> reg.live]

\* write_overrides: they are copied to the node's directory, if there are any.
WriteOverrides ==
    /\ lab = "write"
    /\ overrides' = IF Overrides = Nothing THEN overrides ELSE Overrides
    /\ ToLab("save")
    /\ UNCHANGED <<now, registry, limitFile, nodeVars, reg, changed, dogVars, limit, pastVars>>

\* The result of the copy is not looked at.
CopyFails ==
    /\ lab = "write" /\ Overrides # Nothing /\ Fail
    /\ Skip
    /\ ToLab("save")
    /\ UNCHANGED <<now, diskVars, nodeVars, reg, changed, dogVars, limit, promoted, aged,
                   ran, raced, restarts, deaths>>

\* The registry of the beginning of the cycle is saved, over what the round saved.
SaveRegistry ==
    /\ lab = "save"
    /\ registry' = reg
    /\ ToLab(IF Overrides # Nothing \/ changed THEN "restart" ELSE "idle")
    /\ UNCHANGED <<now, overrides, limitFile, nodeVars, reg, changed, dogVars, limit,
                   pastVars>>

LabMayRestart ==
    /\ lab = "restart"
    /\ limit' = HourStarted
    /\ IF Allowed THEN ToLab("restarting") /\ UNCHANGED skipped ELSE ToLab("idle") /\ Skip
    /\ raced' = (raced \/ dog = "restarting")
    /\ UNCHANGED <<now, diskVars, nodeVars, reg, changed, dogVars, promoted, aged, ran,
                   restarts, fails, deaths>>

LabRestarts ==
    /\ lab = "restarting"
    /\ \/ Restart /\ UNCHANGED <<skipped, fails>>
       \/ RestartFails /\ Skip
    /\ ToLab("idle")
    /\ UNCHANGED <<now, registry, overrides, reg, changed, dogVars, promoted, aged, raced,
                   deaths>>

-----------------------------------------------------------------------------
\* The watchdog: repair.

\* _load reads the file ...
DogReads ==
    /\ dog \in {"start", "idle"}
    /\ loaded' = limitFile
    /\ ToDog(IF dog = "start" THEN "first" ELSE "read")
    /\ UNCHANGED <<now, diskVars, nodeVars, labVars, limit, pastVars>>

\* ... and puts it over what is in memory.
DogLoads ==
    /\ dog \in {"first", "read"}
    /\ limit' = loaded
    /\ raced' = (raced \/ lab = "restarting" \/ loaded # limitFile)
    /\ ToDog("check")
    /\ UNCHANGED <<now, diskVars, nodeVars, labVars, loaded, promoted, aged, ran, skipped,
                   restarts, fails, deaths>>

DogMayRestart ==
    /\ dog = "check" /\ ~up
    /\ limit' = HourStarted
    /\ ToDog(IF Allowed THEN "restarting" ELSE "save")
    /\ raced' = (raced \/ lab = "restarting")
    /\ UNCHANGED <<now, diskVars, nodeVars, labVars, loaded, promoted, aged, ran, skipped,
                   restarts, fails, deaths>>

DogFindsUp ==
    /\ dog = "check" /\ up
    /\ ToDog("save")
    /\ UNCHANGED <<now, diskVars, nodeVars, labVars, loaded, limit, pastVars>>

DogRestarts ==
    /\ dog = "restarting"
    /\ \/ Restart /\ UNCHANGED fails
       \/ RestartFails
    /\ ToDog("save")
    /\ UNCHANGED <<now, registry, overrides, labVars, loaded, promoted, aged, skipped,
                   raced, deaths>>

DogSaves ==
    /\ dog = "save"
    /\ limitFile' = limit
    /\ ToDog("idle")
    /\ UNCHANGED <<now, registry, overrides, nodeVars, labVars, loaded, limit, pastVars>>

-----------------------------------------------------------------------------
\* The brain's process ends, between any two steps, and starts again.
Dies ==
    /\ deaths < MaxDeaths /\ deaths' = deaths + 1
    /\ ToLab("idle") /\ reg' = NewSymbol /\ changed' = FALSE
    /\ ToDog("start") /\ loaded' = NoLimit /\ limit' = NoLimit
    /\ IF lab = "idle" THEN UNCHANGED skipped ELSE Skip
    /\ UNCHANGED <<now, diskVars, nodeVars, promoted, aged, ran, raced, restarts, fails>>

Lab ==
    \/ LoadRegistry \/ RoundFails \/ WriteOverrides \/ CopyFails \/ SaveRegistry
    \/ LabMayRestart \/ LabRestarts
    \/ \E c \in Candidates : RunRound(c)
    \/ \E yes \in BOOLEAN : Promote(yes) \/ Validate(yes)

Dog == DogReads \/ DogLoads \/ DogMayRestart \/ DogFindsUp \/ DogRestarts \/ DogSaves

LabNext == Lab \/ Dog \/ Tick \/ NodeCrashes \/ Dies

LabSpec == LabInit /\ [][LabNext]_brainVars

-----------------------------------------------------------------------------
\* The variables keep their types.
LabTypeOK ==
    /\ now \in 0 .. MaxTime
    /\ {registry, reg} \subseteq
           [best : Strategies, paper : Strategies, started : 0 .. MaxTime, live : Strategies]
    /\ {overrides, node} \subseteq [paper : Strategies, live : Strategies]
    /\ {limit, loaded, limitFile} \subseteq
           [last : -Cooldown .. now, count : Nat, hour : 0 .. now \div Hour]
    /\ {up, changed, raced} \subseteq BOOLEAN
    /\ lab \in {"idle", "round", "promote", "validate", "write", "save", "restart",
                "restarting"}
    /\ dog \in {"start", "first", "idle", "read", "check", "restarting", "save"}
    /\ {aged, ran, skipped} \subseteq SUBSET Candidates

\* A strategy reaches the live overrides, or the registry as live, only after a
\* full day on paper, whatever ends of the process and stale registries came in
\* between: the paper entry and its start survive or go together.
LiveWasValidated == {registry.live, overrides.live, node.live} \subseteq aged \cup {None}

\* A strategy goes live only if the paper node has run it, or a step that would have
\* made the node run it has failed, was refused by the rate limit, or was cut short:
\* none of these holds the promotion back (main.py, strategy_cycle).
LiveRanAsPaper == registry.live \in ran \cup skipped \cup {None}

\* The two threads and a restarting brain respect the cooldown together, unless one
\* has looked at the limit, or loaded it, while the other was restarting the node.
RestartsSpaced == restarts.last - restarts.before >= Cooldown \/ raced
=============================================================================
