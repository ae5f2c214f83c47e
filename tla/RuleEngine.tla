----------------------------- MODULE RuleEngine -----------------------------
(***************************************************************************)
(* The rule engine (internal/rules/engine.go, apply.go): exchanges that    *)
(* evaluate the rules, control handlers that edit them, goroutines that    *)
(* reap and save, rules.json, and a daemon that may die.                   *)
(*                                                                         *)
(* An exchange works on the rule set it found and on the counters of its   *)
(* rules, without a lock.  An edit compiles a new edition of a rule, so    *)
(* for a while two editions of one rule may fire.  Which of the rules of a *)
(* set comes first is left open.                                           *)
(***************************************************************************)
EXTENDS Naturals, FiniteSets

CONSTANTS
  Id,         \* of rules
  Exchange,   \* each in one phase at a time
  Limits,     \* values of max_hits: 0 is none
  Editions,   \* bound on how often a rule is compiled in one life
  MaxClock,   \* bound on time
  MaxFaults,  \* bound on writes of rules.json that fail
  MaxCrashes, \* bound on restarts
  MaxTrouble, \* bound on both together
  NoRule, NoImage, Nobody

ASSUME ConstantsAssumption ==
  /\ IsFiniteSet(Exchange)
  /\ Limits \subseteq Nat /\ Limits # {} /\ Editions \in Nat \ {0}
  /\ MaxClock \in Nat /\ MaxFaults \in Nat /\ MaxCrashes \in Nat
  /\ MaxTrouble \in Nat

Obj   == Id \X (1..Editions)       \* compiledRule: the n-th edition of a rule
Never == MaxClock + 1
Terms == [max : Limits, expires : 1..Never]

\* compiledRule.view(), what rules.json says of a rule.
View == [terms : Terms, on : BOOLEAN, hits : Nat]

ASSUME NoRuleAssumption ==
  /\ NoRule \notin View /\ NoImage \notin [Id -> View \cup {NoRule}]
  /\ Nobody \notin Obj

VARIABLES
  made,             \* editions compiled so far
  rules,            \* Engine.rules: the edition in force, 0 if none
  terms, on, hits, reaped,  \* of each compiledRule
  editing,          \* a handler holds Engine.mu, its edit made and not yet saved
  saver, image,     \* who holds saveMu, and what it is going to write
  waiting,          \* goroutines in, or on their way to, save
  reapers,          \* rules a goroutine has been sent to remove
  at, left, cur, seen,  \* of each exchange: where in Request or Response, the
                    \* rules left, the one it is firing, its `now`
  fired, inherited, \* history: how often an edition has fired, hits it began with
  disk,             \* rules.json
  failed,           \* history: the last write of it failed
  clock, faults, crashes

\* One more failed write or restart is within the bounds.
MayFail == faults + crashes < MaxTrouble

compiled == <<made, rules, terms, on, hits, reaped, fired, inherited>>
exchange == <<at, left, cur, seen>>
saving   == <<saver, image, disk, failed, faults>>
vars == <<compiled, exchange, saving, editing, waiting, reapers, clock, crashes>>

Where == {"idle", "walk", "chosen", "over", "limit"}

TypeOK ==
  /\ made \in [Id -> 0..Editions]
  /\ rules \in [Id -> 0..Editions]
  /\ terms \in [Obj -> Terms] /\ on \in [Obj -> BOOLEAN]
  /\ hits \in [Obj -> Nat] /\ reaped \in [Obj -> BOOLEAN]
  /\ editing \in BOOLEAN
  /\ saver \in {"none", "handler", "goroutine"}
  /\ image \in [Id -> View \cup {NoRule}] \cup {NoImage}
  /\ waiting \in Nat /\ reapers \subseteq Obj
  /\ at \in [Exchange -> Where] /\ left \in [Exchange -> SUBSET Obj]
  /\ cur \in [Exchange -> Obj \cup {Nobody}] /\ seen \in [Exchange -> 0..MaxClock]
  /\ fired \in [Obj -> Nat] /\ inherited \in [Obj -> Nat]
  /\ disk \in [Id -> View \cup {NoRule}] /\ failed \in BOOLEAN
  /\ clock \in 0..MaxClock /\ faults \in 0..MaxFaults /\ crashes \in 0..MaxCrashes

Init ==
  /\ made = [i \in Id |-> 0] /\ rules = [i \in Id |-> 0]
  /\ terms \in [Obj -> {[max |-> CHOOSE m \in Limits : TRUE, expires |-> Never]}]
  /\ on = [o \in Obj |-> FALSE] /\ hits = [o \in Obj |-> 0]
  /\ reaped = [o \in Obj |-> FALSE]
  /\ fired = [o \in Obj |-> 0] /\ inherited = [o \in Obj |-> 0]
  /\ editing = FALSE /\ waiting = 0 /\ reapers = {}
  /\ saver = "none" /\ image = NoImage
  /\ at = [x \in Exchange |-> "idle"] /\ left = [x \in Exchange |-> {}]
  /\ cur = [x \in Exchange |-> Nobody] /\ seen = [x \in Exchange |-> 0]
  /\ disk = [i \in Id |-> NoRule] /\ failed = FALSE
  /\ clock = 0 /\ faults = 0 /\ crashes = 0

\* Engine.set: replaced with every change of Engine.rules.
RuleSet == {o \in Obj : rules[o[1]] = o[2]}

-----------------------------------------------------------------------------
(* An exchange: Request or Response.                                       *)

Begin(x) ==
  /\ at[x] = "idle" /\ RuleSet # {}
  /\ at' = [at EXCEPT ![x] = "walk"]
  /\ left' = [left EXCEPT ![x] = RuleSet]
  /\ seen' = [seen EXCEPT ![x] = clock]
  /\ UNCHANGED <<compiled, cur, saving, editing, waiting, reapers, clock, crashes>>

\* Off, not matching, or the probability gate says no.
Skip(x, o) ==
  /\ at[x] = "walk" /\ o \in left[x]
  /\ on[o] => seen[x] < terms[o].expires
  /\ left' = [left EXCEPT ![x] = @ \ {o}]
  /\ UNCHANGED <<compiled, at, cur, seen, saving, editing, waiting, reapers, clock, crashes>>

\* One goroutine per expired rule.
Expire(x, o) ==
  /\ at[x] = "walk" /\ o \in left[x] /\ on[o] /\ seen[x] >= terms[o].expires
  /\ left' = [left EXCEPT ![x] = @ \ {o}]
  /\ reaped' = [reaped EXCEPT ![o] = TRUE]
  /\ reapers' = IF reaped[o] THEN reapers ELSE reapers \cup {o}
  /\ UNCHANGED <<made, rules, terms, on, hits, fired, inherited, at, cur, seen,
                 saving, editing, waiting, clock, crashes>>

Choose(x, o) ==
  /\ at[x] = "walk" /\ o \in left[x] /\ on[o] /\ seen[x] < terms[o].expires
  /\ at' = [at EXCEPT ![x] = "chosen"]
  /\ cur' = [cur EXCEPT ![x] = o]
  /\ left' = [left EXCEPT ![x] = @ \ {o}]
  /\ UNCHANGED <<compiled, seen, saving, editing, waiting, reapers, clock, crashes>>

\* Mutant: one more than max_hits.
SpentLate(n, max) == max > 0 /\ n > max + 1
Spent(n, max) == max > 0 /\ n > max

\* fire: whoever counts past the limit takes it back.  An action that answers
\* the exchange ends its phase.
Count(x) ==
  LET o == cur[x]
      n == hits[o] + 1
  IN
  /\ at[x] = "chosen"
  /\ hits' = [hits EXCEPT ![o] = n]
  /\ IF Spent(n, terms[o].max)
     THEN at' = [at EXCEPT ![x] = "over"] /\ UNCHANGED <<fired, left>>
     ELSE /\ at' = [at EXCEPT ![x] = IF n = terms[o].max THEN "limit" ELSE "walk"]
          /\ fired' = [fired EXCEPT ![o] = @ + 1]
          /\ left' \in {left, [left EXCEPT ![x] = {}]}
  /\ UNCHANGED <<made, rules, terms, on, reaped, inherited, cur, seen,
                 saving, editing, waiting, reapers, clock, crashes>>

\* Mutant: the hit is taken from the edition in force by now.
TakeBackByName(x) ==
  /\ at[x] = "over"
  /\ LET o == <<cur[x][1], rules[cur[x][1]]>> IN hits' = [hits EXCEPT ![o] = @ - 1]
  /\ at' = [at EXCEPT ![x] = "walk"]
  /\ UNCHANGED <<made, rules, terms, on, reaped, fired, inherited, left, cur, seen,
                 saving, editing, waiting, reapers, clock, crashes>>
TakeBack(x) ==
  /\ at[x] = "over"
  /\ hits' = [hits EXCEPT ![cur[x]] = @ - 1]
  /\ at' = [at EXCEPT ![x] = "walk"]
  /\ UNCHANGED <<made, rules, terms, on, reaped, fired, inherited, left, cur, seen,
                 saving, editing, waiting, reapers, clock, crashes>>

\* Mutant: switched off without a save.
DisableUnsaved(x) ==
  /\ at[x] = "limit"
  /\ on' = [on EXCEPT ![cur[x]] = FALSE]
  /\ at' = [at EXCEPT ![x] = "walk"]
  /\ UNCHANGED <<made, rules, terms, hits, reaped, fired, inherited, left, cur, seen,
                 saving, editing, waiting, reapers, clock, crashes>>
\* disable: only the first to switch it off has it saved.
Disable(x) ==
  /\ at[x] = "limit"
  /\ on' = [on EXCEPT ![cur[x]] = FALSE]
  /\ waiting' = IF on[cur[x]] THEN waiting + 1 ELSE waiting
  /\ at' = [at EXCEPT ![x] = "walk"]
  /\ UNCHANGED <<made, rules, terms, hits, reaped, fired, inherited, left, cur, seen,
                 saving, editing, reapers, clock, crashes>>

End(x) ==
  /\ at[x] = "walk" /\ left[x] = {}
  /\ at' = [at EXCEPT ![x] = "idle"]
  /\ cur' = [cur EXCEPT ![x] = Nobody] /\ seen' = [seen EXCEPT ![x] = 0]
  /\ UNCHANGED <<compiled, left, saving, editing, waiting, reapers, clock, crashes>>

-----------------------------------------------------------------------------
(* Control handlers.  They hold the mutex until their edit is saved.       *)

\* A new edition, with the hits it starts from.
Install(i, t, e, h) ==
  LET o == <<i, made[i] + 1>> IN
  /\ made[i] < Editions
  /\ made' = [made EXCEPT ![i] = @ + 1]
  /\ rules' = [rules EXCEPT ![i] = made'[i]]
  /\ terms' = [terms EXCEPT ![o] = t]
  /\ on' = [on EXCEPT ![o] = e]
  /\ hits' = [hits EXCEPT ![o] = h]
  /\ inherited' = [inherited EXCEPT ![o] = h]
  /\ UNCHANGED <<reaped, fired>>

Edit ==
  /\ ~editing /\ editing' = TRUE
  /\ UNCHANGED <<exchange, saving, waiting, reapers, clock, crashes>>

Add(i, t, e) ==
  /\ Edit /\ rules[i] = 0 /\ clock < t.expires
  /\ Install(i, t, e, 0)

\* A patch that leaves the flag alone keeps the one read when the call began,
\* which a firing rule may have cleared since: it can be either.
Update(i, t, e) ==
  LET old == <<i, rules[i]>> IN
  /\ Edit /\ rules[i] # 0
  /\ t.expires = terms[old].expires \/ clock < t.expires
  /\ Install(i, t, e, IF e /\ ~on[old] /\ t.max > 0 /\ hits[old] >= t.max
                      THEN 0 ELSE hits[old])

\* Remove, and RemoveAll.
Remove(S) ==
  /\ Edit /\ S # {} /\ (\A i \in S : rules[i] # 0)
  /\ rules' = [i \in Id |-> IF i \in S THEN 0 ELSE rules[i]]
  /\ UNCHANGED <<made, terms, on, hits, reaped, fired, inherited>>

-----------------------------------------------------------------------------
(* Goroutines.                                                             *)

\* Mutant: the rule is removed by its id, whatever edition is in force.
ReapById(o) ==
  /\ o \in reapers /\ ~editing
  /\ reapers' = reapers \ {o}
  /\ rules' = [rules EXCEPT ![o[1]] = 0]
  /\ waiting' = waiting + 1
  /\ UNCHANGED <<made, terms, on, hits, reaped, fired, inherited, exchange,
                 saving, editing, clock, crashes>>
\* The rule may have been edited, or removed, since it was found expired.
Reap(o) ==
  /\ o \in reapers /\ ~editing
  /\ reapers' = reapers \ {o}
  /\ rules' = [rules EXCEPT ![o[1]] = IF @ = o[2] THEN 0 ELSE @]
  /\ waiting' = waiting + 1
  /\ UNCHANGED <<made, terms, on, hits, reaped, fired, inherited, exchange,
                 saving, editing, clock, crashes>>

\* save, for a handler or in a goroutine: take saveMu, ...
Wants(who) == \/ who = "handler" /\ editing
              \/ who = "goroutine" /\ waiting > 0

\* Mutant: a handler leaves the saving to whoever is at it.
LockOrLeave(who) ==
  /\ Wants(who)
  /\ \/ saver = "none" /\ saver' = who /\ UNCHANGED editing
     \/ saver # "none" /\ who = "handler" /\ editing' = FALSE /\ UNCHANGED saver
  /\ UNCHANGED <<compiled, exchange, image, disk, failed, faults, waiting, reapers,
                 clock, crashes>>
Lock(who) ==
  /\ Wants(who)
  /\ saver = "none" /\ saver' = who
  /\ UNCHANGED <<compiled, exchange, image, disk, failed, faults, editing, waiting,
                 reapers, clock, crashes>>

Shown(o) == [terms |-> terms[o], on |-> on[o], hits |-> hits[o]]

Current == [i \in Id |-> IF rules[i] = 0 THEN NoRule ELSE Shown(<<i, rules[i]>>)]

\* ... read the set, ...
Read(who) ==
  /\ saver = who /\ image = NoImage
  /\ image' = Current
  /\ UNCHANGED <<compiled, exchange, saver, disk, failed, faults, editing, waiting,
                 reapers, clock, crashes>>

\* ... write it to a new file and rename that.  A failure is only logged.
Write(who) ==
  /\ saver = who /\ image # NoImage
  /\ \/ disk' = image /\ failed' = FALSE /\ UNCHANGED faults
     \/ /\ faults < MaxFaults /\ MayFail /\ faults' = faults + 1
        /\ failed' = TRUE /\ UNCHANGED disk
  /\ saver' = "none" /\ image' = NoImage
  /\ IF who = "handler" THEN editing' = FALSE /\ UNCHANGED waiting
                        ELSE waiting' = waiting - 1 /\ UNCHANGED editing
  /\ UNCHANGED <<compiled, exchange, reapers, clock, crashes>>

-----------------------------------------------------------------------------
(* The daemon.                                                             *)

Tick ==
  /\ clock < MaxClock /\ clock' = clock + 1
  /\ UNCHANGED <<compiled, exchange, saving, editing, waiting, reapers, crashes>>

\* Loading skips what has expired.
Loads(f, i) == f[i] # NoRule /\ clock < f[i].terms.expires

\* The process ends, at any point, and the next one loads the file.
RestartFrom(f) ==
  /\ crashes < MaxCrashes /\ MayFail /\ crashes' = crashes + 1
  /\ rules' = [i \in Id |-> IF Loads(f, i) THEN 1 ELSE 0] /\ made' = rules'
  /\ terms' = [o \in Obj |-> IF Loads(f, o[1]) THEN f[o[1]].terms ELSE terms[o]]
  /\ on' = [o \in Obj |-> Loads(f, o[1]) /\ f[o[1]].on]
  /\ hits' = [o \in Obj |-> IF Loads(f, o[1]) THEN f[o[1]].hits ELSE 0]
  /\ inherited' = hits'
  /\ reaped' = [o \in Obj |-> FALSE] /\ fired' = [o \in Obj |-> 0]
  /\ editing' = FALSE /\ waiting' = 0 /\ reapers' = {}
  /\ saver' = "none" /\ image' = NoImage /\ failed' = FALSE
  /\ at' = [x \in Exchange |-> "idle"] /\ left' = [x \in Exchange |-> {}]
  /\ cur' = [x \in Exchange |-> Nobody] /\ seen' = [x \in Exchange |-> 0]
  /\ disk' = f
  /\ UNCHANGED <<faults, clock>>

Crash == RestartFrom(disk)

\* Engine.Close: one more save, when the daemon stops.
Stop == saver = "none" /\ RestartFrom(Current)

-----------------------------------------------------------------------------
Evaluate(x) ==
  \/ Begin(x) \/ Count(x) \/ TakeBack(x) \/ Disable(x) \/ End(x)
  \/ \E o \in Obj : Skip(x, o) \/ Expire(x, o) \/ Choose(x, o)

Save(who) == Lock(who) \/ Read(who) \/ Write(who)

Handler ==
  \/ \E i \in Id, t \in Terms, e \in BOOLEAN : Add(i, t, e) \/ Update(i, t, e)
  \/ Remove(Id \cap {i \in Id : rules[i] # 0}) \/ \E i \in Id : Remove({i})

Next ==
  \/ \E x \in Exchange : Evaluate(x)
  \/ Handler
  \/ \E o \in Obj : Reap(o)
  \/ \E who \in {"handler", "goroutine"} : Save(who)
  \/ Tick \/ Crash \/ Stop

Spec == Init /\ [][Next]_vars

-----------------------------------------------------------------------------
(* Properties.                                                             *)

\* docs/rules.md: max_hits disables "the rule once it has fired this many times".
\* An edition never fires more often than its limit leaves it, however many
\* exchanges count at the same moment, on whatever set they found.
LimitKept == \A o \in Obj :
  terms[o].max > 0 /\ fired[o] > 0 => inherited[o] + fired[o] <= terms[o].max

Expired(t) == clock >= t.expires

\* docs/architecture.md: "rules.json is rewritten atomically on every change".
\* When no edit is under way, so that every handler has answered, a restart
\* would find the rules there are, on the terms there are: no save of an older
\* set comes late, and none is skipped.
AckedIsDurable ==
  ~editing /\ ~failed =>
    \A i \in Id :
      IF rules[i] = 0 THEN disk[i] = NoRule \/ Expired(disk[i].terms)
      ELSE disk[i] # NoRule /\ disk[i].terms = terms[<<i, rules[i]>>]

\* Nothing is left to be saved.
AtRest == ~editing /\ ~failed /\ waiting = 0

\* ... and once the goroutines are through, a rule that has used itself up, or
\* was switched off while another save was running, is off in the file too.
RestIsDurable ==
  AtRest => \A o \in RuleSet : disk[o[1]] # NoRule /\ disk[o[1]].on = on[o]

\* Only a handler that removes it, or its own expiry, takes a rule away: not a
\* goroutine sent to remove an edition that has been renewed since, and not a
\* restart, unless the edit had not been saved.
RulesStay ==
  [][\A i \in Id : rules[i] # 0 /\ rules'[i] = 0 =>
       \/ ~editing /\ editing'
       \/ Expired(terms[<<i, rules[i]>>])
       \/ crashes' # crashes /\ (editing \/ failed)]_vars
=============================================================================
