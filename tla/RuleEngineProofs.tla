-------------------------- MODULE RuleEngineProofs --------------------------
(***************************************************************************)
(* Proofs about RuleEngine, for any rules, exchanges, limits and editions. *)
(* The invariant has four parts: nobody works with an edition that has not *)
(* been compiled; a rule's counter is what it began with, what it has      *)
(* fired and what exchanges are about to take back; goroutines are sent    *)
(* only after expired rules; and a save that has read the rules read them  *)
(* after every edit that has been answered.                                *)
(***************************************************************************)
EXTENDS RuleEngine, FiniteSetTheorems, TLAPS

-----------------------------------------------------------------------------
\* No goroutine or exchange knows an edition that is yet to come.
Untouched(o) ==
  /\ fired[o] = 0 /\ o \notin reapers
  /\ \A x \in Exchange : o \notin left[x] /\ cur[x] # o

Compiled ==
  /\ \A i \in Id : rules[i] <= made[i]
  /\ \A o \in Obj : o[2] > made[o[1]] => Untouched(o)
  /\ \A x \in Exchange : at[x] \in {"chosen", "over", "limit"} => cur[x] \in Obj

\* Exchanges that have counted past the limit of o.
Overs(o) == {x \in Exchange : at[x] = "over" /\ cur[x] = o}

Counted ==
  \A o \in Obj : hits[o] = inherited[o] + fired[o] + Cardinality(Overs(o))

\* f has the rules there are.
Agrees(f) ==
  \A i \in Id :
    IF rules[i] = 0 THEN f[i] = NoRule \/ Expired(f[i].terms)
    ELSE f[i] # NoRule /\ f[i].terms = terms[<<i, rules[i]>>]

\* ... and which of them are on.
Fresh(f) == \A o \in RuleSet : f[o[1]] # NoRule /\ f[o[1]].on = on[o]

Saves ==
  /\ saver = "none" => image = NoImage
  /\ saver = "handler" => editing
  /\ saver = "goroutine" => waiting > 0
  /\ ~editing /\ ~failed => Agrees(disk)
  /\ ~editing /\ ~failed /\ waiting = 0 => Fresh(disk)
  /\ image # NoImage /\ (editing => saver = "handler") => Agrees(image)
  /\ image # NoImage /\ saver = "handler" /\ waiting = 0 => Fresh(image)
  /\ image # NoImage /\ saver = "goroutine" /\ waiting = 1 /\ ~editing => Fresh(image)

\* A goroutine is sent only after rules that have expired.
Timely ==
  /\ \A x \in Exchange : seen[x] <= clock
  /\ \A o \in reapers : Expired(terms[o])

Inv == TypeOK /\ Compiled /\ Counted /\ LimitKept /\ Timely /\ Saves

\* A compiled rule is an id and a number.
LEMMA ObjFacts ==
  /\ \A o \in Obj : o[1] \in Id /\ o[2] \in 1..Editions /\ o = <<o[1], o[2]>>
  /\ \A i \in Id, n \in 1..Editions :
       <<i, n>> \in Obj /\ <<i, n>>[1] = i /\ <<i, n>>[2] = n
BY DEF Obj

\* Exchanges at a place are finitely many.
LEMMA OversFinite ==
  ASSUME NEW S \in SUBSET Exchange
  PROVE  IsFiniteSet(S) /\ Cardinality(S) \in Nat
BY ConstantsAssumption, FS_Subset, FS_CardinalityType DEF ConstantsAssumption

\* At first there are no rules, in memory or in the file.
LEMMA InitInv == Init => Inv
<1>. SUFFICES ASSUME Init PROVE Inv
  OBVIOUS
<1>0. /\ Limits \subseteq Nat /\ Limits # {} /\ Editions \in Nat \ {0}
      /\ MaxClock \in Nat /\ MaxFaults \in Nat /\ MaxCrashes \in Nat
  BY ConstantsAssumption DEF ConstantsAssumption
<1>1. TypeOK
  <2>1. (CHOOSE m \in Limits : TRUE) \in Limits /\ Never \in 1..Never
    BY <1>0 DEF Never
  <2>2. terms \in [Obj -> Terms]
    BY <2>1 DEF Init, Terms
  <2>3. /\ made \in [Id -> 0..Editions] /\ rules \in [Id -> 0..Editions]
        /\ hits \in [Obj -> Nat] /\ fired \in [Obj -> Nat] /\ inherited \in [Obj -> Nat]
    BY <1>0 DEF Init
  <2>4. on \in [Obj -> BOOLEAN] /\ reaped \in [Obj -> BOOLEAN]
    BY DEF Init
  <2>5. /\ at \in [Exchange -> Where] /\ left \in [Exchange -> SUBSET Obj]
        /\ cur \in [Exchange -> Obj \cup {Nobody}] /\ seen \in [Exchange -> 0..MaxClock]
    BY <1>0 DEF Init, Where
  <2>6. disk \in [Id -> View \cup {NoRule}]
    BY DEF Init
  <2>8. editing \in BOOLEAN /\ failed \in BOOLEAN
    BY DEF Init
  <2>7. /\ saver \in {"none", "handler", "goroutine"}
        /\ image \in [Id -> View \cup {NoRule}] \cup {NoImage}
        /\ waiting \in Nat /\ reapers \subseteq Obj
        /\ clock \in 0..MaxClock /\ faults \in 0..MaxFaults /\ crashes \in 0..MaxCrashes
    BY <1>0 DEF Init
  <2>. QED BY <2>2, <2>3, <2>4, <2>5, <2>6, <2>7, <2>8 DEF TypeOK
<1>2. Compiled
  BY ObjFacts, NoRuleAssumption DEF Init, Compiled, Untouched, NoRuleAssumption
<1>3. Counted
  <2>. SUFFICES ASSUME NEW o \in Obj PROVE hits[o] = inherited[o] + fired[o] + Cardinality(Overs(o))
    BY DEF Counted
  <2>1. Overs(o) = {}
    BY DEF Init, Overs
  <2>. QED BY <2>1, FS_EmptySet DEF Init
<1>4. LimitKept
  BY DEF Init, LimitKept
<1>5. Saves
  <2>1. Agrees(disk)
    BY DEF Init, Agrees
  <2>2. RuleSet = {}
    BY <1>0, ObjFacts DEF Init, RuleSet
  <2>. QED BY <2>1, <2>2 DEF Init, Saves, Fresh
<1>6. Timely
  BY <1>0 DEF Init, Timely
<1>. QED BY <1>1, <1>2, <1>3, <1>4, <1>5, <1>6 DEF Inv

-----------------------------------------------------------------------------
\* What a handler does: it installs an edition, or removes rules.
LEMMA HandlerForms ==
  ASSUME TypeOK, Handler
  PROVE  /\ Edit
         /\ \/ \E i \in Id, t \in Terms, e \in BOOLEAN, h \in Nat : Install(i, t, e, h)
            \/ \E S \in SUBSET Id : Remove(S)
<1>1. ASSUME NEW i \in Id, NEW t \in Terms, NEW e \in BOOLEAN, Add(i, t, e)
      PROVE  Edit /\ \E h \in Nat : Install(i, t, e, h)
  BY <1>1 DEF Add
<1>2. ASSUME NEW i \in Id, NEW t \in Terms, NEW e \in BOOLEAN, Update(i, t, e)
      PROVE  Edit /\ \E h \in Nat : Install(i, t, e, h)
  <2>. DEFINE old == <<i, rules[i]>>
  <2>1. rules[i] \in 1..Editions
    BY <1>2 DEF Update, TypeOK
  <2>2. hits[old] \in Nat
    BY <2>1, ObjFacts DEF TypeOK
  <2>3. \E h \in {0, hits[old]} : Install(i, t, e, h)
    BY <1>2 DEF Update
  <2>. QED BY <1>2, <2>2, <2>3 DEF Update
<1>3. ASSUME NEW S \in SUBSET Id, Remove(S)
      PROVE  Edit
  BY <1>3 DEF Remove
<1>. QED BY <1>1, <1>2, <1>3 DEF Handler

\* What the rules look like to a save, or to a listing.
LEMMA CurrentType ==
  ASSUME TypeOK PROVE Current \in [Id -> View \cup {NoRule}]
<1>1. ASSUME NEW i \in Id, rules[i] # 0
      PROVE  Shown(<<i, rules[i]>>) \in View
  <2>1. <<i, rules[i]>> \in Obj
    BY <1>1, ObjFacts DEF TypeOK
  <2>. QED BY <2>1 DEF TypeOK, Shown, View
<1>. QED BY <1>1 DEF Current

\* A step leaves every variable in its type.
LEMMA TypeStep ==
  ASSUME TypeOK, Compiled, Counted, Saves, [Next]_vars PROVE TypeOK'
<1>0. /\ Limits \subseteq Nat /\ Limits # {} /\ Editions \in Nat \ {0}
      /\ MaxClock \in Nat /\ MaxFaults \in Nat /\ MaxCrashes \in Nat
  BY ConstantsAssumption DEF ConstantsAssumption
<1>1. ASSUME NEW x \in Exchange, Evaluate(x)
      PROVE  TypeOK'
  <2>1. CASE Begin(x)
    <3>1. RuleSet \subseteq Obj
      BY DEF RuleSet
    <3>. QED BY <2>1, <3>1 DEF Begin, TypeOK, Where, compiled, saving
  <2>2. CASE Count(x)
    <3>1. at[x] = "chosen" /\ cur[x] \in Obj
      BY <2>2 DEF Count, Compiled
    <3>2. hits' \in [Obj -> Nat] /\ fired' \in [Obj -> Nat]
      BY <2>2, <3>1 DEF Count, TypeOK
    <3>3. at' \in [Exchange -> Where] /\ left' \in [Exchange -> SUBSET Obj]
      BY <2>2 DEF Count, TypeOK, Where
    <3>. QED BY <2>2, <3>2, <3>3 DEF Count, TypeOK, saving
  <2>3. CASE TakeBack(x)
    <3>1. at[x] = "over" /\ cur[x] \in Obj
      BY <2>3 DEF TakeBack, Compiled
    <3>2. Cardinality(Overs(cur[x])) \in Nat \ {0}
      BY <3>1, OversFinite, FS_EmptySet DEF Overs
    <3>5. hits[cur[x]] = inherited[cur[x]] + fired[cur[x]] + Cardinality(Overs(cur[x]))
      BY <3>1 DEF Counted
    <3>6. inherited[cur[x]] \in Nat /\ fired[cur[x]] \in Nat
      BY <3>1 DEF TypeOK
    <3>3. hits[cur[x]] \in Nat \ {0}
      BY <3>2, <3>5, <3>6
    <3>4. hits' \in [Obj -> Nat]
      BY <2>3, <3>1, <3>3 DEF TakeBack, TypeOK
    <3>. QED BY <2>3, <3>4 DEF TakeBack, TypeOK, Where, saving
  <2>4. CASE Disable(x)
    <3>1. on' \in [Obj -> BOOLEAN]
      BY <2>4 DEF Disable, TypeOK
    <3>. QED BY <2>4, <3>1 DEF Disable, TypeOK, Where, saving
  <2>5. CASE End(x)
    BY <2>5, <1>0 DEF End, TypeOK, Where, compiled, saving
  <2>6. ASSUME NEW o \in Obj, Skip(x, o)
        PROVE  TypeOK'
    BY <2>6 DEF Skip, TypeOK, compiled, saving
  <2>7. ASSUME NEW o \in Obj, Expire(x, o)
        PROVE  TypeOK'
    <3>1. reaped' \in [Obj -> BOOLEAN]
      BY <2>7 DEF Expire, TypeOK
    <3>. QED BY <2>7, <3>1 DEF Expire, TypeOK, saving
  <2>8. ASSUME NEW o \in Obj, Choose(x, o)
        PROVE  TypeOK'
    BY <2>8 DEF Choose, TypeOK, Where, compiled, saving
  <2>. QED BY <1>1, <2>1, <2>2, <2>3, <2>4, <2>5, <2>6, <2>7, <2>8 DEF Evaluate
<1>2. CASE Handler
  <2>1. Edit
    BY <1>2, HandlerForms
  <2>2. ASSUME NEW i \in Id, NEW t \in Terms, NEW e \in BOOLEAN, NEW h \in Nat,
               Install(i, t, e, h)
        PROVE  TypeOK'
    <3>1. <<i, made[i] + 1>> \in Obj
      BY <2>2, <1>0, ObjFacts DEF Install, TypeOK
    <3>2. made' \in [Id -> 0..Editions] /\ rules' \in [Id -> 0..Editions]
      BY <2>2, <1>0 DEF Install, TypeOK
    <3>3. /\ terms' \in [Obj -> Terms] /\ hits' \in [Obj -> Nat]
          /\ inherited' \in [Obj -> Nat]
      BY <2>2, <3>1 DEF Install, TypeOK
    <3>4. on' \in [Obj -> BOOLEAN]
      BY <2>2 DEF Install, TypeOK
    <3>. QED BY <2>1, <2>2, <3>2, <3>3, <3>4 DEF Edit, Install, TypeOK, exchange, saving
  <2>3. ASSUME NEW S \in SUBSET Id, Remove(S)
        PROVE  TypeOK'
    <3>1. rules' \in [Id -> 0..Editions]
      BY <2>3, <1>0 DEF Remove, TypeOK
    <3>. QED BY <2>3, <3>1 DEF Edit, Remove, TypeOK, exchange, saving
  <2>. QED BY <1>2, <2>2, <2>3, HandlerForms
<1>3. ASSUME NEW o \in Obj, Reap(o)
      PROVE  TypeOK'
  <2>1. rules' \in [Id -> 0..Editions]
    BY <1>3, <1>0, ObjFacts DEF Reap, TypeOK
  <2>. QED BY <1>3, <2>1 DEF Reap, TypeOK, exchange, saving
<1>4. ASSUME NEW who \in {"handler", "goroutine"}, Save(who)
      PROVE  TypeOK'
  <2>1. CASE Lock(who)
    BY <1>4, <2>1 DEF Lock, TypeOK, compiled, exchange
  <2>2. CASE Read(who)
    BY <1>4, <2>2, CurrentType DEF Read, TypeOK, compiled, exchange
  <2>3. CASE Write(who)
    <3>1. disk' \in [Id -> View \cup {NoRule}] /\ faults' \in 0..MaxFaults
      BY <2>3, <1>0 DEF Write, TypeOK
    <3>2. editing' \in BOOLEAN /\ failed' \in BOOLEAN
      BY <2>3 DEF Write, TypeOK
    <3>3. waiting' \in Nat
      BY <1>4, <2>3 DEF Write, TypeOK, Saves
    <3>. QED BY <2>3, <3>1, <3>2, <3>3 DEF Write, TypeOK, compiled, exchange
  <2>. QED BY <1>4, <2>1, <2>2, <2>3 DEF Save
<1>5. CASE Tick
  BY <1>5, <1>0 DEF Tick, TypeOK, compiled, exchange, saving
<1>6. ASSUME NEW f \in [Id -> View \cup {NoRule}], RestartFrom(f)
      PROVE  TypeOK'
  <2>1. /\ rules' \in [Id -> 0..Editions] /\ made' \in [Id -> 0..Editions]
        /\ crashes' \in 0..MaxCrashes
    BY <1>6, <1>0 DEF RestartFrom, TypeOK
  <2>2. ASSUME NEW o \in Obj, Loads(f, o[1])
        PROVE  f[o[1]].terms \in Terms /\ f[o[1]].hits \in Nat
    BY <2>2, ObjFacts DEF Loads, View
  <2>3. terms' \in [Obj -> Terms] /\ hits' \in [Obj -> Nat] /\ inherited' \in [Obj -> Nat]
    BY <1>6, <2>2 DEF RestartFrom, TypeOK
  <2>4. on' \in [Obj -> BOOLEAN] /\ reaped' \in [Obj -> BOOLEAN]
    BY <1>6 DEF RestartFrom
  <2>5. /\ at' \in [Exchange -> Where] /\ left' \in [Exchange -> SUBSET Obj]
        /\ cur' \in [Exchange -> Obj \cup {Nobody}] /\ seen' \in [Exchange -> 0..MaxClock]
        /\ fired' \in [Obj -> Nat]
    BY <1>6, <1>0 DEF RestartFrom, Where
  <2>6. editing' \in BOOLEAN /\ failed' \in BOOLEAN
    BY <1>6 DEF RestartFrom
  <2>. QED BY <1>6, <2>1, <2>3, <2>4, <2>5, <2>6 DEF RestartFrom, TypeOK
<1>7. CASE UNCHANGED vars
  BY <1>7 DEF TypeOK, vars, compiled, exchange, saving
<1>. QED
  BY <1>1, <1>2, <1>3, <1>4, <1>5, <1>6, <1>7, CurrentType
  DEF Next, Crash, Stop, TypeOK

-----------------------------------------------------------------------------
\* A step that compiles nothing and makes nobody work with an edition it had
\* not in its rule set.
LEMMA CompiledFrame ==
  ASSUME Compiled, made' = made, fired' = fired,
         \A i \in Id : rules'[i] = rules[i] \/ rules'[i] = 0,
         TypeOK, TypeOK',
         \A o \in reapers' : o \in reapers \/ o[2] <= made[o[1]],
         \A x \in Exchange : \A o \in left'[x] : o \in left[x] \/ o[2] <= made[o[1]],
         \A x \in Exchange :
           /\ cur'[x] = cur[x] \/ cur'[x] \in left[x] \/ cur'[x] = Nobody
           /\ at'[x] \in {"chosen", "over", "limit"} => cur'[x] \in Obj
  PROVE  Compiled'
<1>1. \A i \in Id : rules'[i] <= made'[i]
  BY SMTT(60) DEF Compiled, TypeOK
<1>2. ASSUME NEW o \in Obj, o[2] > made[o[1]]
      PROVE  Untouched(o)'
  <2>1. Untouched(o) /\ o[1] \in Id /\ o[2] \in Nat /\ made[o[1]] \in Nat /\ o # Nobody
    BY <1>2, ObjFacts, NoRuleAssumption, ConstantsAssumption
    DEF Compiled, TypeOK, NoRuleAssumption, ConstantsAssumption
  <2>2. o \notin reapers'
    BY <1>2, <2>1 DEF Untouched
  <2>3. \A x \in Exchange : o \notin left'[x] /\ cur'[x] # o
    BY <1>2, <2>1 DEF Untouched
  <2>. QED BY <2>1, <2>2, <2>3 DEF Untouched
<1>. QED BY <1>1, <1>2 DEF Compiled

\* A step leaves editions that are yet to come unknown.
LEMMA CompiledStep ==
  ASSUME TypeOK, TypeOK', Compiled, [Next]_vars PROVE Compiled'
<1>0. Editions \in Nat \ {0}
  BY ConstantsAssumption DEF ConstantsAssumption
<1>1. ASSUME NEW x \in Exchange, Evaluate(x)
      PROVE  Compiled'
  <2>1. CASE Begin(x)
    <3>1. \A o \in RuleSet : o[2] <= made[o[1]]
      BY ObjFacts DEF RuleSet, Compiled, TypeOK
    <3>2. \A z \in Exchange : \A o \in left'[z] : o \in left[z] \/ o[2] <= made[o[1]]
      BY <2>1, <3>1 DEF Begin, TypeOK
    <3>3. \A z \in Exchange :
            /\ cur'[z] = cur[z]
            /\ at'[z] \in {"chosen", "over", "limit"} => cur'[z] \in Obj
      BY <2>1 DEF Begin, TypeOK, Compiled
    <3>. QED BY <2>1, <3>2, <3>3, CompiledFrame DEF Begin, compiled
  <2>2. CASE Count(x)
    <3>1. at[x] = "chosen" /\ cur[x] \in Obj
      BY <2>2 DEF Count, Compiled
    <3>2. ASSUME NEW o \in Obj, o[2] > made[o[1]]
          PROVE  Untouched(o)'
      <4>1. Untouched(o) /\ cur[x] # o
        BY <3>2 DEF Compiled, Untouched
      <4>2. fired'[o] = 0
        BY <2>2, <3>1, <4>1 DEF Count, Untouched, TypeOK
      <4>3. \A z \in Exchange : left'[z] \subseteq left[z]
        BY <2>2 DEF Count, TypeOK
      <4>. QED BY <2>2, <4>1, <4>2, <4>3 DEF Count, Untouched
    <3>3. \A z \in Exchange :
            at'[z] \in {"chosen", "over", "limit"} => cur'[z] \in Obj
      BY <2>2, <3>1 DEF Count, Compiled, TypeOK
    <3>. QED BY <2>2, <3>2, <3>3 DEF Count, Compiled
  <2>3. CASE TakeBack(x)
    <3>1. \A z \in Exchange :
            at'[z] \in {"chosen", "over", "limit"} => cur'[z] \in Obj
      BY <2>3 DEF TakeBack, Compiled, TypeOK
    <3>. QED BY <2>3, <3>1, CompiledFrame DEF TakeBack
  <2>4. CASE Disable(x)
    <3>1. \A z \in Exchange :
            at'[z] \in {"chosen", "over", "limit"} => cur'[z] \in Obj
      BY <2>4 DEF Disable, Compiled, TypeOK
    <3>. QED BY <2>4, <3>1, CompiledFrame DEF Disable
  <2>5. CASE End(x)
    <3>1. \A z \in Exchange :
            /\ cur'[z] = cur[z] \/ cur'[z] = Nobody
            /\ at'[z] \in {"chosen", "over", "limit"} => cur'[z] \in Obj
      BY <2>5 DEF End, Compiled, TypeOK
    <3>. QED BY <2>5, <3>1, CompiledFrame DEF End, compiled
  <2>6. ASSUME NEW o \in Obj, Skip(x, o)
        PROVE  Compiled'
    <3>1. \A z \in Exchange : left'[z] \subseteq left[z]
      BY <2>6 DEF Skip, TypeOK
    <3>2. \A z \in Exchange : at[z] \in {"chosen", "over", "limit"} => cur[z] \in Obj
      BY DEF Compiled
    <3>. QED BY <2>6, <3>1, <3>2, CompiledFrame DEF Skip, compiled
  <2>7. ASSUME NEW o \in Obj, Expire(x, o)
        PROVE  Compiled'
    <3>1. \A z \in Exchange : left'[z] \subseteq left[z]
      BY <2>7 DEF Expire, TypeOK
    <3>2. \A z \in Exchange : at[z] \in {"chosen", "over", "limit"} => cur[z] \in Obj
      BY DEF Compiled
    <3>3. o[2] <= made[o[1]]
      BY <2>7, <1>0, ObjFacts DEF Expire, Compiled, Untouched, TypeOK
    <3>4. \A p \in reapers' : p \in reapers \/ p[2] <= made[p[1]]
      BY <2>7, <3>3 DEF Expire
    <3>. QED BY <2>7, <3>1, <3>2, <3>4, CompiledFrame DEF Expire
  <2>8. ASSUME NEW o \in Obj, Choose(x, o)
        PROVE  Compiled'
    <3>1. \A z \in Exchange : left'[z] \subseteq left[z]
      BY <2>8 DEF Choose, TypeOK
    <3>2. \A z \in Exchange :
            /\ cur'[z] = cur[z] \/ cur'[z] \in left[z]
            /\ at'[z] \in {"chosen", "over", "limit"} => cur'[z] \in Obj
      BY <2>8 DEF Choose, TypeOK, Compiled
    <3>. QED BY <2>8, <3>1, <3>2, CompiledFrame DEF Choose, compiled
  <2>. QED BY <1>1, <2>1, <2>2, <2>3, <2>4, <2>5, <2>6, <2>7, <2>8 DEF Evaluate
<1>2. CASE Handler
  <2>1. Edit
    BY <1>2, HandlerForms
  <2>2. ASSUME NEW i \in Id, NEW t \in Terms, NEW e \in BOOLEAN, NEW h \in Nat,
               Install(i, t, e, h)
        PROVE  Compiled'
    <3>1. \A j \in Id : rules'[j] <= made'[j] /\ made[j] <= made'[j]
      BY <2>2, <1>0 DEF Install, Compiled, TypeOK
    <3>2. ASSUME NEW o \in Obj, o[2] > made'[o[1]]
          PROVE  Untouched(o)
      BY <3>1, <3>2, <1>0, ObjFacts DEF Compiled, TypeOK
    <3>. QED BY <2>1, <2>2, <3>1, <3>2 DEF Install, Edit, exchange, Compiled, Untouched
  <2>3. ASSUME NEW S \in SUBSET Id, Remove(S)
        PROVE  Compiled'
    <3>1. \A j \in Id : rules'[j] = rules[j] \/ rules'[j] = 0
      BY <2>3 DEF Remove
    <3>2. \A z \in Exchange : at[z] \in {"chosen", "over", "limit"} => cur[z] \in Obj
      BY DEF Compiled
    <3>. QED BY <2>1, <2>3, <3>1, <3>2, CompiledFrame DEF Remove, Edit, exchange
  <2>. QED BY <1>2, <2>2, <2>3, HandlerForms
<1>3. ASSUME NEW o \in Obj, Reap(o)
      PROVE  Compiled'
  <2>1. \A j \in Id : rules'[j] = rules[j] \/ rules'[j] = 0
    BY <1>3, ObjFacts DEF Reap, TypeOK
  <2>2. \A z \in Exchange : at[z] \in {"chosen", "over", "limit"} => cur[z] \in Obj
    BY DEF Compiled
  <2>. QED BY <1>3, <2>1, <2>2, CompiledFrame DEF Reap, exchange
<1>4. ASSUME NEW who \in {"handler", "goroutine"}, Save(who)
      PROVE  Compiled'
  <2>1. UNCHANGED <<compiled, exchange, reapers>>
    BY <1>4 DEF Save, Lock, Read, Write
  <2>. QED BY <2>1 DEF compiled, exchange, Compiled, Untouched
<1>5. CASE Tick
  BY <1>5 DEF Tick, compiled, exchange, Compiled, Untouched
<1>6. ASSUME NEW f \in [Id -> View \cup {NoRule}], RestartFrom(f)
      PROVE  Compiled'
  <2>1. \A i \in Id : rules'[i] \in {0, 1} /\ made'[i] = rules'[i]
    BY <1>6 DEF RestartFrom
  <2>. QED BY <1>6, <2>1, NoRuleAssumption
       DEF RestartFrom, Compiled, Untouched, NoRuleAssumption
<1>7. CASE UNCHANGED vars
  BY <1>7 DEF vars, compiled, exchange, Compiled, Untouched
<1>. QED
  BY <1>1, <1>2, <1>3, <1>4, <1>5, <1>6, <1>7, CurrentType
  DEF Next, Crash, Stop, TypeOK

-----------------------------------------------------------------------------
\* A step that touches no counter, and nobody who is past a limit.
LEMMA CountedFrame ==
  ASSUME Counted, UNCHANGED <<hits, inherited, fired>>,
         \A z \in Exchange : (at[z] = "over" \/ at'[z] = "over") =>
                               at'[z] = at[z] /\ cur'[z] = cur[z]
  PROVE  Counted'
<1>1. ASSUME NEW o \in Obj PROVE Overs(o)' = Overs(o)
  BY DEF Overs
<1>. QED BY <1>1 DEF Counted

\* A step keeps the books of every edition.
LEMMA CountedStep ==
  ASSUME TypeOK, TypeOK', Compiled, Counted, [Next]_vars PROVE Counted'
<1>0. Editions \in Nat \ {0}
  BY ConstantsAssumption DEF ConstantsAssumption
<1>1. ASSUME NEW x \in Exchange, Evaluate(x)
      PROVE  Counted'
  <2>1. CASE Begin(x)
    BY <2>1, CountedFrame DEF Begin, TypeOK, compiled
  <2>2. CASE Count(x)
    <3>0. PICK c \in Obj : c = cur[x]
      BY <2>2 DEF Count, Compiled
    <3>. DEFINE n == hits[c] + 1
    <3>1. at[x] = "chosen" /\ c = cur[x]
      BY <2>2, <3>0 DEF Count
    <3>2. /\ \A o \in Obj : hits'[o] = IF o = c THEN hits[o] + 1 ELSE hits[o]
          /\ cur' = cur /\ inherited' = inherited
      BY <2>2, <3>1 DEF Count, TypeOK
    <3>3. CASE Spent(n, terms[c].max)
      <4>1. at' = [at EXCEPT ![x] = "over"] /\ fired' = fired
        BY <2>2, <3>1, <3>3 DEF Count
      <4>2. \A o \in Obj : Overs(o)' = IF o = c THEN Overs(o) \cup {x} ELSE Overs(o)
        BY <4>1, <3>2, <3>1 DEF Overs, TypeOK
      <4>3. IsFiniteSet(Overs(c)) /\ x \notin Overs(c)
        BY <3>1, OversFinite DEF Overs
      <4>4. Cardinality(Overs(c)') = Cardinality(Overs(c)) + 1
        BY <3>1, <4>2, <4>3, FS_AddElement
      <4>5. ASSUME NEW o \in Obj
            PROVE  hits'[o] = inherited'[o] + fired'[o] + Cardinality(Overs(o)')
        <5>1. Cardinality(Overs(o)) \in Nat
          BY OversFinite DEF Overs
        <5>2. hits[o] = inherited[o] + fired[o] + Cardinality(Overs(o))
          BY DEF Counted
        <5>. QED BY <3>2, <4>1, <4>2, <4>4, <5>1, <5>2 DEF TypeOK
      <4>. QED BY <4>5 DEF Counted
    <3>4. CASE ~Spent(n, terms[c].max)
      <4>1. /\ at' = [at EXCEPT ![x] = IF n = terms[c].max THEN "limit" ELSE "walk"]
            /\ fired' = [fired EXCEPT ![c] = @ + 1]
        BY <2>2, <3>1, <3>4 DEF Count
      <4>2. \A o \in Obj : Overs(o)' = Overs(o)
        BY <4>1, <3>2, <3>1 DEF Overs, TypeOK
      <4>3. ASSUME NEW o \in Obj
            PROVE  hits'[o] = inherited'[o] + fired'[o] + Cardinality(Overs(o)')
        <5>1. Cardinality(Overs(o)) \in Nat
          BY OversFinite DEF Overs
        <5>2. hits[o] = inherited[o] + fired[o] + Cardinality(Overs(o))
          BY DEF Counted
        <5>. QED BY <3>2, <4>1, <4>2, <5>1, <5>2 DEF TypeOK
      <4>. QED BY <4>3 DEF Counted
    <3>. QED BY <3>3, <3>4
  <2>3. CASE TakeBack(x)
    <3>0. PICK c \in Obj : c = cur[x]
      BY <2>3 DEF TakeBack, Compiled
    <3>1. at[x] = "over" /\ c = cur[x]
      BY <2>3, <3>0 DEF TakeBack
    <3>2. /\ \A o \in Obj : hits'[o] = IF o = c THEN hits[o] - 1 ELSE hits[o]
          /\ cur' = cur /\ inherited' = inherited /\ fired' = fired
          /\ at' = [at EXCEPT ![x] = "walk"]
      BY <2>3, <3>1 DEF TakeBack, TypeOK
    <3>3. \A o \in Obj : Overs(o)' = IF o = c THEN Overs(o) \ {x} ELSE Overs(o)
      BY <3>1, <3>2 DEF Overs, TypeOK
    <3>4. IsFiniteSet(Overs(c)) /\ x \in Overs(c)
      BY <3>1, OversFinite DEF Overs
    <3>5. Cardinality(Overs(c)') = Cardinality(Overs(c)) - 1
      BY <3>1, <3>3, <3>4, FS_RemoveElement
    <3>6. ASSUME NEW o \in Obj
          PROVE  hits'[o] = inherited'[o] + fired'[o] + Cardinality(Overs(o)')
      <4>1. Cardinality(Overs(o)) \in Nat
        BY OversFinite DEF Overs
      <4>2. hits[o] = inherited[o] + fired[o] + Cardinality(Overs(o))
        BY DEF Counted
      <4>. QED BY <3>2, <3>3, <3>5, <4>1, <4>2 DEF TypeOK
    <3>. QED BY <3>6 DEF Counted
  <2>4. CASE Disable(x)
    BY <2>4, CountedFrame DEF Disable, TypeOK
  <2>5. CASE End(x)
    BY <2>5, CountedFrame DEF End, TypeOK, compiled
  <2>6. ASSUME NEW o \in Obj, Skip(x, o) \/ Expire(x, o)
        PROVE  Counted'
    BY <2>6, CountedFrame DEF Skip, Expire, compiled
  <2>7. ASSUME NEW o \in Obj, Choose(x, o)
        PROVE  Counted'
    BY <2>7, CountedFrame DEF Choose, TypeOK, compiled
  <2>. QED BY <1>1, <2>1, <2>2, <2>3, <2>4, <2>5, <2>6, <2>7 DEF Evaluate
<1>2. CASE Handler
  <2>1. Edit
    BY <1>2, HandlerForms
  <2>2. ASSUME NEW i \in Id, NEW t \in Terms, NEW e \in BOOLEAN, NEW h \in Nat,
               Install(i, t, e, h)
        PROVE  Counted'
    <3>. DEFINE p == <<i, made[i] + 1>>
    <3>1. p \in Obj /\ p[2] > made[p[1]]
      BY <2>2, <1>0, ObjFacts DEF Install, TypeOK
    <3>2. fired[p] = 0 /\ Overs(p) = {}
      BY <3>1 DEF Compiled, Untouched, Overs
    <3>3. \A o \in Obj : /\ hits'[o] = IF o = p THEN h ELSE hits[o]
                         /\ inherited'[o] = IF o = p THEN h ELSE inherited[o]
                         /\ fired'[o] = fired[o]
      BY <2>2 DEF Install, TypeOK
    <3>4. \A o \in Obj : Overs(o)' = Overs(o)
      BY <2>1 DEF Edit, exchange, Overs
    <3>5. Cardinality(Overs(p)) = 0
      BY <3>2, FS_EmptySet
    <3>6. ASSUME NEW o \in Obj
          PROVE  hits'[o] = inherited'[o] + fired'[o] + Cardinality(Overs(o)')
      BY <3>2, <3>3, <3>4, <3>5 DEF Counted
    <3>. QED BY <3>6 DEF Counted
  <2>3. ASSUME NEW S \in SUBSET Id, Remove(S)
        PROVE  Counted'
    BY <2>1, <2>3, CountedFrame DEF Edit, Remove, exchange
  <2>. QED BY <1>2, <2>2, <2>3, HandlerForms
<1>3. ASSUME NEW o \in Obj, Reap(o)
      PROVE  Counted'
  BY <1>3, CountedFrame DEF Reap, exchange
<1>4. ASSUME NEW who \in {"handler", "goroutine"}, Save(who)
      PROVE  Counted'
  BY <1>4, CountedFrame DEF Save, Lock, Read, Write, compiled, exchange
<1>5. CASE Tick
  BY <1>5, CountedFrame DEF Tick, compiled, exchange
<1>6. ASSUME NEW f \in [Id -> View \cup {NoRule}], RestartFrom(f)
      PROVE  Counted'
  <2>1. ASSUME NEW o \in Obj
        PROVE  hits'[o] = inherited'[o] + fired'[o] + Cardinality(Overs(o)')
    <3>1. Overs(o)' = {}
      BY <1>6 DEF RestartFrom, Overs
    <3>2. fired'[o] = 0 /\ inherited' = hits' /\ hits'[o] \in Nat
      BY <1>6 DEF RestartFrom, TypeOK
    <3>. QED BY <3>1, <3>2, FS_EmptySet
  <2>. QED BY <2>1 DEF Counted
<1>7. CASE UNCHANGED vars
  BY <1>7, CountedFrame DEF vars, compiled, exchange
<1>. QED
  BY <1>1, <1>2, <1>3, <1>4, <1>5, <1>6, <1>7, CurrentType
  DEF Next, Crash, Stop, TypeOK

-----------------------------------------------------------------------------
\* A step fires an edition only while its counter says it may.
LEMMA LimitStep ==
  ASSUME TypeOK, Compiled, Counted, LimitKept, [Next]_vars PROVE LimitKept'
<1>0. Editions \in Nat \ {0} /\ Limits \subseteq Nat
  BY ConstantsAssumption DEF ConstantsAssumption
<1>1. ASSUME NEW x \in Exchange, Evaluate(x)
      PROVE  LimitKept'
  <2>1. CASE Count(x)
    <3>1. PICK c \in Obj : c = cur[x]
      BY <2>1 DEF Count, Compiled
    <3>2. terms' = terms /\ inherited' = inherited
      BY <2>1 DEF Count
    <3>3. CASE fired' = fired
      BY <3>2, <3>3 DEF LimitKept
    <3>4. CASE fired' # fired
      <4>1. ~Spent(hits[c] + 1, terms[c].max) /\ fired' = [fired EXCEPT ![c] = @ + 1]
        BY <2>1, <3>1, <3>4 DEF Count
      <4>2. /\ Cardinality(Overs(c)) \in Nat
            /\ hits[c] = inherited[c] + fired[c] + Cardinality(Overs(c))
        BY OversFinite DEF Overs, Counted
      <4>3. terms[c].max \in Nat
        BY <1>0 DEF TypeOK, Terms
      <4>4. terms[c].max > 0 => inherited[c] + fired'[c] <= terms[c].max
        BY <4>1, <4>2, <4>3 DEF Spent, TypeOK
      <4>. QED BY <3>2, <4>1, <4>4 DEF LimitKept, TypeOK
    <3>. QED BY <3>3, <3>4
  <2>2. CASE ~Count(x)
    <3>1. UNCHANGED <<terms, fired, inherited>>
      BY <1>1, <2>2
      DEF Evaluate, Begin, TakeBack, Disable, End, Skip, Expire, Choose, compiled
    <3>. QED BY <3>1 DEF LimitKept
  <2>. QED BY <2>1, <2>2
<1>2. CASE Handler
  <2>1. ASSUME NEW i \in Id, NEW t \in Terms, NEW e \in BOOLEAN, NEW h \in Nat,
               Install(i, t, e, h)
        PROVE  LimitKept'
    <3>. DEFINE p == <<i, made[i] + 1>>
    <3>1. p \in Obj /\ p[2] > made[p[1]]
      BY <2>1, <1>0, ObjFacts DEF Install, TypeOK
    <3>2. fired[p] = 0 /\ fired' = fired
      BY <2>1, <3>1 DEF Install, Compiled, Untouched
    <3>3. \A o \in Obj : o # p => terms'[o] = terms[o] /\ inherited'[o] = inherited[o]
      BY <2>1 DEF Install, TypeOK
    <3>. QED BY <3>2, <3>3 DEF LimitKept
  <2>2. ASSUME NEW S \in SUBSET Id, Remove(S)
        PROVE  LimitKept'
    BY <2>2 DEF Remove, LimitKept
  <2>. QED BY <1>2, <2>1, <2>2, HandlerForms
<1>3. CASE \/ \E o \in Obj : Reap(o)
           \/ \E who \in {"handler", "goroutine"} : Save(who)
           \/ Tick \/ UNCHANGED vars
  <2>1. UNCHANGED <<terms, fired, inherited>>
    BY <1>3 DEF Reap, Save, Lock, Read, Write, Tick, vars, compiled
  <2>. QED BY <2>1 DEF LimitKept
<1>4. ASSUME NEW f \in [Id -> View \cup {NoRule}], RestartFrom(f)
      PROVE  LimitKept'
  BY <1>4 DEF RestartFrom, LimitKept
<1>. QED
  BY <1>1, <1>2, <1>3, <1>4, CurrentType DEF Next, Crash, Stop, TypeOK

\* A step of the clock aside, no exchange learns the time before it has come.
LEMMA TimelyStep ==
  ASSUME TypeOK, Compiled, Timely, [Next]_vars PROVE Timely'
<1>0. /\ Editions \in Nat \ {0} /\ MaxClock \in Nat
      /\ \A o \in Obj : terms[o].expires \in Nat
  BY ConstantsAssumption DEF ConstantsAssumption, TypeOK, Terms, Never
<1>1. ASSUME NEW x \in Exchange, Evaluate(x)
      PROVE  Timely'
  <2>1. terms' = terms /\ clock' = clock
    BY <1>1
    DEF Evaluate, Begin, Count, TakeBack, Disable, End, Skip, Expire, Choose, compiled
  <2>2. \A z \in Exchange : seen'[z] <= clock
    BY <1>1, <1>0
    DEF Evaluate, Begin, Count, TakeBack, Disable, End, Skip, Expire, Choose,
        Timely, TypeOK
  <2>3. ASSUME NEW o \in reapers'
        PROVE  Expired(terms[o])
    <3>1. CASE o \in reapers
      BY <3>1 DEF Timely
    <3>2. CASE o \notin reapers
      <4>1. o \in Obj /\ Expire(x, o)
        BY <1>1, <3>2
        DEF Evaluate, Begin, Count, TakeBack, Disable, End, Skip, Expire, Choose
      <4>. QED BY <4>1, <1>0 DEF Expire, Timely, Expired, TypeOK
    <3>. QED BY <3>1, <3>2
  <2>. QED BY <2>1, <2>2, <2>3 DEF Timely, Expired
<1>2. CASE Handler
  <2>1. Edit
    BY <1>2, HandlerForms
  <2>2. ASSUME NEW i \in Id, NEW t \in Terms, NEW e \in BOOLEAN, NEW h \in Nat,
               Install(i, t, e, h)
        PROVE  \A o \in reapers : terms'[o] = terms[o]
    <3>. DEFINE p == <<i, made[i] + 1>>
    <3>1. p \in Obj /\ p[2] > made[p[1]]
      BY <2>2, <1>0, ObjFacts DEF Install, TypeOK
    <3>2. p \notin reapers
      BY <3>1 DEF Compiled, Untouched
    <3>. QED BY <2>2, <3>2 DEF Install, TypeOK
  <2>3. \A o \in reapers : terms'[o] = terms[o]
    BY <1>2, <2>2, HandlerForms DEF Remove
  <2>. QED BY <2>1, <2>3 DEF Edit, exchange, Timely, Expired
<1>3. CASE \/ \E o \in Obj : Reap(o)
           \/ \E who \in {"handler", "goroutine"} : Save(who)
           \/ UNCHANGED vars
  <2>1. UNCHANGED <<terms, seen, clock>> /\ reapers' \subseteq reapers
    BY <1>3 DEF Reap, Save, Lock, Read, Write, vars, compiled, exchange
  <2>. QED BY <2>1 DEF Timely, Expired
<1>4. CASE Tick
  <2>1. UNCHANGED <<terms, seen, reapers>> /\ clock' = clock + 1
    BY <1>4 DEF Tick, compiled, exchange
  <2>. QED BY <2>1, <1>0 DEF Timely, Expired, TypeOK
<1>5. ASSUME NEW f \in [Id -> View \cup {NoRule}], RestartFrom(f)
      PROVE  Timely'
  BY <1>5 DEF RestartFrom, Timely, TypeOK
<1>. QED
  BY <1>1, <1>2, <1>3, <1>4, <1>5, CurrentType DEF Next, Crash, Stop, TypeOK

-----------------------------------------------------------------------------
\* What a save writes, had it read the rules now.
LEMMA CurrentAgrees ==
  ASSUME TypeOK PROVE Agrees(Current) /\ Fresh(Current)
<1>0. Editions \in Nat \ {0}
  BY ConstantsAssumption DEF ConstantsAssumption
<1>1. \A i \in Id : rules[i] # 0 => <<i, rules[i]>> \in Obj
  BY ObjFacts DEF TypeOK
<1>2. \A o \in Obj : Shown(o) \in View
  BY DEF Shown, View, TypeOK
<1>3. \A o \in Obj : Shown(o) # NoRule
  BY <1>2, NoRuleAssumption DEF NoRuleAssumption
<1>4. Agrees(Current)
  BY <1>1, <1>3 DEF Agrees, Current, Shown
<1>5. ASSUME NEW o \in RuleSet
      PROVE  Current[o[1]] # NoRule /\ Current[o[1]].on = on[o]
  <2>1. o \in Obj /\ o[1] \in Id /\ rules[o[1]] # 0 /\ o = <<o[1], rules[o[1]]>>
    BY <1>0, ObjFacts DEF RuleSet
  <2>2. Current[o[1]] = Shown(o)
    BY <2>1 DEF Current
  <2>. QED BY <2>1, <2>2, <1>3 DEF Shown
<1>. QED BY <1>4, <1>5 DEF Fresh

\* A step that touches nothing of what is saved.
LEMMA SavesFrame ==
  ASSUME Saves, UNCHANGED <<rules, terms, on, editing, saving, waiting, clock>>
  PROVE  Saves'
BY DEF Saves, saving, Agrees, Fresh, RuleSet, Expired

\* A step leaves the file, and what is about to be written, up to date as far
\* as edits have been answered.
LEMMA SavesStep ==
  ASSUME TypeOK, TypeOK', Compiled, Timely, Saves, [Next]_vars PROVE Saves'
<1>0. Editions \in Nat \ {0}
  BY ConstantsAssumption DEF ConstantsAssumption
<1>1. ASSUME NEW x \in Exchange, Evaluate(x)
      PROVE  Saves'
  <2>1. CASE Disable(x)
    <3>1. at[x] = "limit" /\ cur[x] \in Obj
      BY <2>1 DEF Disable, Compiled
    <3>2. UNCHANGED <<rules, terms, editing, saving, clock>>
      BY <2>1 DEF Disable
    <3>3. CASE on[cur[x]]
      <4>1. waiting' = waiting + 1
        BY <2>1, <3>3 DEF Disable
      <4>. QED BY <3>2, <4>1 DEF Saves, saving, Agrees, Expired, TypeOK
    <3>4. CASE ~on[cur[x]]
      <4>1. waiting' = waiting /\ \A o \in Obj : on'[o] = on[o]
        BY <2>1, <3>4 DEF Disable, TypeOK
      <4>2. \A f : Fresh(f) => (\A o \in RuleSet' : f[o[1]] # NoRule /\ f[o[1]].on = on'[o])
        BY <3>2, <4>1 DEF Fresh, RuleSet
      <4>. QED BY <3>2, <4>1, <4>2 DEF Saves, saving, Agrees, Fresh, Expired
    <3>. QED BY <3>3, <3>4
  <2>2. CASE ~Disable(x)
    <3>1. UNCHANGED <<rules, terms, on, editing, saving, waiting, clock>>
      BY <1>1, <2>2
      DEF Evaluate, Begin, Count, TakeBack, End, Skip, Expire, Choose, compiled
    <3>. QED BY <3>1, SavesFrame
  <2>. QED BY <2>1, <2>2
<1>2. CASE Handler
  <2>1. Edit
    BY <1>2, HandlerForms
  <2>. QED BY <2>1 DEF Edit, Saves, saving
<1>3. ASSUME NEW o \in Obj, Reap(o)
      PROVE  Saves'
  <2>1. /\ waiting' = waiting + 1 /\ ~editing
        /\ UNCHANGED <<terms, saving, editing, clock>>
    BY <1>3 DEF Reap
  <2>2. \A i \in Id : rules'[i] # rules[i] =>
          rules'[i] = 0 /\ rules[i] # 0 /\ Expired(terms[<<i, rules[i]>>])
    <3>1. o[1] \in Id /\ o[2] # 0 /\ o = <<o[1], o[2]>> /\ Expired(terms[o])
      BY <1>3, <1>0, ObjFacts DEF Reap, Timely
    <3>. QED BY <1>3, <3>1 DEF Reap, TypeOK
  <2>3. ASSUME NEW f, Agrees(f)
        PROVE  \A i \in Id :
                 IF rules'[i] = 0 THEN f[i] = NoRule \/ Expired(f[i].terms)
                 ELSE f[i] # NoRule /\ f[i].terms = terms'[<<i, rules'[i]>>]
    BY <2>1, <2>2, <2>3 DEF Agrees, Expired
  <2>4. Agrees(disk) => Agrees(disk)'
    BY <2>1, <2>3 DEF Agrees, Expired, saving
  <2>5. Agrees(image) => Agrees(image)'
    BY <2>1, <2>3 DEF Agrees, Expired, saving
  <2>. QED BY <2>1, <2>4, <2>5 DEF Saves, saving, TypeOK
<1>4. ASSUME NEW who \in {"handler", "goroutine"}, Save(who)
      PROVE  Saves'
  <2>0. UNCHANGED <<rules, terms, on, clock>>
    BY <1>4 DEF Save, Lock, Read, Write, compiled
  <2>1. CASE Lock(who)
    BY <2>0, <2>1 DEF Lock, Wants, Saves, Agrees, Fresh, RuleSet, Expired
  <2>2. CASE Read(who)
    <3>1. image' = Current /\ UNCHANGED <<saver, disk, failed, editing, waiting>>
      BY <2>2 DEF Read
    <3>2. Agrees(image)' /\ Fresh(image)'
      BY <2>0, <3>1, CurrentAgrees DEF Agrees, Fresh, RuleSet, Expired
    <3>3. (Agrees(disk) => Agrees(disk)') /\ (Fresh(disk) => Fresh(disk)')
      BY <2>0, <3>1 DEF Agrees, Fresh, RuleSet, Expired
    <3>. QED BY <2>2, <3>1, <3>2, <3>3 DEF Read, Saves
  <2>3. CASE Write(who)
    <3>1. saver = who /\ image # NoImage /\ saver' = "none" /\ image' = NoImage
      BY <2>3 DEF Write
    <3>2. CASE failed'
      BY <3>1, <3>2 DEF Saves
    <3>3. CASE ~failed'
      <4>1. disk' = image
        BY <2>3, <3>3 DEF Write
      <4>2. (Agrees(image) => Agrees(disk)') /\ (Fresh(image) => Fresh(disk)')
        BY <2>0, <4>1 DEF Agrees, Fresh, RuleSet, Expired
      <4>3. CASE who = "handler"
        <5>1. waiting' = waiting /\ Agrees(image)
          BY <2>3, <3>1, <4>3 DEF Write, Saves
        <5>. QED BY <3>1, <4>2, <4>3, <5>1 DEF Saves
      <4>4. CASE who = "goroutine"
        <5>1. waiting' = waiting - 1 /\ editing' = editing /\ waiting \in Nat
          BY <2>3, <4>4 DEF Write, TypeOK
        <5>2. ~editing => Agrees(image)
          BY <3>1 DEF Saves
        <5>3. ~editing /\ waiting = 1 => Fresh(image)
          BY <3>1, <4>4 DEF Saves
        <5>. QED BY <3>1, <4>2, <5>1, <5>2, <5>3 DEF Saves
      <4>. QED BY <4>3, <4>4
    <3>. QED BY <3>2, <3>3
  <2>. QED BY <1>4, <2>1, <2>2, <2>3 DEF Save
<1>5. CASE Tick
  <2>1. UNCHANGED <<rules, terms, on, editing, saving, waiting>> /\ clock' = clock + 1
    BY <1>5 DEF Tick, compiled
  <2>2. ASSUME NEW f \in [Id -> View \cup {NoRule}], Agrees(f)
        PROVE  \A i \in Id :
                 IF rules'[i] = 0 THEN f[i] = NoRule \/ Expired(f[i].terms)'
                 ELSE f[i] # NoRule /\ f[i].terms = terms'[<<i, rules'[i]>>]
    <3>1. \A i \in Id : f[i] # NoRule => f[i].terms.expires \in Nat
      BY ConstantsAssumption DEF ConstantsAssumption, View, Terms, Never
    <3>. QED BY <2>1, <2>2, <3>1 DEF Agrees, Expired, TypeOK
  <2>3. Agrees(disk) => Agrees(disk)'
    BY <2>1, <2>2 DEF Agrees, Expired, saving, TypeOK
  <2>4. image # NoImage /\ Agrees(image) => Agrees(image)'
    BY <2>1, <2>2 DEF Agrees, Expired, saving, TypeOK
  <2>5. (Fresh(disk) => Fresh(disk)') /\ (Fresh(image) => Fresh(image)')
    BY <2>1 DEF Fresh, RuleSet, saving
  <2>. QED BY <2>1, <2>3, <2>4, <2>5 DEF Saves, saving
<1>6. ASSUME NEW f \in [Id -> View \cup {NoRule}], RestartFrom(f)
      PROVE  Saves'
  <2>1. /\ ~editing' /\ saver' = "none" /\ image' = NoImage
        /\ disk' = f /\ clock' = clock
        /\ \A i \in Id : rules'[i] = IF Loads(f, i) THEN 1 ELSE 0
        /\ \A o \in Obj : Loads(f, o[1]) => terms'[o] = f[o[1]].terms
    BY <1>6 DEF RestartFrom
  <2>4. ASSUME NEW o \in Obj, Loads(f, o[1])
        PROVE  on'[o] = f[o[1]].on
    <3>1. f[o[1]].on \in BOOLEAN
      BY <2>4, ObjFacts DEF Loads, View
    <3>2. on'[o] = (Loads(f, o[1]) /\ f[o[1]].on)
      BY <1>6 DEF RestartFrom
    <3>. QED BY <2>4, <3>1, <3>2
  <2>2. Agrees(disk)'
    <3>1. \A i \in Id : <<i, 1>> \in Obj /\ <<i, 1>>[1] = i
      BY <1>0, ObjFacts
    <3>2. \A i \in Id : f[i] # NoRule => f[i].terms.expires \in Nat
      BY ConstantsAssumption DEF ConstantsAssumption, View, Terms, Never
    <3>. QED BY <2>1, <3>1, <3>2 DEF Agrees, Expired, Loads, TypeOK
  <2>3. Fresh(disk)'
    <3>1. ASSUME NEW o \in Obj, rules'[o[1]] = o[2]
          PROVE  Loads(f, o[1])
      BY <2>1, <3>1, <1>0, ObjFacts
    <3>. QED BY <2>1, <2>4, <3>1 DEF Fresh, RuleSet, Loads
  <2>. QED BY <2>1, <2>2, <2>3 DEF Saves
<1>7. CASE UNCHANGED vars
  BY <1>7, SavesFrame DEF vars, compiled
<1>. QED
  BY <1>1, <1>2, <1>3, <1>4, <1>5, <1>6, <1>7, CurrentType
  DEF Next, Crash, Stop, TypeOK

-----------------------------------------------------------------------------
\* Inv is inductive.
LEMMA Invariance == Spec => []Inv
<1>1. Init => Inv
  BY InitInv
<1>2. Inv /\ [Next]_vars => Inv'
  <2>. SUFFICES ASSUME Inv, [Next]_vars PROVE Inv'
    OBVIOUS
  <2>1. TypeOK'
    BY TypeStep DEF Inv
  <2>2. Compiled' /\ Counted' /\ LimitKept' /\ Timely' /\ Saves'
    BY <2>1, CompiledStep, CountedStep, LimitStep, TimelyStep, SavesStep DEF Inv
  <2>. QED BY <2>1, <2>2 DEF Inv
<1>. QED BY <1>1, <1>2, PTL DEF Spec

\* Every variable of the engine stays in its type.
THEOREM TypeCorrect == Spec => []TypeOK
<1>1. Inv => TypeOK
  BY DEF Inv
<1>. QED BY <1>1, Invariance, PTL

\* However many exchanges count a hit of a rule at the same moment, before and
\* after edits and restarts, it never fires past its max_hits (apply.go, fire).
THEOREM LimitHolds == Spec => []LimitKept
<1>1. Inv => LimitKept
  BY DEF Inv
<1>. QED BY <1>1, Invariance, PTL

\* Once a handler has answered, rules.json has the rules there are: no save of
\* an older set is written after it (engine.go, save).
THEOREM AckedHolds == Spec => []AckedIsDurable
<1>1. Inv => AckedIsDurable
  BY DEF Inv, Saves, Agrees, AckedIsDurable
<1>. QED BY <1>1, Invariance, PTL

\* Once the goroutines are through as well, it says which of them are on: a
\* rule that has used itself up stays off (engine.go, disable).
THEOREM RestHolds == Spec => []RestIsDurable
<1>1. Inv => RestIsDurable
  BY DEF Inv, Saves, Fresh, RestIsDurable, AtRest
<1>. QED BY <1>1, Invariance, PTL

\* No goroutine removes a rule that has been renewed since, and no restart
\* loses one whose edit has been answered (engine.go, reap and load).
THEOREM StayHolds == Spec => RulesStay
<1>. DEFINE Stay == \A i \in Id : rules[i] # 0 /\ rules'[i] = 0 =>
                      \/ ~editing /\ editing'
                      \/ Expired(terms[<<i, rules[i]>>])
                      \/ crashes' # crashes /\ (editing \/ failed)
<1>1. Inv /\ [Next]_vars => [Stay]_vars
  <2>. SUFFICES ASSUME Inv, [Next]_vars, NEW i \in Id, rules[i] # 0, rules'[i] = 0
                PROVE  \/ ~editing /\ editing'
                       \/ Expired(terms[<<i, rules[i]>>])
                       \/ crashes' # crashes /\ (editing \/ failed)
    OBVIOUS
  <2>0. TypeOK /\ Timely /\ Saves
    BY DEF Inv
  <2>1. CASE Handler
    BY <2>0, <2>1, HandlerForms DEF Edit
  <2>2. ASSUME NEW o \in Obj, Reap(o)
        PROVE  Expired(terms[<<i, rules[i]>>])
    <3>1. o[1] \in Id /\ o = <<o[1], o[2]>> /\ Expired(terms[o])
      BY <2>0, <2>2, ObjFacts DEF Reap, Timely
    <3>. QED BY <2>0, <2>2, <3>1 DEF Reap, TypeOK
  <2>3. CASE \/ \E x \in Exchange : Evaluate(x)
             \/ \E who \in {"handler", "goroutine"} : Save(who)
             \/ Tick \/ UNCHANGED vars
    <3>1. rules' = rules
      BY <2>3
      DEF Evaluate, Begin, Count, TakeBack, Disable, End, Skip, Expire, Choose,
          Save, Lock, Read, Write, Tick, compiled, vars
    <3>. QED BY <3>1
  <2>4. ASSUME NEW f \in [Id -> View \cup {NoRule}], RestartFrom(f), Agrees(f)
        PROVE  Expired(terms[<<i, rules[i]>>])
    <3>1. ~Loads(f, i)
      BY <2>4 DEF RestartFrom
    <3>2. f[i] # NoRule /\ f[i].terms = terms[<<i, rules[i]>>]
      BY <2>4 DEF Agrees
    <3>3. f[i].terms.expires \in Nat /\ clock \in Nat
      BY <2>0, <3>2, ConstantsAssumption
      DEF ConstantsAssumption, View, Terms, Never, TypeOK
    <3>. QED BY <3>1, <3>2, <3>3 DEF Loads, Expired
  <2>5. CASE Stop
    BY <2>0, <2>4, <2>5, CurrentType, CurrentAgrees DEF Stop
  <2>6. CASE Crash
    <3>1. CASE editing \/ failed
      BY <2>0, <2>6, <3>1 DEF Crash, RestartFrom, TypeOK
    <3>2. CASE ~editing /\ ~failed
      BY <2>0, <2>4, <2>6, <3>2 DEF Crash, Saves, TypeOK
    <3>. QED BY <3>1, <3>2
  <2>. QED BY <2>1, <2>2, <2>3, <2>5, <2>6 DEF Next
<1>. QED BY <1>1, Invariance, PTL DEF Spec, RulesStay
=============================================================================
