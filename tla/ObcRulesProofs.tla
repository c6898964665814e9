--------------------------- MODULE ObcRulesProofs ---------------------------
(***************************************************************************)
(* Theorems about ObcRules for every set of rules and every timing.        *)
(*                                                                         *)
(* The two times kept per rule are related to the history they summarise:  *)
(* condition_since is the first sample of the unbroken run of true ones    *)
(* that reaches the end of the log, last_triggered_at the latest firing    *)
(* that no reset has forgotten.                                            *)
(***************************************************************************)
EXTENDS ObcRules, TLAPS

(* Rule r saw sample j, and its condition was not interrupted since.        *)
Held(r, j) ==
  /\ r \in log[j].seen
  /\ \A k \in j..Len(log) : /\ r \in log[k].seen => Matches(r, log[k].value)
                            /\ r \notin log[k].reset

(* Rule r fired on sample j and was not reset since.                        *)
Remembered(r, j) ==
  /\ r \in log[j].fired
  /\ \A k \in j..Len(log) : r \notin log[k].reset

SinceIsStartOfRun ==
  \A r \in Rule :
    /\ since[r] # None => \E j \in 1..Len(log) : Held(r, j) /\ log[j].time = since[r]
    /\ \A j \in 1..Len(log) : Held(r, j) => since[r] # None /\ since[r] <= log[j].time

LastIsLatestFiring ==
  \A r \in Rule :
    /\ last[r] # None => \E j \in 1..Len(log) : Remembered(r, j) /\ log[j].time = last[r]
    /\ \A j \in 1..Len(log) : Remembered(r, j) => last[r] # None /\ log[j].time <= last[r]

(* Types; every time kept for a rule is a past one.                         *)
TimersOK ==
  /\ now \in Nat
  /\ since \in [Rule -> Nat \cup {None}]
  /\ last \in [Rule -> Nat \cup {None}]
  /\ log \in Seq(Entry)
  /\ \A r \in Rule : /\ since[r] # None => since[r] <= now
                     /\ last[r] # None => last[r] <= now
  /\ \A i \in 1..Len(log) : log[i].time <= now

RulesInv ==
  /\ TimersOK
  /\ SinceIsStartOfRun
  /\ LastIsLatestFiring
  /\ FiresExactlyWhenDue

(* The statement of FiresExactlyWhenDue about one entry of the log.         *)
DueAt(i) ==
  log[i].fired = {r \in log[i].seen :
                    /\ Matches(r, log[i].value)
                    /\ HeldLongEnough(r, i)
                    /\ CooledDown(r, i)}

-----------------------------------------------------------------------------
(* What appending an entry does to the log.                                 *)
LEMMA AppendedEntry ==
  ASSUME log \in Seq(Entry), NEW e \in Entry, log' = Append(log, e)
  PROVE  /\ log' \in Seq(Entry)
         /\ Len(log) \in Nat
         /\ Len(log') = Len(log) + 1
         /\ log'[Len(log) + 1] = e
         /\ \A i \in 1..Len(log) : log'[i] = log[i]
  OBVIOUS

(* The past is not rewritten: an entry stays due when the log grows.        *)
LEMMA DueStays ==
  ASSUME log \in Seq(Entry), NEW e \in Entry, log' = Append(log, e),
         NEW i \in 1..Len(log), DueAt(i)
  PROVE  DueAt(i)'
<1>1. \A j \in 1..i : j \in 1..Len(log) /\ log'[j] = log[j]
  BY AppendedEntry
<1>2. \A j \in 1..i : \A k \in j..i : k \in 1..i
  BY AppendedEntry
<1>3. \A j \in 1..(i - 1) : j \in 1..i
  BY AppendedEntry
<1>4. i \in 1..i
  BY AppendedEntry
<1>5. \A r : HeldLongEnough(r, i)' <=> HeldLongEnough(r, i)
  BY <1>1, <1>2, <1>4 DEF HeldLongEnough, Matches
<1>6. \A r : CooledDown(r, i)' <=> CooledDown(r, i)
  BY <1>1, <1>2, <1>3, <1>4 DEF CooledDown
<1>7. \A r, v : Matches(r, v)' <=> Matches(r, v)
  BY DEF Matches
<1> QED
  BY <1>1, <1>4, <1>5, <1>6, <1>7 DEF DueAt

(* How a run of true samples and a remembered firing reach over a new entry.*)
LEMMA Extended ==
  ASSUME log \in Seq(Entry), NEW e \in Entry, log' = Append(log, e), NEW r \in Rule,
         NEW n \in Nat, n = Len(log)
  PROVE  LET keeps == (r \in e.seen => Matches(r, e.value)) /\ r \notin e.reset
         IN  /\ \A j \in 1..n : Held(r, j)' <=> Held(r, j) /\ keeps
             /\ Held(r, n + 1)' <=> r \in e.seen /\ keeps
             /\ \A j \in 1..n : Remembered(r, j)' <=> Remembered(r, j) /\ r \notin e.reset
             /\ Remembered(r, n + 1)' <=> r \in e.fired /\ r \notin e.reset
<1> DEFINE keeps == (r \in e.seen => Matches(r, e.value)) /\ r \notin e.reset
<1>1. /\ n \in Nat /\ Len(log') = n + 1 /\ log'[n + 1] = e
      /\ \A i \in 1..n : log'[i] = log[i]
  BY AppendedEntry
<1>2. \A j \in 1..n : j..(n + 1) = (j..n) \cup {n + 1}
  BY <1>1
<1>3. \A j \in 1..n : \A k \in j..n : k \in 1..n
  BY <1>1
<1>4. (n + 1)..(n + 1) = {n + 1}
  BY <1>1
<1>5. \A v : Matches(r, v)' <=> Matches(r, v)
  BY DEF Matches
<1>6. \A j \in 1..n : Held(r, j)' <=> Held(r, j) /\ keeps
  BY <1>1, <1>2, <1>3, <1>5 DEF Held
<1>7. Held(r, n + 1)' <=> r \in e.seen /\ keeps
  BY <1>1, <1>4, <1>5 DEF Held
<1>8. \A j \in 1..n : Remembered(r, j)' <=> Remembered(r, j) /\ r \notin e.reset
  BY <1>1, <1>2, <1>3 DEF Remembered
<1>9. Remembered(r, n + 1)' <=> r \in e.fired /\ r \notin e.reset
  BY <1>1, <1>4 DEF Remembered
<1> QED
  BY <1>6, <1>7, <1>8, <1>9

-----------------------------------------------------------------------------
(* Init establishes the invariant.                                          *)
LEMMA RulesInit == Init => RulesInv
  BY RulesAssumption
  DEF Init, RulesInv, TimersOK, SinceIsStartOfRun, LastIsLatestFiring, FiresExactlyWhenDue, Held,
      Remembered, Entry

(* A call appends one entry, written at the present time; what it does to   *)
(* the two times of every rule has to match it.                             *)
LEMMA EntryInv ==
  ASSUME RulesInv, NEW e \in Entry, log' = Append(log, e), now' = now, e.time = now,
         since' \in [Rule -> Nat \cup {None}],
         last' \in [Rule -> Nat \cup {None}],
         \A r \in Rule :
           /\ since'[r] = IF r \in e.reset THEN None
                          ELSE IF r \in e.seen THEN SinceAfter(r, e.value) ELSE since[r]
           /\ last'[r] = IF r \in e.reset THEN None
                         ELSE IF r \in e.fired THEN now ELSE last[r]
  PROVE  TimersOK' /\ SinceIsStartOfRun' /\ LastIsLatestFiring'
<1>1. PICK n \in Nat : n = Len(log)
  BY DEF RulesInv, TimersOK
<1>2. /\ log' \in Seq(Entry) /\ Len(log') = n + 1 /\ log'[n + 1] = e
      /\ \A i \in 1..n : log'[i] = log[i]
      /\ 1..(n + 1) = (1..n) \cup {n + 1}
  BY <1>1, AppendedEntry DEF RulesInv, TimersOK
<1>3. /\ now \in Nat /\ None \notin Nat
      /\ \A i \in 1..n : log[i] \in Entry /\ log[i].time \in Nat /\ log[i].time <= now
  <2>1. log \in Seq(Entry) /\ now \in Nat /\ \A i \in 1..Len(log) : log[i].time <= now
    BY DEF RulesInv, TimersOK
  <2>2. \A i \in 1..n : log[i] \in Entry
    BY <1>1, <2>1
  <2> QED
    BY <1>1, <2>1, <2>2, RulesAssumption DEF Entry
<1>4. ASSUME NEW r \in Rule
      PROVE  /\ since[r] \in Nat \cup {None} /\ (since[r] # None => since[r] <= now)
             /\ last[r] \in Nat \cup {None} /\ (last[r] # None => last[r] <= now)
  BY <1>4 DEF RulesInv, TimersOK
<1>5. TimersOK'
  <2>1. ASSUME NEW r \in Rule
        PROVE  (since'[r] # None => since'[r] <= now) /\ (last'[r] # None => last'[r] <= now)
    BY <1>3, <1>4, <2>1 DEF SinceAfter
  <2>2. \A i \in 1..Len(log') : log'[i].time <= now
    BY <1>2, <1>3
  <2> QED
    BY <1>2, <1>3, <2>1, <2>2 DEF TimersOK
<1>6. SinceIsStartOfRun'
  <2> SUFFICES ASSUME NEW r \in Rule
               PROVE  /\ since'[r] # None =>
                           \E j \in 1..(n + 1) : Held(r, j)' /\ log'[j].time = since'[r]
                      /\ \A j \in 1..(n + 1) :
                           Held(r, j)' => since'[r] # None /\ since'[r] <= log'[j].time
    BY <1>2 DEF SinceIsStartOfRun
  <2> DEFINE keeps == (r \in e.seen => Matches(r, e.value)) /\ r \notin e.reset
  <2>1. /\ \A j \in 1..n : Held(r, j)' <=> Held(r, j) /\ keeps
        /\ Held(r, n + 1)' <=> r \in e.seen /\ keeps
    BY <1>1, Extended DEF RulesInv, TimersOK
  <2>2. /\ since[r] # None => \E j \in 1..n : Held(r, j) /\ log[j].time = since[r]
        /\ \A j \in 1..n : Held(r, j) => since[r] # None /\ since[r] <= log[j].time
    BY <1>1 DEF RulesInv, SinceIsStartOfRun
  <2>3. since'[r] = IF ~keeps THEN None
                    ELSE IF r \in e.seen /\ since[r] = None THEN now ELSE since[r]
    BY DEF SinceAfter
  <2> HIDE DEF keeps
  <2> QED
    BY <1>2, <1>3, <1>4, <2>1, <2>2, <2>3
<1>7. LastIsLatestFiring'
  <2> SUFFICES ASSUME NEW r \in Rule
               PROVE  /\ last'[r] # None =>
                           \E j \in 1..(n + 1) : Remembered(r, j)' /\ log'[j].time = last'[r]
                      /\ \A j \in 1..(n + 1) :
                           Remembered(r, j)' => last'[r] # None /\ log'[j].time <= last'[r]
    BY <1>2 DEF LastIsLatestFiring
  <2>1. /\ \A j \in 1..n : Remembered(r, j)' <=> Remembered(r, j) /\ r \notin e.reset
        /\ Remembered(r, n + 1)' <=> r \in e.fired /\ r \notin e.reset
    BY <1>1, Extended DEF RulesInv, TimersOK
  <2>2. /\ last[r] # None => \E j \in 1..n : Remembered(r, j) /\ log[j].time = last[r]
        /\ \A j \in 1..n : Remembered(r, j) => last[r] # None /\ log[j].time <= last[r]
    BY <1>1 DEF RulesInv, LastIsLatestFiring
  <2> QED
    BY <1>2, <1>3, <1>4, <2>1, <2>2
<1> QED
  BY <1>5, <1>6, <1>7

(* Given the times match the history, the gates of observe_telemetry decide *)
(* as the history does.                                                     *)
LEMMA GatesReadHistory ==
  ASSUME RulesInv, NEW e \in Entry, log' = Append(log, e), now' = now, e.time = now,
         TimersOK', SinceIsStartOfRun', NEW n \in Nat, n = Len(log),
         NEW r \in e.seen, e.reset = {}, Matches(r, e.value),
         since'[r] = SinceAfter(r, e.value)
  PROVE  /\ HeldLongEnough(r, n + 1)' <=> now - SinceAfter(r, e.value) >= ForDuration[r]
         /\ CooledDown(r, n + 1)' <=> ~InCooldown(r)
<1>0. r \in Rule
  BY DEF Entry
<1>1. /\ log \in Seq(Entry) /\ now \in Nat
      /\ since'[r] \in Nat \cup {None} /\ last[r] \in Nat \cup {None}
      /\ ForDuration[r] \in Nat /\ Cooldown[r] \in Nat /\ None \notin Nat
  BY <1>0, RulesAssumption DEF RulesInv, TimersOK
<1>2. /\ log' \in Seq(Entry) /\ Len(log') = n + 1 /\ log'[n + 1] = e
      /\ \A i \in 1..n : log'[i] = log[i]
  BY <1>1, AppendedEntry
<1>3. \A i \in 1..(n + 1) : log'[i].time \in Nat
  <2>1. \A i \in 1..(n + 1) : log'[i] \in Entry
    BY <1>2
  <2> QED
    BY <2>1 DEF Entry
<1>4. HeldLongEnough(r, n + 1)' <=> now - SinceAfter(r, e.value) >= ForDuration[r]
  <2>1. since'[r] # None
    BY <1>1 DEF SinceAfter
  <2>2. \A j \in 1..(n + 1) : Held(r, j)' => since'[r] <= log'[j].time
    BY <1>0, <1>2 DEF SinceIsStartOfRun
  <2>3. PICK j \in 1..(n + 1) : Held(r, j)' /\ log'[j].time = since'[r]
    BY <1>0, <1>2, <2>1 DEF SinceIsStartOfRun
  <2>4. HeldLongEnough(r, n + 1)' <=>
          \E i \in 1..(n + 1) : Held(r, i)' /\ now - log'[i].time >= ForDuration[r]
    BY <1>2 DEF HeldLongEnough, Held, Matches
  <2> QED
    BY <1>1, <1>3, <2>1, <2>2, <2>3, <2>4
<1>5. CooledDown(r, n + 1)' <=> ~InCooldown(r)
  <2>1. /\ last[r] # None => \E j \in 1..n : Remembered(r, j) /\ log[j].time = last[r]
        /\ \A j \in 1..n : Remembered(r, j) => last[r] # None /\ log[j].time <= last[r]
    BY <1>0 DEF RulesInv, LastIsLatestFiring
  <2>2. \A j \in 1..n : Remembered(r, j)' <=> Remembered(r, j)
    BY <1>0, <1>1, Extended
  <2>3. CooledDown(r, n + 1)' <=>
          \A j \in 1..n : Remembered(r, j)' => now - log'[j].time >= Cooldown[r]
    BY <1>2 DEF CooledDown, Remembered
  <2> QED
    BY ONLY <1>1, <1>2, <1>3, <2>1, <2>2, <2>3, SMTT(30) DEF InCooldown
<1> QED
  BY <1>4, <1>5

(* observe_telemetry keeps the invariant, whichever action raises.          *)
LEMMA ObserveInv ==
  ASSUME RulesInv, NEW s \in Signal, NEW v \in Value, NEW bad \in Rule \cup {None},
         Observe(s, v, bad)
  PROVE  RulesInv'
<1> DEFINE seen == Seeing(s, bad)
           fired == {r \in seen : Triggers(r, v)}
           e == [time |-> now, value |-> v, seen |-> seen, fired |-> fired, reset |-> {}]
<1>1. PICK n \in Nat : n = Len(log) /\ log \in Seq(Entry) /\ now \in Nat
  BY DEF RulesInv, TimersOK
<1>2. e \in Entry
  BY <1>1, RulesAssumption DEF Entry, Seeing
<1>3. /\ log' = Append(log, e) /\ now' = now
      /\ since' = [r \in Rule |-> IF r \in seen THEN SinceAfter(r, v) ELSE since[r]]
      /\ last' = [r \in Rule |-> IF r \in fired THEN now ELSE last[r]]
  BY DEF Observe
<1>4. seen \subseteq Rule /\ fired \subseteq seen
  BY DEF Seeing
<1>5. \A r \in Rule : since[r] \in Nat \cup {None} /\ last[r] \in Nat \cup {None}
  BY DEF RulesInv, TimersOK
<1>6. since' \in [Rule -> Nat \cup {None}] /\ last' \in [Rule -> Nat \cup {None}]
  BY <1>1, <1>3, <1>5 DEF SinceAfter
<1>7. TimersOK' /\ SinceIsStartOfRun' /\ LastIsLatestFiring'
  <2>1. e.time = now /\ e.value = v /\ e.seen = seen /\ e.fired = fired /\ e.reset = {}
    OBVIOUS
  <2> HIDE DEF e, seen, fired
  <2> QED
    BY <1>2, <1>3, <1>6, <2>1, EntryInv
<1>8. \A i \in 1..(n + 1) : DueAt(i)'
  <2>1. \A i \in 1..n : DueAt(i)
    BY <1>1 DEF RulesInv, FiresExactlyWhenDue, DueAt
  <2>2. \A i \in 1..n : DueAt(i)'
    BY <1>1, <1>2, <1>3, <2>1, DueStays
  <2>3. ASSUME NEW r \in seen, Matches(r, v)
        PROVE  Triggers(r, v) <=> HeldLongEnough(r, n + 1)' /\ CooledDown(r, n + 1)'
    <3>1. since'[r] = SinceAfter(r, e.value) /\ e.value = v /\ e.time = now /\ e.reset = {}
          /\ r \in e.seen
      BY <1>3, <1>4, <2>3
    <3>2. /\ HeldLongEnough(r, n + 1)' <=> now - SinceAfter(r, v) >= ForDuration[r]
          /\ CooledDown(r, n + 1)' <=> ~InCooldown(r)
      <4> HIDE DEF e, seen, fired
      <4> QED
        BY <1>1, <1>2, <1>3, <1>7, <2>3, <3>1, GatesReadHistory
    <3> QED
      BY <2>3, <3>2 DEF Triggers
  <2>4. DueAt(n + 1)'
    <3>1. log'[n + 1] = e
      BY <1>1, <1>2, <1>3, AppendedEntry
    <3>2. fired = {r \in seen : Matches(r, v) /\ HeldLongEnough(r, n + 1)'
                                              /\ CooledDown(r, n + 1)'}
      BY <2>3 DEF Triggers
    <3>3. \A r : Matches(r, v)' <=> Matches(r, v)
      BY DEF Matches
    <3> QED
      BY <3>1, <3>2, <3>3 DEF DueAt
  <2> QED
    BY <2>2, <2>4
<1>9. FiresExactlyWhenDue'
  BY <1>1, <1>2, <1>3, <1>8, AppendedEntry DEF FiresExactlyWhenDue, DueAt
<1> QED
  BY <1>7, <1>9 DEF RulesInv

(* reset_rule_timing keeps the invariant: its entry saw and fired nothing.  *)
LEMMA ResetInv ==
  ASSUME RulesInv, NEW rules \in SUBSET Rule, ResetRuleTiming(rules)
  PROVE  RulesInv'
<1> DEFINE e == [time |-> now, value |-> 0, seen |-> {}, fired |-> {}, reset |-> rules]
<1>1. PICK n \in Nat : n = Len(log) /\ log \in Seq(Entry) /\ now \in Nat
  BY DEF RulesInv, TimersOK
<1>2. e \in Entry
  BY <1>1 DEF Entry
<1>3. /\ log' = Append(log, e) /\ now' = now
      /\ since' = [r \in Rule |-> IF r \in rules THEN None ELSE since[r]]
      /\ last' = [r \in Rule |-> IF r \in rules THEN None ELSE last[r]]
  BY DEF ResetRuleTiming
<1>4. since' \in [Rule -> Nat \cup {None}] /\ last' \in [Rule -> Nat \cup {None}]
  BY <1>3 DEF RulesInv, TimersOK
<1>5. e.time = now /\ e.seen = {} /\ e.fired = {} /\ e.reset = rules
  OBVIOUS
<1>6. TimersOK' /\ SinceIsStartOfRun' /\ LastIsLatestFiring'
  <2> HIDE DEF e
  <2> QED
    BY <1>2, <1>3, <1>4, <1>5, EntryInv
<1>7. \A i \in 1..n : DueAt(i)'
  <2>1. \A i \in 1..n : DueAt(i)
    BY <1>1 DEF RulesInv, FiresExactlyWhenDue, DueAt
  <2> QED
    BY <1>1, <1>2, <1>3, <2>1, DueStays
<1>8. /\ Len(log') = n + 1 /\ log'[n + 1] = e
  BY <1>1, <1>2, <1>3, AppendedEntry
<1>9. FiresExactlyWhenDue'
  <2>1. \A i \in 1..(n + 1) : i = n + 1 \/ i \in 1..n
    BY <1>1
  <2> QED
    BY <1>7, <1>8, <2>1 DEF FiresExactlyWhenDue, DueAt
<1> QED
  BY <1>6, <1>9 DEF RulesInv

(* The clock alone moves no timer.                                          *)
LEMMA TimePassesInv ==
  ASSUME RulesInv, TimePasses \/ UNCHANGED vars
  PROVE  RulesInv'
<1>1. UNCHANGED <<since, last, log>> /\ now \in Nat /\ now' \in {now, now + 1}
  BY DEF TimePasses, vars, RulesInv, TimersOK
<1>2. TimersOK'
  <2>1. \A r \in Rule : since[r] \in Nat \cup {None} /\ last[r] \in Nat \cup {None}
    BY DEF RulesInv, TimersOK
  <2>2. \A i \in 1..Len(log) : log[i] \in Entry
    BY DEF RulesInv, TimersOK
  <2>3. \A i \in 1..Len(log) : log[i].time \in Nat
    BY <2>2 DEF Entry
  <2>4. \A m \in Nat : m <= now => m <= now'
    BY <1>1
  <2> QED
    BY <1>1, <2>1, <2>3, <2>4 DEF RulesInv, TimersOK
<1>3. SinceIsStartOfRun' /\ LastIsLatestFiring'
  BY <1>1 DEF RulesInv, SinceIsStartOfRun, LastIsLatestFiring, Held, Remembered, Matches
<1>4. FiresExactlyWhenDue'
  BY <1>1, SMTT(30) DEF RulesInv, FiresExactlyWhenDue, HeldLongEnough, CooledDown, Matches
<1> QED
  BY <1>2, <1>3, <1>4 DEF RulesInv

(* For every configuration of rules and every sequence of samples, resets   *)
(* and failing actions: a rule fires on exactly the samples at which its    *)
(* holding time is over and its cooldown too.                               *)
THEOREM RulesFireWhenDue == Spec => []FiresExactlyWhenDue
<1>1. Init => RulesInv
  BY RulesInit
<1>2. RulesInv /\ [Next]_vars => RulesInv'
  <2> SUFFICES ASSUME RulesInv, [Next]_vars PROVE RulesInv'
    OBVIOUS
  <2>1. CASE \E s \in Signal, v \in Value, bad \in Rule \cup {None} : Observe(s, v, bad)
    BY <2>1, ObserveInv
  <2>2. CASE \E rules \in {Rule} \cup {{r} : r \in Rule} : ResetRuleTiming(rules)
    BY <2>2, ResetInv
  <2>3. CASE TimePasses \/ UNCHANGED vars
    BY <2>3, TimePassesInv
  <2> QED
    BY <2>1, <2>2, <2>3 DEF Next
<1>3. RulesInv => FiresExactlyWhenDue
  BY DEF RulesInv
<1> QED
  BY <1>1, <1>2, <1>3, PTL DEF Spec
=============================================================================
