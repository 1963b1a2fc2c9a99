----------------------------- MODULE LedgerProofs -----------------------------
(***************************************************************************)
(* Theorems about the runtime ledger in every setting: k stands for any    *)
(* values of the constants of RuntimeLedger, and the settings that TLC     *)
(* checks are some of them.                                                *)
(***************************************************************************)
EXTENDS MCRuntimeLedger, Sequences, SequenceTheorems, FiniteSets, FiniteSetTheorems, WellFoundedInduction,
        NaturalsInduction, TLAPS

(* The limits of an objective and of the bounds are positive, a chain of   *)
(* all records is not longer than a chain may be, and the lines between    *)
(* two trees are a number.                                                 *)
Bounds(k) ==
    /\ k.MaxAttempts \in Nat \ {0} /\ k.MaxLines \in Nat \ {0} /\ k.MaxLineages \in Nat \ {0}
    /\ k.MaxRecords \in Nat /\ k.ChainLimit \in Nat /\ k.MaxRecords <= k.ChainLimit /\ k.MaxFaults \in Nat
    /\ k.Lines \in [k.Trees \X k.Trees -> Nat] /\ None \notin k.Units

(* Types                                                                   *)
Outcomes == {"passed", "failed"}
Ops == {"begin", "advance", "finish", "remediate", "reset", "bind"}
Bindings(k) == {None} \cup [lineage : 1 .. k.MaxLineages, tree : k.Trees]
Requests(k) ==
    [op : {"begin"}, at : Nat, unit : k.Units]
    \cup [op : {"reset"}, at : Nat]
    \cup [op : {"finish"}, at : Nat, outcome : Outcomes, evidence : k.Evidence, expected : Bindings(k),
          successor : (1 .. k.MaxLineages) \cup {None}, remediates : k.Evidence \cup {None}]
    \cup [op : {"bind"}, expected : Bindings(k), lineage : 1 .. k.MaxLineages]
Records(k) ==
    [op : Ops, id : L(k)!AllIds, digest : Requests(k), prev : Nat, rev : Nat, unit : k.Units \cup {None},
     gen : Nat, ordinal : Nat, tree : k.Trees, outcome : Outcomes \cup {None}, lines : Nat,
     exceeded : BOOLEAN, evidence : k.Evidence \cup {None}, binding : Bindings(k),
     expected : Bindings(k), remediates : k.Evidence \cup {None}]
Entries(k) == [id : L(k)!AllIds, digest : Requests(k), rev : Nat]
Attempts(k) ==
    [gen : Nat, unit : k.Units, begin : k.Trees, finish : k.Trees \cup {None},
     outcome : Outcomes \cup {"running"}, exceeded : BOOLEAN, token : Nat]
Statuses(k) ==
    [ok : BOOLEAN, rev : Nat, requests : Seq(Entries(k)), gen : Nat, unit : k.Units \cup {None},
     attempts : Seq(Attempts(k)), charged : Nat, lines : Nat, evidence : k.Evidence \cup {None},
     decision : BOOLEAN, complete : BOOLEAN, binding : Bindings(k)]

-----------------------------------------------------------------------------
(* What the attempts of a ledger keep, whatever is recorded: those of one  *)
(* objective are at most its limit, follow each other without a drift of   *)
(* the candidate, and began while there were lines left.                   *)
Near(k, a) == \A i, j \in DOMAIN a : i < j /\ a[i].gen = a[j].gen => j - i < k.MaxAttempts
Steady(a) == \A i \in DOMAIN a : i > 1 /\ a[i - 1].gen = a[i].gen => a[i - 1].finish = a[i].begin
Sums(k, a, b) ==
    \A i \in DOMAIN a :
        /\ b[i] \in 0 .. (k.MaxLines - 1)
        /\ b[i] = IF i = 1 \/ a[i - 1].gen # a[i].gen THEN 0
                  ELSE b[i - 1] + k.Lines[<<a[i - 1].begin, a[i - 1].finish>>]

(* The attempts of the open objective are the last ones: as many as were   *)
(* charged, and their lines are those that were charged.                   *)
Charged(s) == \A i \in DOMAIN s.attempts : s.attempts[i].gen = s.gen => i + s.charged > Len(s.attempts)
Total(k, s, b) ==
    LET n == Len(s.attempts) IN
    s.lines = IF s.attempts[n].outcome = "running" THEN b[n]
              ELSE b[n] + k.Lines[<<s.attempts[n].begin, s.attempts[n].finish>>]

Coherent(k, s) ==
    LET a == s.attempts IN
    /\ s.complete => s.unit # None
    /\ \A i \in DOMAIN a : a[i].gen <= s.gen /\ (a[i].outcome = "running" \/ a[i].finish \in k.Trees)
    /\ \A i \in DOMAIN a : a[i].outcome = "running" => i = Len(a) /\ s.unit # None
    /\ Near(k, a) /\ Steady(a)
    /\ s.unit = None => s.lines = 0 /\ s.charged = 0
    /\ s.unit # None => a # << >> /\ a[Len(a)].gen = s.gen /\ Charged(s)
    /\ \E b \in [DOMAIN a -> Nat] : Sums(k, a, b) /\ (s.unit # None => Total(k, s, b))

(* What a record carries because of how it is built, which the replay does *)
(* not ask again.                                                          *)
Shaped(k, s, r) ==
    /\ r.op \in {"begin", "advance"} => r.unit \in k.Units
    /\ r.op \in {"finish", "remediate"} =>
          /\ r.outcome \in Outcomes
          /\ r.lines = k.Lines[<<s.attempts[Len(s.attempts)].begin, r.tree>>]

-----------------------------------------------------------------------------
(* Replay *)

(* One attempt more: it is of a new objective, or follows the last one.    *)
LEMMA NearAppend ==
    ASSUME NEW k, NEW T, NEW a \in Seq(T), NEW e, NEW c \in Nat, k.MaxAttempts \in Nat, c < k.MaxAttempts,
           \A i \in DOMAIN a : a[i].gen = e.gen => i + c > Len(a), Near(k, a)
    PROVE  Near(k, Append(a, e))
<1> DEFINE n == Len(a)
           x == Append(a, e)
<1>1. n \in Nat /\ DOMAIN a = 1 .. n /\ DOMAIN x = 1 .. (n + 1) /\ x[n + 1] = e /\ \A i \in 1 .. n : x[i] = a[i]
    OBVIOUS
<1> HIDE DEF n, x
<1> SUFFICES ASSUME NEW i \in 1 .. (n + 1), NEW j \in 1 .. (n + 1), i < j, x[i].gen = x[j].gen
             PROVE  j - i < k.MaxAttempts
    BY <1>1 DEF Near, x
<1>2. i \in 1 .. n
    BY <1>1
<1>3. CASE j \in 1 .. n
    BY <1>1, <1>2, <1>3 DEF Near
<1>4. CASE j = n + 1
  <2>1. i + c > n
      BY <1>1, <1>2, <1>4 DEF n
  <2> QED
      BY <2>1, <1>1, <1>2, <1>4
<1> QED
    BY <1>1, <1>3, <1>4

LEMMA SteadyAppend ==
    ASSUME NEW T, NEW a \in Seq(T), NEW e, Steady(a),
           a # << >> /\ a[Len(a)].gen = e.gen => a[Len(a)].finish = e.begin
    PROVE  Steady(Append(a, e))
<1> DEFINE n == Len(a)
           x == Append(a, e)
<1>1. /\ n \in Nat /\ DOMAIN a = 1 .. n /\ DOMAIN x = 1 .. (n + 1) /\ x[n + 1] = e /\ (a # << >> <=> n # 0)
      /\ \A i \in 1 .. n : x[i] = a[i]
    OBVIOUS
<1>2. n # 0 /\ a[n].gen = e.gen => a[n].finish = e.begin
    BY <1>1
<1> HIDE DEF n, x
<1> SUFFICES ASSUME NEW i \in 1 .. (n + 1), i > 1, x[i - 1].gen = x[i].gen
             PROVE  x[i - 1].finish = x[i].begin
    BY <1>1 DEF Steady, x
<1>3. i - 1 \in 1 .. n /\ x[i - 1] = a[i - 1]
    BY <1>1
<1>4. CASE i \in 1 .. n
    BY <1>1, <1>3, <1>4 DEF Steady
<1>5. CASE i = n + 1
    BY <1>1, <1>2, <1>3, <1>5
<1> QED
    BY <1>1, <1>4, <1>5

Longer(n, a, x) ==
    n \in Nat /\ DOMAIN a = 1 .. n /\ DOMAIN x = 1 .. (n + 1) /\ \A i \in 1 .. n : x[i] = a[i]
Owed(k, n, a, x, b) ==
    IF n = 0 \/ a[n].gen # x[n + 1].gen THEN 0 ELSE b[n] + k.Lines[<<a[n].begin, a[n].finish>>]

LEMMA SumsExtend ==
    ASSUME NEW k, k.MaxLines \in Nat, NEW n, NEW a, NEW x, Longer(n, a, x), NEW b, b \in [1 .. n -> Nat],
           Sums(k, a, b), NEW lines, lines \in Nat, lines < k.MaxLines, lines = Owed(k, n, a, x, b)
    PROVE  \E c : c \in [1 .. (n + 1) -> Nat] /\ Sums(k, x, c) /\ c[n + 1] = lines
<1>0. /\ n \in Nat /\ DOMAIN a = 1 .. n /\ DOMAIN x = 1 .. (n + 1) /\ \A i \in 1 .. n : x[i] = a[i]
      /\ lines = IF n = 0 \/ a[n].gen # x[n + 1].gen THEN 0 ELSE b[n] + k.Lines[<<a[n].begin, a[n].finish>>]
    BY DEF Longer, Owed
<1> DEFINE c == [i \in 1 .. (n + 1) |-> IF i = n + 1 THEN lines ELSE b[i]]
<1>1. ASSUME NEW i \in 1 .. n PROVE c[i] = b[i] /\ b[i] \in Nat
    BY <1>0
<1>2. c[n + 1] = lines
    BY <1>0
<1>3. c \in [1 .. (n + 1) -> Nat]
  <2>1. ASSUME NEW i \in 1 .. (n + 1) PROVE (IF i = n + 1 THEN lines ELSE b[i]) \in Nat
    <3>1. CASE i = n + 1
        BY <3>1
    <3>2. CASE i # n + 1
      <4>1. i \in 1 .. n
          BY <1>0, <3>2
      <4> QED
          BY <4>1, <3>2
    <3> QED
        BY <3>1, <3>2
  <2> QED
      BY <2>1
<1> HIDE DEF c
<1>4. ASSUME NEW i \in 1 .. (n + 1)
      PROVE  /\ c[i] \in 0 .. (k.MaxLines - 1)
             /\ c[i] = IF i = 1 \/ x[i - 1].gen # x[i].gen THEN 0
                       ELSE c[i - 1] + k.Lines[<<x[i - 1].begin, x[i - 1].finish>>]
  <2>1. CASE i \in 1 .. n
    <3>1. /\ b[i] \in 0 .. (k.MaxLines - 1)
          /\ b[i] = IF i = 1 \/ a[i - 1].gen # a[i].gen THEN 0
                    ELSE b[i - 1] + k.Lines[<<a[i - 1].begin, a[i - 1].finish>>]
        BY <1>0, <2>1 DEF Sums
    <3>2. c[i] = b[i] /\ x[i] = a[i]
        BY <1>0, <2>1, <1>1
    <3>3. i # 1 => i - 1 \in 1 .. n
        BY <1>0, <2>1
    <3>4. i # 1 => x[i - 1] = a[i - 1] /\ c[i - 1] = b[i - 1]
        BY <1>0, <3>3, <1>1
    <3> QED
        BY <3>1, <3>2, <3>4
  <2>2. CASE i = n + 1
    <3>1. c[i] \in 0 .. (k.MaxLines - 1)
        BY <1>0, <2>2, <1>2
    <3>2. i = 1 <=> n = 0
        BY <1>0, <2>2
    <3>3. n # 0 => n \in 1 .. n /\ i - 1 = n
        BY <1>0, <2>2
    <3>4. n # 0 => x[i - 1] = a[n] /\ c[i - 1] = b[n]
        BY <1>0, <3>3, <1>1
    <3>5. c[i] = lines /\ x[i] = x[n + 1]
        BY <1>0, <2>2, <1>2
    <3> QED
        BY <1>0, <3>1, <3>2, <3>4, <3>5
  <2> QED
      BY <1>0, <2>1, <2>2
<1>5. Sums(k, x, c)
    BY <1>0, <1>4 DEF Sums
<1> QED
    BY <1>2, <1>3, <1>5

(* The last attempt changes its end only.                                  *)
LEMMA LastChanges ==
    ASSUME NEW k, NEW n \in Nat, NEW a, NEW x, DOMAIN a = 1 .. n, DOMAIN x = 1 .. n,
           \A i \in 1 .. n : x[i].gen = a[i].gen /\ x[i].begin = a[i].begin,
           \A i \in 1 .. (n - 1) : x[i] = a[i]
    PROVE  /\ Near(k, a) => Near(k, x)
           /\ Steady(a) => Steady(x)
           /\ \A b \in [1 .. n -> Nat] : Sums(k, a, b) => Sums(k, x, b)
<1>1. Near(k, a) => Near(k, x)
    BY DEF Near
<1>2. \A i \in 1 .. n : i # 1 => i - 1 \in 1 .. (n - 1) /\ x[i - 1] = a[i - 1]
    OBVIOUS
<1>3. Steady(a) => Steady(x)
  <2> SUFFICES ASSUME Steady(a), NEW i \in 1 .. n, i > 1, x[i - 1].gen = x[i].gen
               PROVE  x[i - 1].finish = x[i].begin
      BY DEF Steady
  <2>1. x[i - 1] = a[i - 1] /\ x[i].gen = a[i].gen /\ x[i].begin = a[i].begin
      BY <1>2
  <2> QED
      BY <2>1 DEF Steady
<1>4. ASSUME NEW b \in [1 .. n -> Nat], Sums(k, a, b) PROVE Sums(k, x, b)
  <2> SUFFICES ASSUME NEW i \in 1 .. n
               PROVE  /\ b[i] \in 0 .. (k.MaxLines - 1)
                      /\ b[i] = IF i = 1 \/ x[i - 1].gen # x[i].gen THEN 0
                                ELSE b[i - 1] + k.Lines[<<x[i - 1].begin, x[i - 1].finish>>]
      BY DEF Sums
  <2>1. i # 1 => x[i - 1] = a[i - 1]
      BY <1>2
  <2> QED
      BY <2>1, <1>4 DEF Sums
<1> QED
    BY <1>1, <1>3, <1>4

(* An attempt is opened.                                                   *)
LEMMA OpenedStep ==
    ASSUME NEW k, Bounds(k), NEW s \in Statuses(k), Coherent(k, s),
           NEW r \in Records(k), r.unit \in k.Units, L(k)!Opens(s, r)
    PROVE  LET t == L(k)!Opened(s, r)  n == Len(s.attempts) + 1 IN
           /\ t \in Statuses(k) /\ Coherent(k, t)
           /\ t.requests = s.requests /\ (t.ok <=> s.ok) /\ t.binding = s.binding
           /\ Len(t.attempts) = n /\ t.attempts[n].token = r.rev
           /\ \A i \in DOMAIN s.attempts : t.attempts[i] = s.attempts[i]
<1> DEFINE a == s.attempts
           n == Len(s.attempts)
           new == [gen |-> r.gen, unit |-> r.unit, begin |-> r.tree, finish |-> None,
                   outcome |-> "running", exceeded |-> FALSE, token |-> r.rev]
           x == Append(a, new)
<1>1. /\ a \in Seq(Attempts(k)) /\ s.gen \in Nat /\ s.charged \in Nat /\ s.lines \in Nat
      /\ new \in Attempts(k) /\ r.gen \in Nat /\ r.tree \in k.Trees /\ r.rev \in Nat
    BY DEF Statuses, Records, Attempts
<1> DEFINE c == [s EXCEPT !.gen = r.gen, !.unit = r.unit]
           t == L(k)!Opened(s, r)
<1>2. /\ t \in Statuses(k)
      /\ t.gen = r.gen /\ t.unit = r.unit /\ t.charged = s.charged + 1 /\ t.attempts = x
      /\ t.lines = s.lines /\ t.requests = s.requests /\ (t.ok <=> s.ok) /\ t.binding = s.binding
      /\ (t.complete <=> s.complete)
  <2>1. c \in Statuses(k)
      BY <1>1 DEF Statuses
  <2>2. /\ c.gen = r.gen /\ c.unit = r.unit /\ c.charged = s.charged /\ c.attempts = a
        /\ c.lines = s.lines /\ c.requests = s.requests /\ (c.ok <=> s.ok) /\ c.binding = s.binding
        /\ (c.complete <=> s.complete)
      BY <1>1 DEF Statuses
  <2>3. t = [c EXCEPT !.charged = c.charged + 1, !.attempts = x]
      BY <1>1 DEF L!Opened, Statuses
  <2>4. x \in Seq(Attempts(k)) /\ c.charged + 1 \in Nat
      BY <1>1, <2>2
  <2> HIDE DEF c, t, new, x
  <2>5. t \in Statuses(k)
      BY <2>1, <2>3, <2>4 DEF Statuses
  <2>6. /\ t.gen = c.gen /\ t.unit = c.unit /\ t.charged = c.charged + 1 /\ t.attempts = x
        /\ t.lines = c.lines /\ t.requests = c.requests /\ (t.ok <=> c.ok) /\ t.binding = c.binding
        /\ (t.complete <=> c.complete)
      BY <2>1, <2>3 DEF Statuses
  <2> QED
      BY <2>2, <2>5, <2>6
<1> HIDE DEF c, t
<1>3. /\ n \in Nat /\ DOMAIN a = 1 .. n /\ Len(x) = n + 1 /\ DOMAIN x = 1 .. (n + 1) /\ x[n + 1] = new
      /\ (a = << >> <=> n = 0) /\ x # << >> /\ \A i \in 1 .. n : x[i] = a[i] /\ a[i] \in Attempts(k)
    BY <1>1
<1>4. /\ s.charged < k.MaxAttempts /\ s.lines < k.MaxLines /\ ~s.complete
      /\ n # 0 => a[n].outcome # "running"
      /\ s.unit = None => r.gen = s.gen + 1
      /\ s.unit # None => r.gen = s.gen /\ r.tree = a[n].finish
    BY <1>1, <1>3 DEF L!Opens, L!Active, L!LastAttempt
<1>5. /\ \A i \in 1 .. n : a[i].gen <= s.gen /\ (a[i].outcome = "running" \/ a[i].finish \in k.Trees)
      /\ \A i \in 1 .. n : a[i].outcome = "running" => i = n
      /\ Near(k, a) /\ Steady(a)
      /\ s.unit = None => s.lines = 0
      /\ s.unit # None => n # 0 /\ a[n].gen = s.gen /\ \A i \in 1 .. n : a[i].gen = s.gen => i + s.charged > n
    BY <1>3 DEF Coherent, Charged
<1>6. \A i \in 1 .. n : a[i].gen \in Nat /\ (a[i].gen = r.gen => s.unit # None /\ a[i].gen = s.gen)
  <2> SUFFICES ASSUME NEW i \in 1 .. n
               PROVE  a[i].gen \in Nat /\ (a[i].gen = r.gen => s.unit # None /\ a[i].gen = s.gen)
      OBVIOUS
  <2>1. a[i].gen \in Nat
      BY <1>3 DEF Attempts
  <2>2. a[i].gen <= s.gen /\ s.gen \in Nat
      BY <1>1, <1>5 DEF Statuses
  <2> QED
      BY <1>4, <2>1, <2>2
<1>7. new.gen = r.gen /\ new.begin = r.tree /\ new.outcome = "running" /\ new.token = r.rev
    OBVIOUS
<1> HIDE DEF new
<1>8. \A i \in 1 .. n : a[i].gen = new.gen => i + s.charged > n
    BY <1>5, <1>6, <1>7
<1>9. Near(k, x)
    BY <1>1, <1>3, <1>4, <1>5, <1>8, NearAppend DEF Bounds
<1>10. Steady(x)
  <2>1. n # 0 /\ a[n].gen = new.gen => a[n].finish = new.begin
      BY <1>3, <1>4, <1>6, <1>7
  <2> QED
      BY <2>1, <1>1, <1>3, <1>5, SteadyAppend
<1>11. Charged(t)
  <2> SUFFICES ASSUME NEW i \in 1 .. (n + 1), x[i].gen = r.gen PROVE i + (s.charged + 1) > n + 1
      BY <1>2, <1>3 DEF Charged
  <2>1. CASE i = n + 1
      BY <2>1, <1>1, <1>3
  <2>2. CASE i \in 1 .. n
      BY <2>2, <1>1, <1>3, <1>7, <1>8
  <2> QED
      BY <2>1, <2>2, <1>3
<1>12. \E b \in [DOMAIN x -> Nat] : Sums(k, x, b) /\ Total(k, t, b)
  <2>1. PICK b \in [DOMAIN a -> Nat] : Sums(k, a, b) /\ (s.unit # None => Total(k, s, b))
      BY DEF Coherent
  <2>2. s.lines = IF a = << >> \/ a[n].gen # new.gen THEN 0 ELSE b[n] + k.Lines[<<a[n].begin, a[n].finish>>]
    <3>1. CASE n = 0 \/ a[n].gen # r.gen
      <4>1. s.unit = None
          BY <3>1, <1>4, <1>5
      <4> QED
          BY <3>1, <4>1, <1>3, <1>5, <1>7
    <3>2. CASE n # 0 /\ a[n].gen = r.gen
      <4>1. s.unit # None /\ a[n].outcome # "running"
          BY <3>2, <1>3, <1>4, <1>6
      <4> QED
          BY <3>2, <4>1, <2>1, <1>3, <1>7 DEF Total
    <3> QED
        BY <3>1, <3>2
  <2>3. s.lines \in 0 .. (k.MaxLines - 1) /\ k.MaxLines \in Nat
      BY <1>1, <1>4 DEF Bounds
  <2>4. PICK d \in [1 .. (n + 1) -> Nat] : Sums(k, x, d) /\ d[n + 1] = s.lines
    <3>1. b \in [1 .. n -> Nat] /\ x[n + 1] = new /\ s.lines < k.MaxLines /\ s.lines \in Nat
        BY <1>1, <1>3, <1>4, <2>1
    <3>2. s.lines = Owed(k, n, a, x, b)
        BY <2>2, <3>1, <1>3 DEF Owed
    <3>3. Longer(n, a, x) /\ k.MaxLines \in Nat
        BY <1>3, <2>3 DEF Longer
    <3> HIDE DEF x, n, a
    <3> QED
        BY <2>1, <3>1, <3>2, <3>3, SumsExtend
  <2>5. Total(k, t, d)
      BY <2>4, <1>2, <1>3, <1>7 DEF Total
  <2> QED
      BY <2>4, <2>5, <1>3
<1>13. \A i \in 1 .. (n + 1) : /\ x[i].gen <= r.gen
                               /\ x[i].outcome = "running" \/ x[i].finish \in k.Trees
                               /\ x[i].outcome = "running" => i = n + 1
  <2>1. ASSUME NEW i \in 1 .. n
        PROVE  x[i].gen <= r.gen /\ x[i].finish \in k.Trees /\ x[i].outcome # "running"
    <3>1. a[i].outcome # "running"
        BY <1>3, <1>4, <1>5
    <3> QED
        BY <3>1, <1>1, <1>3, <1>4, <1>5, <1>6
  <2>2. x[n + 1].gen <= r.gen /\ x[n + 1].outcome = "running"
      BY <1>1, <1>3, <1>7
  <2> QED
      BY <2>1, <2>2, <1>3
<1>14. Coherent(k, t)
  <2>1. t.unit # None /\ x[n + 1].gen = t.gen
      BY <1>2, <1>3, <1>7 DEF Bounds
  <2> HIDE DEF x, n
  <2> QED
      BY <2>1, <1>2, <1>3, <1>9, <1>10, <1>11, <1>12, <1>13 DEF Coherent
<1> QED
    BY <1>2, <1>3, <1>7, <1>14 DEF t

(* An objective is closed.                                                 *)
LEMMA ClosedStep ==
    ASSUME NEW k, Bounds(k), NEW s \in Statuses(k), Coherent(k, s), ~L(k)!Active(s)
    PROVE  LET t == L(k)!Closed(s) IN
           /\ t \in Statuses(k) /\ Coherent(k, t) /\ ~L(k)!Active(t) /\ t.unit = None /\ t.gen = s.gen
           /\ t.requests = s.requests /\ (t.ok <=> s.ok) /\ t.binding = s.binding /\ t.attempts = s.attempts
<1> DEFINE c == [s EXCEPT !.unit = None, !.charged = 0, !.lines = 0]
           t == L(k)!Closed(s)
<1>1. c \in Statuses(k)
    BY DEF Statuses
<1>2. /\ c.unit = None /\ c.charged = 0 /\ c.lines = 0 /\ c.gen = s.gen
      /\ c.requests = s.requests /\ (c.ok <=> s.ok) /\ c.binding = s.binding /\ c.attempts = s.attempts
    BY DEF Statuses
<1>3. t = [c EXCEPT !.evidence = None, !.decision = FALSE, !.complete = FALSE]
    BY DEF L!Closed, Statuses
<1> HIDE DEF c, t
<1>10. t \in Statuses(k)
    BY <1>1, <1>3 DEF Statuses
<1>11. /\ t.unit = None /\ t.charged = 0 /\ t.lines = 0 /\ t.gen = s.gen /\ ~t.complete
       /\ t.requests = s.requests /\ (t.ok <=> s.ok) /\ t.binding = s.binding /\ t.attempts = s.attempts
    BY <1>1, <1>2, <1>3 DEF Statuses
<1>4. \A i \in DOMAIN s.attempts : s.attempts[i].outcome # "running"
  <2>1. s.attempts \in Seq(Attempts(k))
      BY DEF Statuses
  <2> QED
      BY <2>1 DEF Coherent, L!Active, L!LastAttempt
<1>5. Coherent(k, t)
    BY <1>11, <1>4 DEF Coherent
<1>6. ~L(k)!Active(t)
    BY <1>11 DEF L!Active, L!LastAttempt
<1> QED
    BY <1>10, <1>11, <1>5, <1>6 DEF t

(* An attempt is finished.                                                 *)
LEMMA FinishedStep ==
    ASSUME NEW k, Bounds(k), NEW s \in Statuses(k), Coherent(k, s), NEW r \in Records(k),
           Shaped(k, s, r), r.op \in {"finish", "remediate"}, L(k)!Finishes(s, r)
    PROVE  LET t == L(k)!Finished(s, r) IN
           /\ t \in Statuses(k) /\ Coherent(k, t)
           /\ t.requests = s.requests /\ (t.ok <=> s.ok) /\ t.binding = s.binding
           /\ DOMAIN t.attempts = DOMAIN s.attempts
           /\ \A i \in DOMAIN s.attempts : t.attempts[i].token = s.attempts[i].token
<1> DEFINE a == s.attempts
           n == Len(s.attempts)
           new == [a[n] EXCEPT !.finish = r.tree, !.outcome = r.outcome, !.exceeded = r.exceeded]
           done == r.outcome = "passed" /\ ~r.exceeded
           decided == ~done /\ (r.exceeded \/ s.charged >= k.MaxAttempts \/ s.lines + r.lines >= k.MaxLines)
<1>1. /\ a \in Seq(Attempts(k)) /\ n \in Nat /\ DOMAIN a = 1 .. n /\ a # << >> /\ n \in DOMAIN a /\ a[n] \in Attempts(k)
      /\ a[n].outcome = "running" /\ s.unit # None /\ s.lines \in Nat /\ r.lines \in Nat
      /\ r.tree \in k.Trees /\ r.outcome \in Outcomes /\ r.exceeded \in BOOLEAN /\ r.evidence \in k.Evidence \cup {None}
      /\ r.lines = k.Lines[<<a[n].begin, r.tree>>]
  <2>1. a \in Seq(Attempts(k)) /\ n \in Nat /\ DOMAIN a = 1 .. n
      BY DEF Statuses
  <2>2. a # << >> /\ a[n].outcome = "running"
      BY DEF L!Finishes, L!Active, L!LastAttempt
  <2>3. n \in DOMAIN a /\ a[n] \in Attempts(k)
      BY <2>1, <2>2
  <2>4. s.unit # None
      BY <2>2, <2>3 DEF Coherent
  <2>5. s.lines \in Nat /\ r.lines \in Nat /\ r.tree \in k.Trees /\ r.exceeded \in BOOLEAN /\ r.evidence \in k.Evidence \cup {None}
      BY DEF Statuses, Records
  <2> QED
      BY <2>1, <2>2, <2>3, <2>4, <2>5 DEF Shaped
<1>2. /\ new \in Attempts(k) /\ new.gen = a[n].gen /\ new.begin = a[n].begin /\ new.finish = r.tree
      /\ new.outcome = r.outcome /\ new.outcome # "running" /\ new.token = a[n].token
    BY <1>1 DEF Attempts, Outcomes
<1> HIDE DEF new
<1> DEFINE changed == [a EXCEPT ![n] = new]
           c == [s EXCEPT !.attempts = changed, !.lines = s.lines + r.lines]
           t == L(k)!Finished(s, r)
<1>3. /\ t \in Statuses(k)
      /\ t.gen = s.gen /\ t.unit = s.unit /\ t.charged = s.charged /\ t.attempts = changed
      /\ t.lines = s.lines + r.lines /\ t.requests = s.requests /\ (t.ok <=> s.ok) /\ t.binding = s.binding
  <2>1. t = [c EXCEPT !.evidence = r.evidence, !.complete = done, !.decision = decided]
      BY DEF L!Finished, new, Statuses
  <2>2. changed \in Seq(Attempts(k)) /\ s.lines + r.lines \in Nat
      BY <1>1, <1>2
  <2>3. done \in BOOLEAN /\ decided \in BOOLEAN
      OBVIOUS
  <2> HIDE DEF changed, t, done, decided
  <2>4. c \in Statuses(k)
      BY <2>2 DEF Statuses
  <2>5. /\ c.gen = s.gen /\ c.unit = s.unit /\ c.charged = s.charged /\ c.attempts = changed
        /\ c.lines = s.lines + r.lines /\ c.requests = s.requests /\ (c.ok <=> s.ok) /\ c.binding = s.binding
      BY DEF Statuses
  <2> HIDE DEF c
  <2>6. t \in Statuses(k)
      BY <1>1, <2>1, <2>3, <2>4 DEF Statuses
  <2>7. /\ t.gen = c.gen /\ t.unit = c.unit /\ t.charged = c.charged /\ t.attempts = c.attempts
        /\ t.lines = c.lines /\ t.requests = c.requests /\ (t.ok <=> c.ok) /\ t.binding = c.binding
      BY <2>1, <2>4 DEF Statuses
  <2> QED
      BY <2>5, <2>6, <2>7
<1> HIDE DEF c, t
<1>4. /\ Len(changed) = n /\ DOMAIN changed = 1 .. n /\ changed[n] = new /\ changed # << >>
      /\ \A i \in 1 .. (n - 1) : i \in 1 .. n /\ i # n /\ changed[i] = a[i]
    BY <1>1, <1>2
<1> HIDE DEF changed
<1>5. \A i \in 1 .. n : /\ changed[i].gen = a[i].gen /\ changed[i].begin = a[i].begin
                        /\ changed[i].token = a[i].token
  <2>1. ASSUME NEW i \in 1 .. n PROVE i = n \/ i \in 1 .. (n - 1)
      BY <1>1
  <2> HIDE DEF a, n
  <2> QED
      BY <2>1, <1>2, <1>4
<1>6. /\ \A i \in 1 .. n : a[i].gen <= s.gen /\ (a[i].outcome = "running" \/ a[i].finish \in k.Trees)
      /\ \A i \in 1 .. n : a[i].outcome = "running" => i = n
      /\ Near(k, a) /\ Steady(a) /\ a[n].gen = s.gen /\ Charged(s)
    BY <1>1 DEF Coherent
<1>7. Near(k, changed) /\ Steady(changed)
    BY <1>1, <1>4, <1>5, <1>6, LastChanges
<1>8. \E b \in [DOMAIN changed -> Nat] : Sums(k, changed, b) /\ Total(k, t, b)
  <2>1. PICK b \in [DOMAIN a -> Nat] : Sums(k, a, b) /\ Total(k, s, b)
      BY <1>1 DEF Coherent
  <2>2. Sums(k, changed, b)
      BY <2>1, <1>1, <1>4, <1>5, LastChanges
  <2>3. s.lines = b[n]
      BY <2>1, <1>1 DEF Total
  <2>4. Total(k, t, b)
    <3>1. t.lines = b[n] + r.lines /\ Len(t.attempts) = n /\ t.attempts[n] = new
        BY <2>3, <1>3, <1>4
    <3>2. r.lines = k.Lines[<<new.begin, new.finish>>] /\ new.outcome # "running"
        BY <1>1, <1>2
    <3> QED
        BY <3>1, <3>2 DEF Total
  <2> QED
      BY <2>1, <2>2, <2>4, <1>1, <1>4
<1>9. \A i \in 1 .. n : /\ changed[i].gen <= t.gen
                        /\ changed[i].outcome # "running" /\ changed[i].finish \in k.Trees
  <2>1. ASSUME NEW i \in 1 .. (n - 1)
        PROVE  changed[i].gen <= t.gen /\ changed[i].outcome # "running" /\ changed[i].finish \in k.Trees
      BY <1>3, <1>4, <1>6
  <2>2. changed[n].gen <= t.gen /\ changed[n].outcome # "running" /\ changed[n].finish \in k.Trees
      BY <1>1, <1>2, <1>3, <1>4, <1>6
  <2> QED
      BY <2>1, <2>2, <1>1
<1>10. Charged(t)
    BY <1>1, <1>3, <1>4, <1>5, <1>6 DEF Charged
<1>11. t.unit # None /\ t.attempts[n].gen = t.gen /\ t.attempts = changed
    BY <1>1, <1>3, <1>4, <1>5, <1>6
<1>12. Coherent(k, t)
    BY <1>4, <1>7, <1>8, <1>9, <1>10, <1>11 DEF Coherent
<1> QED
    BY <1>1, <1>3, <1>4, <1>5, <1>12 DEF t

(* What is recorded stays coherent: it does not depend on the revision, on *)
(* the requests or on the binding.                                         *)
LEMMA CoherentSame ==
    ASSUME NEW k, NEW s, NEW t, Coherent(k, s),
           t.attempts = s.attempts, t.gen = s.gen, t.unit = s.unit, t.charged = s.charged, t.lines = s.lines,
           t.complete <=> s.complete
    PROVE  Coherent(k, t)
BY DEF Coherent, Charged, Total

(* A record that follows is replayed, and says what it was built to say.   *)
LEMMA ApplyStep ==
    ASSUME NEW k, Bounds(k), NEW s \in Statuses(k), s.ok, Coherent(k, s),
           NEW r \in Records(k), Shaped(k, s, r), L(k)!Follows(s, r)
    PROVE  LET t == L(k)!Apply(s, r) IN
           /\ t \in Statuses(k) /\ t.ok /\ Coherent(k, t) /\ t.rev = r.rev
           /\ t.requests = Append(s.requests, [id |-> r.id, digest |-> r.digest, rev |-> r.rev])
           /\ \A i \in DOMAIN t.attempts :
                 \/ i \in DOMAIN s.attempts /\ t.attempts[i].token = s.attempts[i].token
                 \/ t.attempts[i].token = r.rev /\ r.op \in {"begin", "advance"}
<1> DEFINE e == L(k)!Effect(s, r)
           entry == [id |-> r.id, digest |-> r.digest, rev |-> r.rev]
<1>1. /\ e \in Statuses(k) /\ Coherent(k, e) /\ e.ok /\ e.requests = s.requests
      /\ \A i \in DOMAIN e.attempts :
            \/ i \in DOMAIN s.attempts /\ e.attempts[i].token = s.attempts[i].token
            \/ e.attempts[i].token = r.rev /\ r.op \in {"begin", "advance"}
  <2>1. s.attempts \in Seq(Attempts(k)) /\ DOMAIN s.attempts = 1 .. Len(s.attempts) /\ Len(s.attempts) \in Nat
      BY DEF Statuses
  <2>2. CASE r.op = "begin"
    <3>1. L(k)!Opens(s, r) /\ r.unit \in k.Units /\ e = L(k)!Opened(s, r)
        BY <2>2 DEF L!Follows, L!Effect, Shaped
    <3>2. e \in Statuses(k) /\ e.attempts \in Seq(Attempts(k))
        BY <3>1, OpenedStep DEF Statuses
    <3> QED
        BY <2>1, <2>2, <3>1, <3>2, OpenedStep
  <2>3. CASE r.op = "advance"
    <3> DEFINE c == L(k)!Closed(s)
    <3>1. L(k)!Opens(c, r) /\ r.unit \in k.Units /\ e = L(k)!Opened(c, r) /\ ~L(k)!Active(s)
        BY <2>3 DEF L!Follows, L!Effect, L!Advances, Shaped
    <3>2. c \in Statuses(k) /\ Coherent(k, c) /\ c.requests = s.requests /\ c.ok /\ c.attempts = s.attempts
        BY <3>1, ClosedStep
    <3> HIDE DEF c
    <3>3. e \in Statuses(k) /\ e.attempts \in Seq(Attempts(k))
        BY <3>1, <3>2, OpenedStep DEF Statuses
    <3> QED
        BY <2>1, <2>3, <3>1, <3>2, <3>3, OpenedStep
  <2>4. CASE r.op = "finish"
    <3>1. L(k)!Finishes(s, r) /\ e = L(k)!Finished(s, r)
        BY <2>4 DEF L!Follows, L!Effect
    <3> QED
        BY <2>4, <3>1, FinishedStep
  <2>5. CASE r.op = "remediate"
    <3> DEFINE f == L(k)!Finished(s, r)
    <3>1. L(k)!Finishes(s, r) /\ e = [f EXCEPT !.binding = IF r.exceeded THEN f.binding ELSE r.binding]
        BY <2>5 DEF L!Follows, L!Effect, L!Remediates
    <3>2. /\ f \in Statuses(k) /\ Coherent(k, f) /\ f.ok /\ f.requests = s.requests
          /\ DOMAIN f.attempts = DOMAIN s.attempts
          /\ \A i \in DOMAIN s.attempts : f.attempts[i].token = s.attempts[i].token
        BY <2>5, <3>1, FinishedStep
    <3> HIDE DEF f
    <3>3. /\ e \in Statuses(k) /\ e.attempts = f.attempts /\ e.ok /\ e.requests = f.requests
          /\ e.gen = f.gen /\ e.unit = f.unit /\ e.charged = f.charged /\ e.lines = f.lines
          /\ (e.complete <=> f.complete)
      <4>1. f.binding \in Bindings(k) /\ r.binding \in Bindings(k)
          BY <3>2 DEF Statuses, Records
      <4>2. PICK b \in Bindings(k) : e = [f EXCEPT !.binding = b]
          BY <3>1, <4>1
      <4> HIDE DEF e
      <4> QED
          BY <4>2, <3>2 DEF Statuses
    <3>4. Coherent(k, e)
      <4> HIDE DEF e
      <4> QED
          BY <3>2, <3>3, CoherentSame
    <3> QED
        BY <3>2, <3>3, <3>4
  <2>6. CASE r.op = "reset"
    <3>1. e = L(k)!Closed(s) /\ ~L(k)!Active(s)
        BY <2>6 DEF L!Follows, L!Effect
    <3> QED
        BY <3>1, ClosedStep
  <2>7. CASE r.op = "bind"
    <3>1. e = [s EXCEPT !.binding = r.binding] /\ r.binding \in Bindings(k)
        BY <2>7 DEF L!Effect, Records
    <3> HIDE DEF e
    <3>2. /\ e \in Statuses(k) /\ e.attempts = s.attempts /\ e.ok /\ e.requests = s.requests
          /\ e.gen = s.gen /\ e.unit = s.unit /\ e.charged = s.charged /\ e.lines = s.lines
          /\ (e.complete <=> s.complete)
        BY <3>1 DEF Statuses
    <3> QED
        BY <3>2, CoherentSame
  <2> QED
      BY <2>2, <2>3, <2>4, <2>5, <2>6, <2>7 DEF Records, Ops
<1>2. L(k)!Apply(s, r) = [e EXCEPT !.rev = r.rev, !.requests = Append(s.requests, entry)]
    BY <1>1 DEF L!Apply
<1> HIDE DEF e
<1> DEFINE t == L(k)!Apply(s, r)
<1>3. entry \in Entries(k) /\ r.rev \in Nat
    BY DEF Entries, Records
<1>4. Append(s.requests, entry) \in Seq(Entries(k))
    BY <1>3 DEF Statuses
<1> HIDE DEF t, entry
<1>5. t \in Statuses(k)
    BY <1>1, <1>2, <1>3, <1>4 DEF Statuses, t
<1>6. /\ t.attempts = e.attempts /\ t.ok /\ t.requests = Append(s.requests, entry) /\ t.rev = r.rev
      /\ t.gen = e.gen /\ t.unit = e.unit /\ t.charged = e.charged /\ t.lines = e.lines
      /\ (t.complete <=> e.complete)
    BY <1>1, <1>2 DEF Statuses, t
<1>7. Coherent(k, t)
    BY <1>1, <1>6, CoherentSame
<1> QED
    BY <1>1, <1>5, <1>6, <1>7 DEF t, entry

-----------------------------------------------------------------------------
(* Building *)

World(k) ==
    /\ cand \in k.Trees /\ leaf \in 1 .. k.MaxLineages /\ off \in BOOLEAN
    /\ approved \in [1 .. k.MaxLineages -> k.Trees \cup {None}]

LEMMA RequestOf ==
    ASSUME NEW k, NEW q \in Requests(k)
    PROVE  /\ q.op \in {"begin", "reset", "finish", "bind"}
           /\ q.op = "begin" => q.unit \in k.Units
           /\ q.op = "finish" => /\ q.outcome \in Outcomes /\ q.evidence \in k.Evidence
                                 /\ q.expected \in Bindings(k) /\ q.remediates \in k.Evidence \cup {None}
           /\ q.op = "bind" => q.expected \in Bindings(k) /\ q.lineage \in 1 .. k.MaxLineages
BY DEF Requests

(* What every record carries.                                              *)
LEMMA BaseRecord ==
    ASSUME NEW k, World(k), NEW s \in Statuses(k), NEW id \in L(k)!AllIds, NEW q \in Requests(k), NEW op \in Ops
    PROVE  LET r == L(k)!Record(s, id, q, op) IN
           /\ r \in Records(k) /\ r.op = op /\ r.id = id /\ r.prev = s.rev /\ r.gen = s.gen
           /\ r.ordinal = Len(s.attempts) /\ r.tree = cand
<1>1. Len(s.attempts) \in Nat /\ s.rev \in Nat /\ s.gen \in Nat
    BY DEF Statuses
<1> QED
    BY <1>1 DEF L!Record, Records, World, Bindings

(* A prepared review is of the candidate as it is.                         *)
LEMMA PreparedOf ==
    ASSUME NEW k, World(k), NEW l, NEW b \in L(k)!Prepared(l)
    PROVE  b \in Bindings(k) /\ b.tree = cand /\ b.lineage = l
BY DEF L!Prepared, World, Bindings

(* While reviews are on, a record that passes a bound attempt is of bytes  *)
(* that an approved review holds.                                          *)
Reviewed(o, s, r) ==
    ~o /\ r.op \in {"finish", "remediate"} /\ r.outcome = "passed" /\ s.binding # None =>
        r.tree = (IF r.op = "finish" THEN s.binding.tree ELSE r.binding.tree)

(* What a builder promises of its record.                                  *)
Built(k, o, s, id, q, r) ==
    /\ r \in Records(k) /\ r.id = id /\ r.prev = s.rev
    /\ L(k)!Follows(s, r) /\ Shaped(k, s, r) /\ Reviewed(o, s, r)
    /\ q.op = "begin" => r.op \in {"begin", "advance"}

LEMMA BuildsBegin ==
    ASSUME NEW k, Bounds(k), World(k), NEW s \in Statuses(k), NEW id \in L(k)!AllIds, NEW q \in Requests(k),
           Coherent(k, s), q.op = "begin", L(k)!Known(s, id) = {}, NEW r \in L(k)!BuildBegin(s, id, q)
    PROVE  Built(k, off, s, id, q, r)
<1> DEFINE advancing == s.complete /\ L(k)!AdvanceAdmissible(s, q.unit)
           fresh == s.unit = None \/ advancing
           op == IF advancing THEN "advance" ELSE "begin"
           base == L(k)!Record(s, id, q, op)
           gen == IF fresh THEN s.gen + 1 ELSE s.gen
           ordinal == Len(s.attempts) + 1
<1>1. /\ ~L(k)!Active(s) /\ ~s.decision /\ (s.complete => advancing)
      /\ ~fresh => q.unit = s.unit /\ cand = L(k)!LastAttempt(s).finish
      /\ ~advancing => s.charged < k.MaxAttempts /\ s.lines < k.MaxLines
      /\ r = [base EXCEPT !.unit = q.unit, !.gen = gen, !.ordinal = ordinal]
    BY DEF L!BuildBegin
<1>2. q.unit \in k.Units /\ gen \in Nat /\ ordinal \in Nat /\ op \in Ops
    BY RequestOf DEF Statuses, Ops
<1>3. /\ base \in Records(k) /\ base.op = op /\ base.id = id /\ base.prev = s.rev /\ base.tree = cand
    BY <1>2, BaseRecord
<1> HIDE DEF base
<1>4. /\ r \in Records(k) /\ r.op = op /\ r.id = id /\ r.prev = s.rev /\ r.tree = cand
      /\ r.unit = q.unit /\ r.gen = gen /\ r.ordinal = ordinal
  <2> HIDE DEF gen, ordinal, op
  <2> QED
      BY <1>1, <1>2, <1>3 DEF Records
<1>5. CASE advancing
  <2> DEFINE c == L(k)!Closed(s)
  <2>1. /\ c.unit = None /\ c.gen = s.gen /\ c.attempts = s.attempts /\ c.charged = 0 /\ c.lines = 0
        /\ ~c.complete /\ ~c.decision
      BY DEF L!Closed, Statuses
  <2> HIDE DEF c
  <2>2. L(k)!Opens(c, r)
      BY <1>1, <1>4, <1>5, <2>1 DEF L!Opens, L!Active, L!LastAttempt, Bounds
  <2>3. L(k)!Advances(s, r)
    <3>1. s.unit # None /\ s.attempts # << >>
        BY <1>5 DEF L!AdvanceAdmissible, Coherent
    <3> QED
        BY <1>1, <1>4, <1>5, <2>2, <3>1 DEF L!Advances, L!AdvanceAdmissible, c
  <2>4. r.op = "advance"
      BY <1>4, <1>5
  <2> QED
      BY <1>2, <1>4, <2>3, <2>4 DEF Built, L!Follows, Shaped, Reviewed
<1>6. CASE ~advancing
  <2>1. r.op = "begin"
      BY <1>4, <1>6
  <2>2. L(k)!Opens(s, r)
      BY <1>1, <1>4, <1>6 DEF L!Opens
  <2> QED
      BY <1>2, <1>4, <2>1, <2>2 DEF Built, L!Follows, Shaped, Reviewed
<1> QED
    BY <1>5, <1>6

LEMMA BuildsReset ==
    ASSUME NEW k, Bounds(k), World(k), NEW s \in Statuses(k), NEW id \in L(k)!AllIds, NEW q \in Requests(k),
           q.op = "reset", L(k)!Known(s, id) = {}, NEW r \in L(k)!BuildReset(s, id, q)
    PROVE  Built(k, off, s, id, q, r)
<1>1. /\ ~L(k)!Active(s) /\ s.unit # None /\ L(k)!ResetPermitted(s)
      /\ r = L(k)!Record(s, id, q, "reset")
    BY DEF L!BuildReset
<1>2. r \in Records(k) /\ r.op = "reset" /\ r.id = id /\ r.prev = s.rev /\ r.gen = s.gen
    BY <1>1, BaseRecord DEF Ops
<1> QED
    BY <1>1, <1>2 DEF Built, L!Follows, Shaped, Reviewed

LEMMA BuildsBind ==
    ASSUME NEW k, Bounds(k), World(k), NEW s \in Statuses(k), NEW id \in L(k)!AllIds, NEW q \in Requests(k),
           q.op = "bind", L(k)!Known(s, id) = {}, NEW r \in L(k)!BuildBind(s, id, q)
    PROVE  Built(k, off, s, id, q, r)
<1> DEFINE base == L(k)!Record(s, id, q, "bind")
<1>1. PICK b \in L(k)!Prepared(q.lineage) : s.binding = q.expected /\ r = [base EXCEPT !.binding = b, !.expected = q.expected]
    BY DEF L!BuildBind
<1>2. b \in Bindings(k) /\ q.expected \in Bindings(k)
    BY PreparedOf, RequestOf
<1>3. base \in Records(k) /\ base.op = "bind" /\ base.id = id /\ base.prev = s.rev
    BY BaseRecord DEF Ops
<1> HIDE DEF base
<1>4. r \in Records(k) /\ r.op = "bind" /\ r.id = id /\ r.prev = s.rev /\ r.expected = s.binding
    BY <1>1, <1>2, <1>3 DEF Records
<1> QED
    BY <1>4 DEF Built, L!Follows, Shaped, Reviewed

LEMMA BuildsFinish ==
    ASSUME NEW k, Bounds(k), World(k), NEW s \in Statuses(k), NEW id \in L(k)!AllIds, NEW q \in Requests(k),
           Coherent(k, s), q.op = "finish", L(k)!Known(s, id) = {}, NEW r \in L(k)!BuildFinish(s, id, q)
    PROVE  Built(k, off, s, id, q, r)
<1> DEFINE last == s.attempts[Len(s.attempts)]
           charge == k.Lines[<<last.begin, cand>>]
           exceeded == s.lines + charge > k.MaxLines
           finish(op) == [L(k)!Record(s, id, q, op) EXCEPT !.outcome = q.outcome, !.evidence = q.evidence,
                              !.lines = charge, !.exceeded = exceeded]
<1>1. /\ L(k)!Active(s)
      /\ q.successor = None => r = finish("finish") /\ L(k)!BoundExit(s, q)
      /\ q.successor # None => \E b \in L(k)!Prepared(q.successor) :
             /\ L(k)!Succeeds(s, q, b)
             /\ r = [finish("remediate") EXCEPT !.binding = b, !.expected = q.expected, !.remediates = q.remediates]
    BY DEF L!BuildFinish, L!LastAttempt
<1>2. /\ s.attempts # << >> /\ last \in Attempts(k) /\ last.outcome = "running" /\ s.lines \in Nat
      /\ s.attempts \in Seq(Attempts(k))
  <2>1. s.attempts \in Seq(Attempts(k)) /\ s.lines \in Nat
      BY DEF Statuses
  <2>2. s.attempts # << >> /\ last.outcome = "running"
      BY <1>1 DEF L!Active, L!LastAttempt
  <2>3. last \in Attempts(k)
    <3> DEFINE a == s.attempts
    <3>1. a \in Seq(Attempts(k)) /\ a # << >>
        BY <2>1, <2>2
    <3> HIDE DEF a
    <3>2. a[Len(a)] \in Attempts(k)
        BY <3>1
    <3> QED
        BY <3>2 DEF a
  <2> QED
      BY <2>1, <2>2, <2>3
<1>3. charge \in Nat /\ exceeded \in BOOLEAN
    BY <1>2 DEF Attempts, Bounds, World
<1>4. /\ q.outcome \in Outcomes /\ q.evidence \in k.Evidence /\ q.expected \in Bindings(k)
      /\ q.remediates \in k.Evidence \cup {None}
    BY RequestOf
<1> HIDE DEF charge, exceeded
<1>5. ASSUME NEW op \in Ops
      PROVE  LET x == finish(op) IN
             /\ x \in Records(k) /\ x.op = op /\ x.id = id /\ x.prev = s.rev /\ x.ordinal = Len(s.attempts)
             /\ x.tree = cand /\ x.outcome = q.outcome /\ x.lines = charge /\ x.exceeded = exceeded
             /\ x.evidence = q.evidence
  <2> DEFINE base == L(k)!Record(s, id, q, op)
  <2>1. /\ base \in Records(k) /\ base.op = op /\ base.id = id /\ base.prev = s.rev
        /\ base.ordinal = Len(s.attempts) /\ base.tree = cand
      BY BaseRecord
  <2> HIDE DEF base
  <2>2. finish(op) = [base EXCEPT !.outcome = q.outcome, !.evidence = q.evidence, !.lines = charge, !.exceeded = exceeded]
      BY DEF base
  <2> HIDE DEF finish
  <2> QED
      BY <1>3, <1>4, <2>1, <2>2 DEF Records
<1> HIDE DEF finish
<1>6. CASE q.successor = None
  <2>1. r = finish("finish") /\ L(k)!BoundExit(s, q)
      BY <1>1, <1>6
  <2>2. /\ r \in Records(k) /\ r.op = "finish" /\ r.id = id /\ r.prev = s.rev /\ r.ordinal = Len(s.attempts)
        /\ r.tree = cand /\ r.outcome = q.outcome /\ r.lines = charge /\ r.exceeded = exceeded
      BY <1>5, <2>1 DEF Ops
  <2>3. L(k)!Finishes(s, r) /\ L(k)!Follows(s, r)
      BY <1>1, <2>2 DEF L!Finishes, L!Follows, exceeded
  <2>4. Shaped(k, s, r)
      BY <1>4, <2>2 DEF Shaped, charge
  <2>5. Reviewed(off, s, r)
      BY <2>1, <2>2, PreparedOf DEF Reviewed, L!BoundExit
  <2> QED
      BY <2>2, <2>3, <2>4, <2>5 DEF Built
<1>7. CASE q.successor # None
  <2> DEFINE f == finish("remediate")
  <2>1. PICK b \in L(k)!Prepared(q.successor) :
             /\ L(k)!Succeeds(s, q, b)
             /\ r = [f EXCEPT !.binding = b, !.expected = q.expected, !.remediates = q.remediates]
      BY <1>1, <1>7
  <2>2. /\ f \in Records(k) /\ f.op = "remediate" /\ f.id = id /\ f.prev = s.rev /\ f.ordinal = Len(s.attempts)
        /\ f.tree = cand /\ f.outcome = q.outcome /\ f.lines = charge /\ f.exceeded = exceeded /\ f.evidence = q.evidence
      BY <1>5 DEF Ops
  <2>3. b \in Bindings(k) /\ b.tree = cand
      BY PreparedOf
  <2> HIDE DEF f
  <2>4. r \in Records(k)
      BY <1>4, <2>1, <2>2, <2>3 DEF Records
  <2>5. /\ r.op = "remediate" /\ r.id = id /\ r.prev = s.rev /\ r.ordinal = Len(s.attempts)
        /\ r.tree = cand /\ r.outcome = q.outcome /\ r.lines = charge /\ r.exceeded = exceeded
      BY <2>1, <2>2 DEF Records
  <2>6. r.evidence = q.evidence /\ r.binding = b /\ r.expected = q.expected /\ r.remediates = q.remediates
      BY <2>1, <2>2 DEF Records
  <2>7. L(k)!Finishes(s, r)
      BY <1>1, <2>5 DEF L!Finishes, exceeded
  <2>8. L(k)!Remediates(s, r) /\ L(k)!Follows(s, r)
      BY <2>1, <2>5, <2>6, <2>7 DEF L!Remediates, L!Succeeds, L!Follows
  <2>9. Shaped(k, s, r)
      BY <1>4, <2>5 DEF Shaped, charge
  <2>10. Reviewed(off, s, r)
      BY <2>3, <2>5, <2>6 DEF Reviewed
  <2> QED
      BY <2>4, <2>5, <2>8, <2>9, <2>10 DEF Built
<1> QED
    BY <1>6, <1>7

(* The builders and the replay agree.                                      *)
LEMMA BuildFollows ==
    ASSUME NEW k, Bounds(k), World(k), NEW s \in Statuses(k), NEW id \in L(k)!AllIds, NEW q \in Requests(k),
           Coherent(k, s), L(k)!Known(s, id) = {}, NEW r \in L(k)!Build(s, id, q)
    PROVE  Built(k, off, s, id, q, r)
<1>1. q.op \in {"begin", "reset", "finish", "bind"}
    BY RequestOf
<1>2. CASE q.op = "begin"
    BY <1>2, BuildsBegin DEF L!Build
<1>3. CASE q.op = "reset"
    BY <1>3, BuildsReset DEF L!Build
<1>4. CASE q.op = "finish"
    BY <1>4, BuildsFinish DEF L!Build
<1>5. CASE q.op = "bind"
    BY <1>5, BuildsBind DEF L!Build
<1> QED
    BY <1>1, <1>2, <1>3, <1>4, <1>5

-----------------------------------------------------------------------------
(* Chains *)

(* The state a record is written on, of a list of records P replays.       *)
Before(k, P, h) == IF h = 0 THEN L(k)!Empty ELSE P[h]

(* b is the first j elements of a.                                         *)
Prefix(b, a, j) == Len(b) = j /\ \A i \in 1 .. j : b[i] = a[i]

(* Every request a chain has recorded is in the record it names, and that  *)
(* record's own chain is the part of this one up to it.                    *)
Traced(R, P, n, a) ==
    \A j \in DOMAIN a : /\ a[j].rev \in 1 .. n /\ R[a[j].rev].id = a[j].id
                        /\ Prefix(P[a[j].rev].requests, a, j)

(* The token of an attempt names the record that began it.                 *)
Named(R, n, a) == \A i \in DOMAIN a : a[i].token \in 1 .. n /\ R[a[i].token].op \in {"begin", "advance"}

Entry(r, n) == [id |-> r.id, digest |-> r.digest, rev |-> n]

(* The n-th record follows the chain it was written on.                    *)
Sound(k, R, P, n) ==
    /\ R[n].prev \in 0 .. (n - 1)
    /\ P[n].ok /\ P[n].rev = n /\ Coherent(k, P[n])
    /\ L(k)!Known(Before(k, P, R[n].prev), R[n].id) = {}
    /\ P[n].requests = Append(Before(k, P, R[n].prev).requests, Entry(R[n], n))
    /\ Len(P[n].requests) <= n
    /\ Traced(R, P, n, P[n].requests)
    /\ Named(R, n, P[n].attempts)

LEMMA EmptyStatus ==
    ASSUME NEW k, Bounds(k)
    PROVE  LET s == L(k)!Empty IN
           /\ s \in Statuses(k) /\ s.ok /\ s.rev = 0 /\ s.requests = << >> /\ s.attempts = << >> /\ Coherent(k, s)
<1> DEFINE s == L(k)!Empty
<1>1. s \in Statuses(k)
    BY DEF L!Empty, Statuses, Bindings
<1>2. s.ok /\ s.rev = 0 /\ s.requests = << >> /\ s.attempts = << >> /\ s.unit = None /\ s.lines = 0 /\ s.charged = 0 /\ ~s.complete
    BY DEF L!Empty
<1> HIDE DEF s
<1>3. \E b \in [DOMAIN s.attempts -> Nat] : Sums(k, s.attempts, b)
  <2>1. DOMAIN s.attempts = {}
      BY <1>2
  <2>2. [x \in {} |-> 0] \in [DOMAIN s.attempts -> Nat]
      BY <2>1
  <2> QED
      BY <2>1, <2>2 DEF Sums
<1>4. Near(k, s.attempts) /\ Steady(s.attempts)
    BY <1>2 DEF Near, Steady
<1>5. Coherent(k, s)
  <2>1. DOMAIN s.attempts = {} /\ s.unit = None
      BY <1>2
  <2> QED
      BY <1>2, <1>3, <1>4, <2>1 DEF Coherent
<1> QED
    BY <1>1, <1>2, <1>5 DEF s

(* What follows, follows whatever revision it gets.                        *)
LEMMA RevisionFree ==
    ASSUME NEW k, NEW s, NEW r \in Records(k), NEW n \in Nat, L(k)!Follows(s, r), Shaped(k, s, r)
    PROVE  LET x == [r EXCEPT !.rev = n] IN
           /\ x \in Records(k) /\ x.rev = n /\ x.id = r.id /\ x.digest = r.digest /\ x.op = r.op
           /\ L(k)!Follows(s, x) /\ Shaped(k, s, x)
<1> DEFINE x == [r EXCEPT !.rev = n]
<1>1. x \in Records(k) /\ x.rev = n
    BY DEF Records
<1>2. /\ x.id = r.id /\ x.digest = r.digest /\ x.op = r.op /\ x.prev = r.prev /\ x.unit = r.unit /\ x.gen = r.gen
      /\ x.ordinal = r.ordinal /\ x.tree = r.tree /\ x.outcome = r.outcome /\ x.lines = r.lines
      /\ x.exceeded = r.exceeded /\ x.evidence = r.evidence /\ x.binding = r.binding /\ x.expected = r.expected
      /\ x.remediates = r.remediates
    BY DEF Records
<1> HIDE DEF x
<1>3. Shaped(k, s, x)
    BY <1>2 DEF Shaped
<1>4. ASSUME NEW c, L(k)!Opens(c, r) PROVE L(k)!Opens(c, x)
    BY <1>2, <1>4 DEF L!Opens
<1>5. L(k)!Advances(s, r) => L(k)!Advances(s, x)
    BY <1>2, <1>4 DEF L!Advances
<1>6. L(k)!Finishes(s, r) => L(k)!Finishes(s, x)
    BY <1>2 DEF L!Finishes
<1>7. L(k)!Remediates(s, r) => L(k)!Remediates(s, x)
    BY <1>2, <1>6 DEF L!Remediates
<1>8. L(k)!Follows(s, x)
    BY <1>2, <1>4, <1>5, <1>6, <1>7 DEF L!Follows
<1> QED
    BY <1>1, <1>2, <1>3, <1>8 DEF x

(* A record depends on those before it only.                               *)
LEMMA SoundSame ==
    ASSUME NEW k, NEW n \in Nat, NEW R, NEW P, NEW R2, NEW P2, n # 0,
           \A m \in 1 .. n : R2[m] = R[m] /\ P2[m] = P[m], Sound(k, R, P, n)
    PROVE  Sound(k, R2, P2, n)
<1>1. R2[n] = R[n] /\ P2[n] = P[n]
    OBVIOUS
<1>2. R[n].prev \in 0 .. (n - 1)
    BY DEF Sound
<1>3. Before(k, P2, R[n].prev) = Before(k, P, R[n].prev)
    BY <1>2 DEF Before
<1>4. Traced(R2, P2, n, P[n].requests)
    BY DEF Sound, Traced
<1>5. Named(R2, n, P[n].attempts)
    BY DEF Sound, Named
<1> QED
    BY <1>1, <1>3, <1>4, <1>5 DEF Sound

(* The records and what their chains say.                                  *)
Chained(k, R, P) ==
    /\ R \in Seq(Records(k)) /\ P \in Seq(Statuses(k)) /\ Len(P) = Len(R)
    /\ \A n \in 1 .. Len(R) : Sound(k, R, P, n)

LEMMA BeforeType ==
    ASSUME NEW k, Bounds(k), NEW R, NEW P, Chained(k, R, P), NEW h \in 0 .. Len(R)
    PROVE  LET s == Before(k, P, h) IN
           /\ s \in Statuses(k) /\ s.ok /\ s.rev = h /\ Coherent(k, s) /\ s.requests \in Seq(Entries(k))
           /\ s.attempts \in Seq(Attempts(k)) /\ Len(s.requests) <= h
           /\ Traced(R, P, h, s.requests) /\ Named(R, h, s.attempts)
<1> DEFINE s == Before(k, P, h)
<1>1. CASE h = 0
  <2>1. /\ s \in Statuses(k) /\ s.ok /\ s.rev = 0 /\ s.requests = << >> /\ s.attempts = << >> /\ Coherent(k, s)
      BY <1>1, EmptyStatus DEF Before
  <2> HIDE DEF s
  <2>2. DOMAIN s.requests = {} /\ DOMAIN s.attempts = {} /\ Len(s.requests) = 0
      BY <2>1
  <2>3. Traced(R, P, h, s.requests) /\ Named(R, h, s.attempts)
      BY <2>2 DEF Traced, Named
  <2> QED
      BY <1>1, <2>1, <2>2, <2>3 DEF Statuses, s
<1>2. CASE h # 0
  <2>1. h \in 1 .. Len(R) /\ s = P[h] /\ P \in Seq(Statuses(k)) /\ Len(P) = Len(R) /\ R \in Seq(Records(k))
      BY <1>2 DEF Before, Chained
  <2>2. s \in Statuses(k) /\ Sound(k, R, P, h)
      BY <2>1 DEF Chained
  <2> HIDE DEF s
  <2> QED
      BY <2>1, <2>2 DEF Sound, Statuses, s
<1> QED
    BY <1>1, <1>2

(* A record that follows extends the list.                                 *)
LEMMA ChainedGrows ==
    ASSUME NEW k, Bounds(k), NEW R, NEW P, Chained(k, R, P), NEW r \in Records(k), r.prev \in 0 .. Len(R),
           L(k)!Follows(Before(k, P, r.prev), r), Shaped(k, Before(k, P, r.prev), r)
    PROVE  Chained(k, Append(R, r), Append(P, L(k)!Apply(Before(k, P, r.prev), [r EXCEPT !.rev = Len(R) + 1])))
<1> DEFINE n == Len(R) + 1
           s == Before(k, P, r.prev)
           x == [r EXCEPT !.rev = n]
           t == L(k)!Apply(s, x)
           R2 == Append(R, r)
           P2 == Append(P, t)
<1>1. /\ R \in Seq(Records(k)) /\ P \in Seq(Statuses(k)) /\ Len(P) = Len(R) /\ Len(R) \in Nat /\ n \in Nat
      /\ \A m \in 1 .. Len(R) : Sound(k, R, P, m)
    BY DEF Chained
<1>2. /\ s \in Statuses(k) /\ s.ok /\ Coherent(k, s) /\ s.requests \in Seq(Entries(k)) /\ Len(s.requests) <= r.prev
      /\ s.attempts \in Seq(Attempts(k)) /\ Traced(R, P, r.prev, s.requests) /\ Named(R, r.prev, s.attempts)
    BY BeforeType
<1>3. /\ x \in Records(k) /\ x.rev = n /\ x.id = r.id /\ x.digest = r.digest /\ x.op = r.op
      /\ L(k)!Follows(s, x) /\ Shaped(k, s, x)
    BY <1>1, RevisionFree
<1> HIDE DEF x, s
<1>4. /\ t \in Statuses(k) /\ t.ok /\ Coherent(k, t) /\ t.rev = n
      /\ t.requests = Append(s.requests, Entry(r, n))
      /\ \A i \in DOMAIN t.attempts :
            \/ i \in DOMAIN s.attempts /\ t.attempts[i].token = s.attempts[i].token
            \/ t.attempts[i].token = n /\ r.op \in {"begin", "advance"}
    BY <1>2, <1>3, ApplyStep DEF Entry
<1> HIDE DEF t
<1>5. /\ R2 \in Seq(Records(k)) /\ P2 \in Seq(Statuses(k)) /\ Len(R2) = n /\ Len(P2) = n
      /\ R2[n] = r /\ P2[n] = t /\ \A m \in 1 .. Len(R) : R2[m] = R[m] /\ P2[m] = P[m]
    BY <1>1, <1>4
<1> HIDE DEF R2, P2
<1>6. ASSUME NEW m \in 1 .. Len(R) PROVE Sound(k, R2, P2, m)
  <2>1. m \in Nat /\ m # 0 /\ \A i \in 1 .. m : R2[i] = R[i] /\ P2[i] = P[i]
      BY <1>1, <1>5
  <2> QED
      BY <2>1, <1>1, SoundSame
<1>7. Before(k, P2, r.prev) = s
    BY <1>1, <1>5 DEF Before, s
<1>8. r.prev \in 0 .. (n - 1) /\ r.prev \in Nat /\ n = Len(R) + 1
    BY <1>1
<1>9. L(k)!Known(s, r.id) = {}
    BY DEF L!Follows, s
<1> HIDE DEF n
<1>10. Len(t.requests) <= n
  <2>1. Len(t.requests) = Len(s.requests) + 1 /\ Len(s.requests) \in Nat
      BY <1>2, <1>4
  <2> QED
      BY <2>1, <1>2, <1>8, <1>1
<1>11. Traced(R2, P2, n, t.requests)
  <2> DEFINE a == s.requests
             b == t.requests
             e == Entry(r, n)
  <2>1. /\ Len(a) \in Nat /\ DOMAIN a = 1 .. Len(a) /\ DOMAIN b = 1 .. (Len(a) + 1) /\ b[Len(a) + 1] = e
        /\ \A i \in 1 .. Len(a) : b[i] = a[i]
      BY <1>2, <1>4
  <2>2. e.rev = n /\ e.id = r.id
      BY DEF Entry
  <2>3. Len(b) = Len(a) + 1
      BY <1>2, <1>4
  <2> SUFFICES ASSUME NEW j \in 1 .. (Len(a) + 1)
               PROVE  b[j].rev \in 1 .. n /\ R2[b[j].rev].id = b[j].id /\ Prefix(P2[b[j].rev].requests, b, j)
      BY <2>1 DEF Traced
  <2>4. CASE j = Len(a) + 1
    <3>1. b[j] = e /\ P2[n].requests = b /\ R2[n] = r /\ n \in 1 .. n
        BY <2>1, <2>4, <1>5, <1>8, <1>1
    <3> QED
        BY <2>2, <2>3, <2>4, <3>1 DEF Prefix
  <2>5. CASE j \in 1 .. Len(a)
    <3> DEFINE h == a[j].rev
    <3>1. b[j] = a[j] /\ h \in 1 .. r.prev /\ R[h].id = a[j].id /\ Prefix(P[h].requests, a, j)
        BY <2>1, <2>5, <1>2 DEF Traced
    <3>2. h \in 1 .. Len(R) /\ h \in 1 .. n
        BY <3>1, <1>8, <1>1
    <3> HIDE DEF h
    <3>3. R2[h] = R[h] /\ P2[h] = P[h]
        BY <3>2, <1>5
    <3>4. Prefix(P[h].requests, b, j)
        BY <3>1, <2>1, <2>5 DEF Prefix
    <3> QED
        BY <3>1, <3>2, <3>3, <3>4 DEF h
  <2> QED
      BY <2>1, <2>4, <2>5
<1>12. Named(R2, n, t.attempts)
  <2> SUFFICES ASSUME NEW i \in DOMAIN t.attempts
               PROVE  t.attempts[i].token \in 1 .. n /\ R2[t.attempts[i].token].op \in {"begin", "advance"}
      BY DEF Named
  <2>1. CASE i \in DOMAIN s.attempts /\ t.attempts[i].token = s.attempts[i].token
    <3> DEFINE h == s.attempts[i].token
    <3>1. h \in 1 .. r.prev /\ R[h].op \in {"begin", "advance"}
        BY <2>1, <1>2 DEF Named
    <3>2. h \in 1 .. Len(R) /\ h \in 1 .. n
        BY <3>1, <1>8, <1>1
    <3> HIDE DEF h
    <3> QED
        BY <2>1, <3>1, <3>2, <1>5 DEF h
  <2>2. CASE t.attempts[i].token = n /\ r.op \in {"begin", "advance"}
      BY <2>2, <1>5, <1>8, <1>1
  <2> QED
      BY <1>4, <2>1, <2>2
<1>13. Sound(k, R2, P2, n)
    BY <1>4, <1>5, <1>7, <1>8, <1>9, <1>10, <1>11, <1>12 DEF Sound
<1>14. \A m \in 1 .. Len(R2) : Sound(k, R2, P2, m)
  <2>1. ASSUME NEW m \in 1 .. n PROVE m = n \/ m \in 1 .. Len(R)
      BY <1>8, <1>1
  <2> QED
      BY <2>1, <1>5, <1>6, <1>13
<1> QED
    BY <1>5, <1>14 DEF Chained, R2, P2, t, x, s, n

(* The revisions of a chain.                                               *)
Chain(k, P, h) == {e.rev : e \in L(k)!Recorded(Before(k, P, h))}

LEMMA RecordedOf ==
    ASSUME NEW k, Bounds(k), NEW R, NEW P, Chained(k, R, P), NEW h \in 0 .. Len(R)
    PROVE  LET a == Before(k, P, h).requests IN
           /\ a \in Seq(Entries(k)) /\ DOMAIN a = 1 .. Len(a) /\ Len(a) \in 0 .. h
           /\ \A e : e \in L(k)!Recorded(Before(k, P, h)) <=> \E j \in 1 .. Len(a) : e = a[j]
           /\ \A n : n \in Chain(k, P, h) <=> \E j \in 1 .. Len(a) : n = a[j].rev
<1> DEFINE a == Before(k, P, h).requests
<1>1. a \in Seq(Entries(k)) /\ Len(a) <= h
    BY BeforeType
<1>2. DOMAIN a = 1 .. Len(a) /\ Len(a) \in Nat
    BY <1>1
<1>3. \A e : e \in L(k)!Recorded(Before(k, P, h)) <=> \E j \in 1 .. Len(a) : e = a[j]
    BY <1>2 DEF L!Recorded
<1>4. \A n : n \in Chain(k, P, h) <=> \E j \in 1 .. Len(a) : n = a[j].rev
    BY <1>3 DEF Chain
<1> QED
    BY <1>1, <1>2, <1>3, <1>4

LEMMA ChainOf ==
    ASSUME NEW k, Bounds(k), NEW R, NEW P, Chained(k, R, P), NEW h \in 0 .. Len(R), Before(k, P, h) = P[h]
    PROVE  /\ \A e : e \in L(k)!Recorded(Before(k, P, h)) <=> \E j \in 1 .. Len(P[h].requests) : e = P[h].requests[j]
           /\ \A n : n \in Chain(k, P, h) <=> \E j \in 1 .. Len(P[h].requests) : n = P[h].requests[j].rev
BY RecordedOf

(* The chain of a revision in a chain is the part of it up to there.       *)
LEMMA ChainPrefix ==
    ASSUME NEW k, Bounds(k), NEW R, NEW P, Chained(k, R, P), NEW h \in 0 .. Len(R), NEW m \in Chain(k, P, h)
    PROVE  LET a == Before(k, P, h).requests IN
           /\ m \in 1 .. h /\ m \in 1 .. Len(R)
           /\ \E j \in 1 .. Len(a) : a[j].rev = m /\ Prefix(P[m].requests, a, j)
           /\ Before(k, P, m) = P[m] /\ Chain(k, P, m) \subseteq Chain(k, P, h)
           /\ L(k)!Recorded(Before(k, P, m)) \subseteq L(k)!Recorded(Before(k, P, h))
<1> DEFINE a == Before(k, P, h).requests
           b == Before(k, P, m).requests
<1>1. /\ DOMAIN a = 1 .. Len(a) /\ Len(a) \in 0 .. h
      /\ \A e : e \in L(k)!Recorded(Before(k, P, h)) <=> \E j \in 1 .. Len(a) : e = a[j]
      /\ \A n : n \in Chain(k, P, h) <=> \E j \in 1 .. Len(a) : n = a[j].rev
    BY RecordedOf
<1>2. Traced(R, P, h, a)
    BY BeforeType
<1>3. Len(R) \in Nat
    BY DEF Chained
<1>4. PICK j \in 1 .. Len(a) : a[j].rev = m
    BY <1>1
<1>5. m \in 1 .. h /\ Prefix(P[m].requests, a, j)
    BY <1>1, <1>2, <1>4 DEF Traced
<1>6. m \in 1 .. Len(R) /\ m # 0 /\ m \in 0 .. Len(R)
    BY <1>3, <1>5
<1>7. Before(k, P, m) = P[m] /\ b = P[m].requests
    BY <1>6 DEF Before
<1>8. /\ \A e : e \in L(k)!Recorded(Before(k, P, m)) <=> \E i \in 1 .. Len(b) : e = b[i]
      /\ \A n : n \in Chain(k, P, m) <=> \E i \in 1 .. Len(b) : n = b[i].rev
    BY <1>6, <1>7, ChainOf
<1>9. \A i \in 1 .. Len(b) : i \in 1 .. Len(a) /\ b[i] = a[i]
    BY <1>1, <1>4, <1>5, <1>7 DEF Prefix
<1> HIDE DEF a, b
<1>10. Chain(k, P, m) \subseteq Chain(k, P, h)
    BY <1>1, <1>8, <1>9
<1>11. L(k)!Recorded(Before(k, P, m)) \subseteq L(k)!Recorded(Before(k, P, h))
    BY <1>1, <1>8, <1>9
<1>12. \E i \in 1 .. Len(a) : a[i].rev = m /\ Prefix(P[m].requests, a, i)
    BY <1>4, <1>5
<1> QED
    BY <1>5, <1>6, <1>7, <1>10, <1>11, <1>12 DEF a

(* Of two revisions of a chain one is in the chain of the other.           *)
LEMMA ChainLater ==
    ASSUME NEW k, Bounds(k), NEW R, NEW P, Chained(k, R, P), NEW h \in 0 .. Len(R),
           NEW m \in Chain(k, P, h), NEW l \in Chain(k, P, h), l \notin Chain(k, P, m)
    PROVE  m \in Chain(k, P, l)
<1> DEFINE a == Before(k, P, h).requests
<1>1. DOMAIN a = 1 .. Len(a) /\ Len(a) \in Nat
    BY RecordedOf
<1>2. /\ m \in 0 .. Len(R) /\ Before(k, P, m) = P[m]
      /\ \E j \in 1 .. Len(a) : a[j].rev = m /\ Prefix(P[m].requests, a, j)
    BY ChainPrefix DEF Chained
<1>3. /\ l \in 0 .. Len(R) /\ Before(k, P, l) = P[l]
      /\ \E j \in 1 .. Len(a) : a[j].rev = l /\ Prefix(P[l].requests, a, j)
    BY ChainPrefix DEF Chained
<1>4. PICK i \in 1 .. Len(a) : a[i].rev = m /\ Prefix(P[m].requests, a, i)
    BY <1>2
<1>5. PICK j \in 1 .. Len(a) : a[j].rev = l /\ Prefix(P[l].requests, a, j)
    BY <1>3
<1>6. /\ \A y : y \in Chain(k, P, m) <=> \E x \in 1 .. Len(P[m].requests) : y = P[m].requests[x].rev
      /\ \A y : y \in Chain(k, P, l) <=> \E x \in 1 .. Len(P[l].requests) : y = P[l].requests[x].rev
    BY <1>2, <1>3, ChainOf
<1>7. ~(j <= i)
  <2>1. SUFFICES ASSUME j <= i PROVE FALSE
      OBVIOUS
  <2>2. j \in 1 .. i
      BY <2>1, <1>1
  <2>3. P[m].requests[j].rev = l /\ j \in 1 .. Len(P[m].requests)
      BY <2>2, <1>4, <1>5 DEF Prefix
  <2> QED
      BY <2>3, <1>6
<1>8. i \in 1 .. j
    BY <1>1, <1>7
<1>9. P[l].requests[i].rev = m /\ i \in 1 .. Len(P[l].requests)
    BY <1>8, <1>4, <1>5 DEF Prefix
<1> QED
    BY <1>6, <1>9

(* A record is the last of its own chain.                                  *)
LEMMA ChainStep ==
    ASSUME NEW k, Bounds(k), NEW R, NEW P, Chained(k, R, P), NEW h \in 1 .. Len(R)
    PROVE  LET a == Before(k, P, R[h].prev).requests IN
           /\ R[h].prev \in 0 .. Len(R) /\ Before(k, P, h) = P[h]
           /\ P[h].requests = Append(a, Entry(R[h], h))
           /\ L(k)!Recorded(Before(k, P, h)) = L(k)!Recorded(Before(k, P, R[h].prev)) \cup {Entry(R[h], h)}
           /\ Chain(k, P, h) = Chain(k, P, R[h].prev) \cup {h} /\ h \in Chain(k, P, h)
<1> DEFINE a == Before(k, P, R[h].prev).requests
           b == P[h].requests
           e == Entry(R[h], h)
<1>1. Len(R) \in Nat /\ R[h].prev \in 0 .. (h - 1) /\ b = Append(a, e)
    BY DEF Chained, Sound
<1>2. R[h].prev \in 0 .. Len(R) /\ h \in 0 .. Len(R) /\ h # 0
    BY <1>1
<1>3. Before(k, P, h) = P[h]
    BY <1>2 DEF Before
<1>4. /\ a \in Seq(Entries(k))
      /\ \A x : x \in L(k)!Recorded(Before(k, P, R[h].prev)) <=> \E j \in 1 .. Len(a) : x = a[j]
      /\ \A n : n \in Chain(k, P, R[h].prev) <=> \E j \in 1 .. Len(a) : n = a[j].rev
    BY <1>2, RecordedOf
<1>5. /\ \A x : x \in L(k)!Recorded(Before(k, P, h)) <=> \E j \in 1 .. Len(b) : x = b[j]
      /\ \A n : n \in Chain(k, P, h) <=> \E j \in 1 .. Len(b) : n = b[j].rev
    BY <1>2, <1>3, RecordedOf
<1>6. Len(a) \in Nat /\ Len(b) = Len(a) + 1 /\ b[Len(a) + 1] = e /\ \A j \in 1 .. Len(a) : b[j] = a[j]
    BY <1>1, <1>4
<1>7. e.rev = h
    BY DEF Entry
<1> HIDE DEF a, b, e
<1>8. \A j : j \in 1 .. Len(b) <=> j \in 1 .. Len(a) \/ j = Len(a) + 1
    BY <1>6
<1>9. L(k)!Recorded(Before(k, P, h)) = L(k)!Recorded(Before(k, P, R[h].prev)) \cup {e}
  <2>1. \A x : x \in L(k)!Recorded(Before(k, P, h)) <=> x \in L(k)!Recorded(Before(k, P, R[h].prev)) \/ x = e
      BY <1>4, <1>5, <1>6, <1>8
  <2> QED
      BY <2>1
<1>10. Chain(k, P, h) = Chain(k, P, R[h].prev) \cup {h}
  <2>1. \A n : n \in Chain(k, P, h) <=> n \in Chain(k, P, R[h].prev) \/ n = h
      BY <1>4, <1>5, <1>6, <1>7, <1>8
  <2> QED
      BY <2>1
<1> QED
    BY <1>1, <1>2, <1>3, <1>9, <1>10 DEF a, b, e

-----------------------------------------------------------------------------
(* Reading *)

(* A chain whose records are all there is read whole.                      *)
LEMMA ReadWhole ==
    ASSUME NEW k, Bounds(k), NEW R, NEW P, Chained(k, R, P), Len(R) <= k.MaxRecords, NEW D,
           NEW h \in 0 .. Len(R), Chain(k, P, h) \subseteq D
    PROVE  h # 0 => /\ {h} \cup {e.rev : e \in L(k)!Recorded(P[h])} \subseteq D
                    /\ Len(P[h].requests) <= k.ChainLimit /\ Before(k, P, h) = P[h]
<1> SUFFICES ASSUME h # 0
             PROVE  /\ {h} \cup {e.rev : e \in L(k)!Recorded(P[h])} \subseteq D
                    /\ Len(P[h].requests) <= k.ChainLimit /\ Before(k, P, h) = P[h]
    OBVIOUS
<1>1. Len(R) \in Nat /\ h \in 1 .. Len(R) /\ Before(k, P, h) = P[h]
    BY DEF Chained, Before
<1>2. h \in Chain(k, P, h)
    BY <1>1, ChainStep
<1>3. \A e \in L(k)!Recorded(P[h]) : e.rev \in Chain(k, P, h)
    BY <1>1 DEF Chain
<1>4. Len(P[h].requests) \in 0 .. h
    BY <1>1, RecordedOf
<1> QED
    BY <1>1, <1>2, <1>3, <1>4 DEF Bounds

(* The records and what the chains say, the files, and who was told what.  *)
Lists(k) ==
    /\ Chained(k, records, replay) /\ Len(records) <= k.MaxRecords
    /\ \A n \in 1 .. Len(records) : Reviewed(off, Before(k, replay, records[n].prev), records[n])
Files(k) ==
    /\ present \subseteq 1 .. Len(records) /\ durable \subseteq present
    /\ head \in 0 .. Len(records) /\ synced \in 0 .. Len(records)
    /\ Chain(k, replay, head) \subseteq durable /\ Chain(k, replay, synced) \subseteq durable
    /\ synced = 0 \/ synced \in Chain(k, replay, head)
Told(k) == \A id \in acked : \E e \in L(k)!Recorded(Before(k, replay, synced)) : e.id = id
Store(k) == Lists(k) /\ Files(k) /\ Told(k) /\ World(k) /\ faults \in 0 .. k.MaxFaults

LEMMA Readable ==
    ASSUME NEW k, Bounds(k), Lists(k), Files(k), NEW h \in 0 .. Len(records), Chain(k, replay, h) \subseteq present
    PROVE  L(k)!StatusAt(h) = Before(k, replay, h)
<1>1. h # 0 => /\ {h} \cup {e.rev : e \in L(k)!Recorded(replay[h])} \subseteq present
               /\ Len(replay[h].requests) <= k.ChainLimit /\ Before(k, replay, h) = replay[h]
    BY ReadWhole DEF Lists
<1> QED
    BY <1>1 DEF L!StatusAt, Before

LEMMA CurrentIs ==
    ASSUME NEW k, Bounds(k), Lists(k), Files(k)
    PROVE  /\ L(k)!StatusAt(head) = Before(k, replay, head) /\ L(k)!Current = Before(k, replay, head)
           /\ L(k)!StatusAt(synced) = Before(k, replay, synced)
<1>1. /\ head \in 0 .. Len(records) /\ Chain(k, replay, head) \subseteq present
      /\ synced \in 0 .. Len(records) /\ Chain(k, replay, synced) \subseteq present
    BY DEF Files
<1> QED
    BY <1>1, Readable DEF L!Current

(* The log is the identifiers of the chain of HEAD.                        *)
Taken(a) == [n \in DOMAIN a |-> a[n].id]

LEMMA LogIs ==
    ASSUME NEW k, Bounds(k), Lists(k), Files(k)
    PROVE  L(k)!Log = Taken(Before(k, replay, head).requests)
BY CurrentIs DEF L!Log, Taken

(* The same of the next state.                                             *)
LEMMA LogNext ==
    ASSUME NEW k, Bounds(k), Lists(k)', Files(k)'
    PROVE  L(k)!Log' = Taken(Before(k, replay', head').requests)
<1>1. /\ Chained(k, records', replay') /\ Len(records') <= k.MaxRecords
      /\ head' \in 0 .. Len(records') /\ Chain(k, replay', head') \subseteq present'
    BY DEF Lists, Files
<1>2. head' # 0 => /\ {head'} \cup {e.rev : e \in L(k)!Recorded(replay'[head'])} \subseteq present'
                   /\ Len(replay'[head'].requests) <= k.ChainLimit /\ Before(k, replay', head') = replay'[head']
    BY <1>1, ReadWhole
<1>3. L(k)!Current' = Before(k, replay', head')
    BY <1>2 DEF L!Current, L!StatusAt, Before
<1> QED
    BY <1>3 DEF L!Log, Taken

-----------------------------------------------------------------------------
(* The callers *)

Locks == {"built", "recorded", "headed"}
Places == {"idle", "call", "done", "unsure"} \cup Locks
Calls(k) ==
    [id : L(k)!AllIds, q : Requests(k), via : {"direct", "acquire", "settle"}, fresh : BOOLEAN,
     got : Nat, record : Records(k) \cup {L(k)!NoCall}]

(* What a caller has in hand at each place: a record built on HEAD; the    *)
(* revision of its record, which is durable; that revision, at HEAD.       *)
InHand(k, R, P, D, o, top, p, h) ==
    /\ p = "built" => Built(k, o, Before(k, P, top), h.id, h.q, h.record)
    /\ p \in {"recorded", "headed"} =>
          /\ h.got \in D /\ R[h.got].id = h.id
          /\ h.q.op = "begin" => R[h.got].op \in {"begin", "advance"}
    /\ p = "recorded" => R[h.got].prev = top
    /\ p = "headed" => h.got = top

Placed(k) ==
    /\ pc \in [k.Callers -> Places] /\ call \in [k.Callers -> Calls(k) \cup {L(k)!NoCall}]
    /\ \A c \in k.Callers : pc[c] # "idle" => call[c] \in Calls(k)
    /\ \A c, d \in k.Callers : pc[c] \in Locks /\ pc[d] \in Locks => c = d
Holding(k) ==
    \A c \in k.Callers : InHand(k, records, replay, durable, off, head, pc[c], call[c])
Inv(k) == Store(k) /\ Placed(k) /\ Holding(k)

(* One caller moves.                                                       *)
Moved(c, p, h) == pc' = [pc EXCEPT ![c] = p] /\ call' = [call EXCEPT ![c] = h]

LEMMA MoveKeeps ==
    ASSUME NEW k, Placed(k), NEW c \in k.Callers, NEW p \in Places, NEW h \in Calls(k) \cup {L(k)!NoCall},
           p # "idle" => h \in Calls(k), Moved(c, p, h),
           p \in Locks => \A d \in k.Callers \ {c} : pc[d] \notin Locks,
           InHand(k, records', replay', durable', off', head', p, h),
           \A d \in k.Callers \ {c} : InHand(k, records', replay', durable', off', head', pc[d], call[d])
    PROVE  Placed(k)' /\ Holding(k)'
<1>1. /\ pc' \in [k.Callers -> Places] /\ call' \in [k.Callers -> Calls(k) \cup {L(k)!NoCall}]
      /\ pc'[c] = p /\ call'[c] = h /\ \A d \in k.Callers \ {c} : pc'[d] = pc[d] /\ call'[d] = call[d]
    BY DEF Placed, Moved
<1>2. ASSUME NEW d \in k.Callers, pc'[d] # "idle" PROVE call'[d] \in Calls(k)
    BY <1>1, <1>2 DEF Placed
<1>3. ASSUME NEW d \in k.Callers, NEW e \in k.Callers, pc'[d] \in Locks, pc'[e] \in Locks PROVE d = e
    BY <1>1, <1>3 DEF Placed
<1>4. ASSUME NEW d \in k.Callers PROVE InHand(k, records', replay', durable', off', head', pc'[d], call'[d])
    BY <1>1
<1>5. Placed(k)'
    BY <1>1, <1>2, <1>3 DEF Placed
<1>6. Holding(k)'
    BY <1>4 DEF Holding
<1> QED
    BY <1>5, <1>6

(* Without the lock a caller holds nothing.                                *)
LEMMA FreeHands ==
    ASSUME NEW k, NEW R, NEW P, NEW D, NEW o, NEW top, NEW p, NEW h, p \notin Locks
    PROVE  InHand(k, R, P, D, o, top, p, h)
BY DEF InHand, Locks

(* A caller moves where it holds nothing, and the store stays.             *)
LEMMA MoveFree ==
    ASSUME NEW k, Placed(k), Holding(k), NEW c \in k.Callers, NEW p \in Places \ Locks,
           NEW h \in Calls(k) \cup {L(k)!NoCall}, p # "idle" => h \in Calls(k), Moved(c, p, h),
           UNCHANGED <<records, replay, head, off>>, durable \subseteq durable'
    PROVE  Placed(k)' /\ Holding(k)'
<1>1. InHand(k, records', replay', durable', off', head', p, h)
    BY FreeHands
<1>2. \A d \in k.Callers \ {c} : InHand(k, records', replay', durable', off', head', pc[d], call[d])
  <2> SUFFICES ASSUME NEW d \in k.Callers \ {c}
               PROVE  InHand(k, records', replay', durable', off', head', pc[d], call[d])
      OBVIOUS
  <2>1. InHand(k, records, replay, durable, off, head, pc[d], call[d])
      BY DEF Holding
  <2> QED
      BY <2>1 DEF InHand
<1> QED
    BY <1>1, <1>2, MoveKeeps

LEMMA ReplyMoves ==
    ASSUME NEW k, NEW c, NEW a, L(k)!Reply(c, a)
    PROVE  Moved(c, "idle", L(k)!NoCall) /\ answer' = a
BY DEF L!Reply, Moved

LEMMA ReturnMoves ==
    ASSUME NEW k, NEW c, NEW h, NEW how, L(k)!Return(c, h, how)
    PROVE  /\ answer' = L(k)!NoAnswer
           /\ h.via = "direct" => Moved(c, "idle", L(k)!NoCall)
           /\ h.via # "direct" => Moved(c, how, h)
BY DEF L!Return, L!Reply, Moved

(* Nothing but the callers and what they are told.                         *)
LEMMA StoreStays ==
    ASSUME NEW k, Store(k), UNCHANGED <<records, replay, present, head, durable, synced>>,
           UNCHANGED <<cand, leaf, approved, off>>, UNCHANGED acked, faults' \in 0 .. k.MaxFaults
    PROVE  Store(k)'
BY DEF Store, Lists, Files, Told, World

Kept(k) == [Promise(k)!Next]_<<L(k)!Log, acked>>

LEMMA LogStays ==
    ASSUME NEW k, Bounds(k), Store(k), Store(k)',
           Before(k, replay', head').requests = Before(k, replay, head).requests, UNCHANGED acked
    PROVE  Kept(k)
BY LogIs, LogNext DEF Kept, Store

(* A failing call, or none.                                                *)
LEMMA FailCounts ==
    ASSUME NEW k, Bounds(k), Store(k), L(k)!Fail \/ UNCHANGED faults
    PROVE  faults' \in 0 .. k.MaxFaults
BY DEF L!Fail, Store, Bounds

(* What was recorded up to the synced HEAD is recorded up to HEAD.         *)
LEMMA SyncedRecorded ==
    ASSUME NEW k, Bounds(k), Store(k)
    PROVE  L(k)!Recorded(Before(k, replay, synced)) \subseteq L(k)!Recorded(Before(k, replay, head))
<1>1. Chained(k, records, replay) /\ head \in 0 .. Len(records)
    BY DEF Store, Lists, Files
<1>2. CASE synced = 0
  <2>1. Before(k, replay, synced).requests = << >>
      BY <1>2, EmptyStatus DEF Before
  <2> QED
      BY <2>1 DEF L!Recorded
<1>3. CASE synced \in Chain(k, replay, head)
    BY <1>1, <1>3, ChainPrefix
<1> QED
    BY <1>2, <1>3 DEF Store, Files

(* HEAD is in its own chain.                                               *)
LEMMA HeadInChain ==
    ASSUME NEW k, Bounds(k), Store(k)
    PROVE  head = 0 \/ head \in Chain(k, replay, head)
<1>1. Chained(k, records, replay) /\ head \in 0 .. Len(records) /\ Len(records) \in Nat
    BY DEF Store, Lists, Files, Chained
<1>2. CASE head # 0
  <2>1. head \in 1 .. Len(records)
      BY <1>1, <1>2
  <2> QED
      BY <1>1, <2>1, ChainStep
<1> QED
    BY <1>2

(* Both directories, or HEAD alone, are synced and a caller is told.       *)
LEMMA SyncStore ==
    ASSUME NEW k, Bounds(k), Store(k), NEW id \in L(k)!AllIds,
           \E e \in L(k)!Recorded(Before(k, replay, head)) : e.id = id,
           UNCHANGED <<records, replay, present, head>>, UNCHANGED <<cand, leaf, approved, off>>,
           durable' \in {durable, present}, synced' = head, acked' = acked \cup {id}, UNCHANGED faults
    PROVE  Store(k)' /\ Kept(k)
<1>1. Lists(k)' /\ World(k)' /\ faults' \in 0 .. k.MaxFaults
    BY DEF Store, Lists, World
<1>2. Files(k)'
    BY HeadInChain DEF Store, Files
<1>3. Told(k)'
    BY SyncedRecorded DEF Store, Told
<1>4. Store(k)'
    BY <1>1, <1>2, <1>3 DEF Store
<1>5. L(k)!Log' = L(k)!Log
    BY <1>1, <1>2, LogIs, LogNext DEF Store
<1>6. \E n \in DOMAIN L(k)!Log : L(k)!Log[n] = id
  <2> DEFINE a == Before(k, replay, head).requests
  <2>1. L(k)!Log = Taken(a)
      BY LogIs DEF Store
  <2>2. \E n \in DOMAIN a : a[n].id = id
      BY DEF L!Recorded
  <2> HIDE DEF a
  <2> QED
      BY <2>1, <2>2 DEF Taken
<1>7. Kept(k)
    BY <1>5, <1>6 DEF Kept, Promise!Next, Promise!Tell
<1> QED
    BY <1>4, <1>7

(* A mutation: refused, answered again, or a record built.                 *)
LEMMA MutateKeeps ==
    ASSUME NEW k, Bounds(k), Inv(k), NEW c \in k.Callers, pc[c] \notin Locks, NEW h \in Calls(k), L(k)!Mutate(c, h)
    PROVE  Inv(k)' /\ Kept(k)
<1> DEFINE s == Before(k, replay, head)
<1>1. Store(k) /\ Placed(k) /\ Holding(k) /\ Lists(k) /\ Files(k) /\ World(k) /\ Chained(k, records, replay)
    BY DEF Inv, Store, Lists
<1>2. L(k)!Current = s
    BY <1>1, CurrentIs
<1>3. h.id \in L(k)!AllIds /\ h.q \in Requests(k)
    BY DEF Calls
<1>4. s \in Statuses(k) /\ s.rev \in Nat /\ Coherent(k, s)
    BY <1>1, BeforeType DEF Files, Statuses
<1> HIDE DEF s
<1>5. CASE L(k)!Reply(c, L(k)!Refusal(h)) /\ UNCHANGED <<L(k)!store, L(k)!world, acked, faults>>
  <2>1. /\ UNCHANGED <<records, replay, present, head, durable, synced>> /\ UNCHANGED <<cand, leaf, approved, off>>
        /\ UNCHANGED acked /\ faults' \in 0 .. k.MaxFaults
      BY <1>1, <1>5 DEF L!store, L!world, Store
  <2>2. Store(k)'
      BY <1>1, <2>1, StoreStays
  <2>3. Placed(k)' /\ Holding(k)'
      BY <1>1, <1>5, <2>1, ReplyMoves, MoveFree DEF Places, Locks
  <2> QED
      BY <1>1, <2>1, <2>2, <2>3, LogStays DEF Inv
<1>6. CASE /\ \E x \in L(k)!Known(s, h.id) : x.digest = h.q
           /\ durable' = present /\ synced' = head /\ acked' = acked \cup {h.id}
           /\ L(k)!Return(c, [h EXCEPT !.got = s.rev], "done") /\ UNCHANGED faults
           /\ UNCHANGED <<records, replay, present, head, L(k)!world>>
  <2>1. /\ UNCHANGED <<records, replay, present, head>> /\ UNCHANGED <<cand, leaf, approved, off>>
      BY <1>6 DEF L!world
  <2>2. \E e \in L(k)!Recorded(Before(k, replay, head)) : e.id = h.id
      BY <1>6 DEF L!Known, s
  <2>3. Store(k)' /\ Kept(k)
      BY <1>1, <1>3, <1>6, <2>1, <2>2, SyncStore
  <2>4. [h EXCEPT !.got = s.rev] \in Calls(k)
      BY <1>4 DEF Calls
  <2>5. durable \subseteq durable'
      BY <1>1, <1>6 DEF Files
  <2>6. \/ Moved(c, "idle", L(k)!NoCall)
        \/ Moved(c, "done", [h EXCEPT !.got = s.rev])
      BY <1>6, ReturnMoves
  <2>7. Placed(k)' /\ Holding(k)'
      BY <1>1, <2>1, <2>4, <2>5, <2>6, MoveFree DEF Places, Locks
  <2> QED
      BY <2>3, <2>7 DEF Inv
<1>7. CASE /\ L(k)!Fail /\ L(k)!Return(c, h, "unsure") /\ UNCHANGED <<durable, synced, acked>>
           /\ UNCHANGED <<records, replay, present, head, L(k)!world>>
  <2>1. /\ UNCHANGED <<records, replay, present, head, durable, synced>> /\ UNCHANGED <<cand, leaf, approved, off>>
        /\ UNCHANGED acked /\ faults' \in 0 .. k.MaxFaults
      BY <1>1, <1>7, FailCounts DEF L!world
  <2>2. Store(k)'
      BY <1>1, <2>1, StoreStays
  <2>3. Moved(c, "idle", L(k)!NoCall) \/ Moved(c, "unsure", h)
      BY <1>7, ReturnMoves
  <2>4. Placed(k)' /\ Holding(k)'
      BY <1>1, <2>1, <2>3, MoveFree DEF Places, Locks
  <2> QED
      BY <1>1, <2>1, <2>2, <2>4, LogStays DEF Inv
<1>8. CASE /\ L(k)!Holder = {} /\ L(k)!Known(s, h.id) = {}
           /\ \E r \in L(k)!Build(s, h.id, h.q) : call' = [call EXCEPT ![c] = [h EXCEPT !.record = r]]
           /\ pc' = [pc EXCEPT ![c] = "built"]
           /\ UNCHANGED <<L(k)!store, L(k)!world, acked, faults>>
  <2>1. /\ UNCHANGED <<records, replay, present, head, durable, synced>> /\ UNCHANGED <<cand, leaf, approved, off>>
        /\ UNCHANGED acked /\ faults' \in 0 .. k.MaxFaults
      BY <1>1, <1>8 DEF L!store, L!world, Store
  <2>2. Store(k)'
      BY <1>1, <2>1, StoreStays
  <2>3. PICK r \in L(k)!Build(s, h.id, h.q) : call' = [call EXCEPT ![c] = [h EXCEPT !.record = r]]
      BY <1>8
  <2>4. Built(k, off, s, h.id, h.q, r)
      BY <1>1, <1>3, <1>4, <1>8, BuildFollows
  <2> DEFINE g == [h EXCEPT !.record = r]
  <2>5. g \in Calls(k) /\ g.id = h.id /\ g.q = h.q /\ g.record = r
      BY <2>4 DEF Calls, Built
  <2>6. Moved(c, "built", g)
      BY <1>8, <2>3 DEF Moved
  <2> HIDE DEF g
  <2>7. \A d \in k.Callers : pc[d] \notin Locks
      BY <1>8 DEF L!Holder, L!Locked, Locks
  <2>8. InHand(k, records', replay', durable', off', head', "built", g)
      BY <2>1, <2>4, <2>5 DEF InHand, s
  <2>9. \A d \in k.Callers \ {c} : InHand(k, records', replay', durable', off', head', pc[d], call[d])
      BY <2>7, FreeHands
  <2>10. Placed(k)' /\ Holding(k)'
      BY <1>1, <2>5, <2>6, <2>7, <2>8, <2>9, MoveKeeps DEF Places, Locks
  <2> QED
      BY <1>1, <2>1, <2>2, <2>10, LogStays DEF Inv
<1> QED
    BY <1>2, <1>5, <1>6, <1>7, <1>8 DEF L!Mutate

(* The record r is written, as the n-th content; it may be there already.  *)
Written(k, r, n) ==
    \/ n \in 1 .. Len(records) /\ records[n] = r /\ UNCHANGED <<records, replay>>
    \/ /\ n = Len(records) + 1 /\ n <= k.MaxRecords /\ records' = Append(records, r)
       /\ replay' = Append(replay, L(k)!Apply(Before(k, replay, r.prev), [r EXCEPT !.rev = n]))

LEMMA WriteGrows ==
    ASSUME NEW k, Bounds(k), Lists(k), head \in 0 .. Len(records), NEW id, NEW q, NEW r, NEW n,
           Built(k, off, Before(k, replay, head), id, q, r), Written(k, r, n), UNCHANGED off
    PROVE  /\ Lists(k)' /\ r \in Records(k) /\ r.prev = head /\ n \in 1 .. Len(records') /\ records'[n] = r
           /\ Len(records) \in 0 .. Len(records') /\ Len(records') \in Nat
           /\ \A m \in 1 .. Len(records) : records'[m] = records[m]
           /\ \A m \in 0 .. Len(records) : /\ Before(k, replay', m) = Before(k, replay, m)
                                           /\ Chain(k, replay', m) = Chain(k, replay, m)
<1> DEFINE s == Before(k, replay, head)
<1>1. /\ Chained(k, records, replay) /\ Len(records) <= k.MaxRecords /\ Len(records) \in Nat
      /\ records \in Seq(Records(k)) /\ replay \in Seq(Statuses(k)) /\ Len(replay) = Len(records)
    BY DEF Lists, Chained
<1>2. s.rev = head
    BY <1>1, BeforeType
<1>3. r \in Records(k) /\ r.prev = head /\ L(k)!Follows(s, r) /\ Shaped(k, s, r) /\ Reviewed(off, s, r)
    BY <1>2 DEF Built
<1>4. ASSUME \A m \in 0 .. Len(records) : Before(k, replay', m) = Before(k, replay, m)
      PROVE  \A m \in 0 .. Len(records) : Chain(k, replay', m) = Chain(k, replay, m)
    BY <1>4 DEF Chain
<1>5. CASE n \in 1 .. Len(records) /\ records[n] = r /\ UNCHANGED <<records, replay>>
  <2>1. Lists(k)'
      BY <1>5 DEF Lists
  <2> QED
      BY <1>1, <1>3, <1>5, <2>1
<1>6. CASE /\ n = Len(records) + 1 /\ n <= k.MaxRecords /\ records' = Append(records, r)
           /\ replay' = Append(replay, L(k)!Apply(Before(k, replay, r.prev), [r EXCEPT !.rev = n]))
  <2>1. Chained(k, records', replay')
      BY <1>1, <1>3, <1>6, ChainedGrows DEF s
  <2> DEFINE t == L(k)!Apply(Before(k, replay, r.prev), [r EXCEPT !.rev = n])
  <2>2. replay' = Append(replay, t)
      BY <1>6
  <2> HIDE DEF t, s
  <2>3. /\ Len(records') = n /\ records'[n] = r /\ \A m \in 1 .. Len(records) : records'[m] = records[m]
        /\ \A m \in 1 .. Len(records) : replay'[m] = replay[m]
      BY <1>1, <1>6, <2>2
  <2>4. \A m \in 0 .. Len(records) : Before(k, replay', m) = Before(k, replay, m)
      BY <2>3 DEF Before
  <2>5. ASSUME NEW m \in 1 .. Len(records') PROVE Reviewed(off', Before(k, replay', records'[m].prev), records'[m])
    <3>1. CASE m = n
      <4>1. Before(k, replay', records'[m].prev) = s
          BY <1>3, <2>3, <2>4, <3>1 DEF s
      <4> QED
          BY <1>3, <2>3, <3>1, <4>1
    <3>2. CASE m \in 1 .. Len(records)
      <4>1. records[m].prev \in 0 .. (m - 1)
          BY <1>1, <3>2 DEF Chained, Sound
      <4>2. records[m].prev \in 0 .. Len(records)
          BY <1>1, <3>2, <4>1
      <4>3. Before(k, replay', records'[m].prev) = Before(k, replay, records[m].prev)
          BY <2>3, <2>4, <3>2, <4>2
      <4>4. Reviewed(off, Before(k, replay, records[m].prev), records[m])
          BY <3>2 DEF Lists
      <4> QED
          BY <2>3, <3>2, <4>3, <4>4
    <3> QED
        BY <1>1, <1>6, <2>3, <3>1, <3>2
  <2>6. Lists(k)'
      BY <1>6, <2>1, <2>3, <2>5 DEF Lists
  <2> QED
      BY <1>1, <1>3, <1>4, <1>6, <2>3, <2>4, <2>6
<1> QED
    BY <1>5, <1>6 DEF Written

(* The record in hand becomes a content, and the chain of HEAD stays.      *)
Publishes(k, c, n) ==
    /\ pc[c] = "built" /\ call[c] \in Calls(k) /\ UNCHANGED <<head, synced>>
    /\ UNCHANGED <<cand, leaf, approved, off>> /\ UNCHANGED acked
    /\ Built(k, off, Before(k, replay, head), call[c].id, call[c].q, call[c].record)
    /\ present' = present \cup {n}
    /\ \/ /\ durable' = present' /\ UNCHANGED <<answer, faults>>
          /\ Moved(c, "recorded", [call[c] EXCEPT !.got = n])
       \/ L(k)!Fail /\ UNCHANGED durable /\ L(k)!Reply(c, L(k)!Refusal(call[c]))
    /\ Lists(k)' /\ n \in 1 .. Len(records') /\ records'[n] = call[c].record /\ call[c].record.prev = head
    /\ Len(records) \in 0 .. Len(records') /\ Len(records') \in Nat
    /\ \A m \in 1 .. Len(records) : records'[m] = records[m]
    /\ \A m \in 0 .. Len(records) : /\ Before(k, replay', m) = Before(k, replay, m)
                                    /\ Chain(k, replay', m) = Chain(k, replay, m)

LEMMA PublishWrites ==
    ASSUME NEW k, Bounds(k), Inv(k), NEW c \in k.Callers, L(k)!PublishRecord(c)
    PROVE  \E n : Publishes(k, c, n)
<1> DEFINE h == call[c]
           r == h.record
           old == {x \in DOMAIN records : records[x] = r}
           n == IF old = {} THEN Len(records) + 1 ELSE CHOOSE x \in old : TRUE
<1>1. /\ Store(k) /\ Placed(k) /\ Holding(k) /\ Lists(k) /\ Files(k) /\ Told(k) /\ World(k)
      /\ Chained(k, records, replay) /\ head \in 0 .. Len(records) /\ synced \in 0 .. Len(records)
      /\ DOMAIN records = 1 .. Len(records)
    BY DEF Inv, Store, Lists, Files, Chained
<1>2. pc[c] = "built" /\ h \in Calls(k) /\ UNCHANGED <<head, synced>> /\ UNCHANGED <<cand, leaf, approved, off>> /\ UNCHANGED acked
    BY <1>1 DEF L!PublishRecord, L!world, Placed
<1>3. Built(k, off, Before(k, replay, head), h.id, h.q, r)
    BY <1>1, <1>2 DEF Holding, InHand
<1>4. r.prev = head
    BY <1>1, <1>3, BeforeType DEF Built
<1>5. /\ present' = present \cup {n}
      /\ \/ /\ durable' = present' /\ UNCHANGED <<answer, faults>>
            /\ Moved(c, "recorded", [h EXCEPT !.got = n])
         \/ L(k)!Fail /\ UNCHANGED durable /\ L(k)!Reply(c, L(k)!Refusal(h))
    BY DEF L!PublishRecord, Moved
<1>6. Written(k, r, n)
  <2>1. CASE old = {}
      BY <1>4, <2>1 DEF L!PublishRecord, Written, Before
  <2>2. CASE old # {}
      BY <1>1, <2>2 DEF L!PublishRecord, Written
  <2> QED
      BY <2>1, <2>2
<1> HIDE DEF n, old
<1>7. /\ Lists(k)' /\ n \in 1 .. Len(records') /\ records'[n] = r
      /\ Len(records) \in 0 .. Len(records') /\ Len(records') \in Nat
      /\ \A m \in 1 .. Len(records) : records'[m] = records[m]
      /\ \A m \in 0 .. Len(records) : /\ Before(k, replay', m) = Before(k, replay, m)
                                      /\ Chain(k, replay', m) = Chain(k, replay, m)
    BY <1>1, <1>2, <1>3, <1>6, WriteGrows
<1>8. Publishes(k, c, n)
    BY <1>2, <1>3, <1>4, <1>5, <1>7 DEF Publishes
<1> QED
    BY <1>8

LEMMA PublishRecordKeeps ==
    ASSUME NEW k, Bounds(k), Inv(k), NEW c \in k.Callers, L(k)!PublishRecord(c)
    PROVE  Inv(k)' /\ Kept(k)
<1> DEFINE h == call[c]
           r == h.record
<1>1. /\ Store(k) /\ Placed(k) /\ Holding(k) /\ Lists(k) /\ Files(k) /\ Told(k) /\ World(k)
      /\ head \in 0 .. Len(records) /\ synced \in 0 .. Len(records)
    BY DEF Inv, Store, Files
<1>2. PICK n : Publishes(k, c, n)
    BY PublishWrites
<1>3. pc[c] = "built" /\ h \in Calls(k) /\ UNCHANGED <<head, synced>> /\ UNCHANGED <<cand, leaf, approved, off>> /\ UNCHANGED acked
    BY <1>2 DEF Publishes
<1>4. Built(k, off, Before(k, replay, head), h.id, h.q, r)
    BY <1>2 DEF Publishes
<1>5. /\ present' = present \cup {n}
      /\ \/ /\ durable' = present' /\ UNCHANGED <<answer, faults>>
            /\ Moved(c, "recorded", [h EXCEPT !.got = n])
         \/ L(k)!Fail /\ UNCHANGED durable /\ L(k)!Reply(c, L(k)!Refusal(h))
    BY <1>2 DEF Publishes
<1>6. /\ Lists(k)' /\ n \in 1 .. Len(records') /\ records'[n] = r /\ r.prev = head
      /\ Len(records) \in 0 .. Len(records') /\ Len(records') \in Nat
      /\ Before(k, replay', head) = Before(k, replay, head)
      /\ Chain(k, replay', head) = Chain(k, replay, head)
      /\ Before(k, replay', synced) = Before(k, replay, synced)
      /\ Chain(k, replay', synced) = Chain(k, replay, synced)
    BY <1>2, <1>1 DEF Publishes
<1>7. faults' \in 0 .. k.MaxFaults
    BY <1>1, <1>5, FailCounts
<1>8. Store(k)'
  <2>1. Files(k)'
      BY <1>1, <1>3, <1>5, <1>6 DEF Files
  <2>2. Told(k)'
      BY <1>1, <1>3, <1>6 DEF Told
  <2>3. World(k)'
      BY <1>1, <1>3 DEF World
  <2> QED
      BY <1>6, <1>7, <2>1, <2>2, <2>3 DEF Store
<1>9. Kept(k)
    BY <1>1, <1>3, <1>6, <1>8, LogStays
<1>10. \A d \in k.Callers \ {c} : pc[d] \notin Locks
    BY <1>1, <1>3 DEF Placed, Locks
<1>11. \A d \in k.Callers \ {c} : InHand(k, records', replay', durable', off', head', pc[d], call[d])
    BY <1>10, FreeHands
<1>12. CASE durable' = present' /\ Moved(c, "recorded", [h EXCEPT !.got = n])
  <2> DEFINE g == [h EXCEPT !.got = n]
  <2>1. g \in Calls(k) /\ g.got = n /\ g.id = h.id /\ g.q = h.q
      BY <1>3, <1>6 DEF Calls
  <2>2. Moved(c, "recorded", g)
      BY <1>12
  <2> HIDE DEF g
  <2>3. InHand(k, records', replay', durable', off', head', "recorded", g)
      BY <1>3, <1>4, <1>5, <1>6, <1>12, <2>1 DEF InHand, Built
  <2> QED
      BY <1>1, <1>8, <1>9, <1>10, <1>11, <2>1, <2>2, <2>3, MoveKeeps DEF Inv, Places, Locks
<1>13. CASE L(k)!Reply(c, L(k)!Refusal(h))
  <2>1. Moved(c, "idle", L(k)!NoCall)
      BY <1>13, ReplyMoves
  <2>2. InHand(k, records', replay', durable', off', head', "idle", L(k)!NoCall)
      BY FreeHands DEF Locks
  <2> QED
      BY <1>1, <1>8, <1>9, <1>11, <2>1, <2>2, MoveKeeps DEF Inv, Places, Locks
<1> QED
    BY <1>5, <1>12, <1>13

(* HEAD moves to a record that follows the one it was on.                  *)
LEMMA HeadStore ==
    ASSUME NEW k, Bounds(k), Store(k), NEW n \in durable, records[n].prev = head, head' = n,
           UNCHANGED <<records, replay, present, durable, synced>>, UNCHANGED <<cand, leaf, approved, off>>,
           UNCHANGED acked, UNCHANGED faults
    PROVE  Store(k)' /\ Kept(k)
<1> DEFINE a == Before(k, replay, head).requests
           id == records[n].id
<1>1. /\ Lists(k) /\ Files(k) /\ Told(k) /\ Chained(k, records, replay) /\ n \in 1 .. Len(records) /\ Len(records) \in Nat
      /\ head \in 0 .. Len(records)
    BY DEF Store, Lists, Files, Chained
<1>2. /\ Before(k, replay, n) = replay[n] /\ replay[n].requests = Append(a, Entry(records[n], n))
      /\ L(k)!Recorded(Before(k, replay, n)) = L(k)!Recorded(Before(k, replay, head)) \cup {Entry(records[n], n)}
      /\ Chain(k, replay, n) = Chain(k, replay, head) \cup {n}
    BY <1>1, ChainStep
<1>3. id \in L(k)!AllIds /\ L(k)!Known(Before(k, replay, head), id) = {}
  <2>1. records[n] \in Records(k) /\ Sound(k, records, replay, n)
      BY <1>1 DEF Chained
  <2> QED
      BY <2>1 DEF Sound, Records
<1>4. a \in Seq(Entries(k)) /\ \A e : e \in L(k)!Recorded(Before(k, replay, head)) <=> \E j \in 1 .. Len(a) : e = a[j]
    BY <1>1, RecordedOf
<1>5. \A j \in 1 .. Len(a) : a[j].id # id
    BY <1>3, <1>4 DEF L!Known
<1>6. Store(k)'
  <2>1. Lists(k)' /\ World(k)' /\ faults' \in 0 .. k.MaxFaults
      BY DEF Store, Lists, World
  <2>2. Files(k)'
      BY <1>1, <1>2 DEF Files
  <2>3. Told(k)'
      BY <1>1 DEF Told
  <2> QED
      BY <2>1, <2>2, <2>3 DEF Store
<1>7. L(k)!Log' = Append(L(k)!Log, id) /\ \A j \in DOMAIN L(k)!Log : L(k)!Log[j] # id
  <2> DEFINE e == Entry(records[n], n)
  <2>1. L(k)!Log = Taken(a) /\ L(k)!Log' = Taken(Append(a, e))
      BY <1>1, <1>2, <1>6, LogIs, LogNext DEF Store
  <2>2. e.id = id
      BY DEF Entry
  <2> HIDE DEF a, e, id
  <2>3. Taken(Append(a, e)) = Append(Taken(a), id)
      BY <1>4, <2>2 DEF Taken
  <2>4. \A j \in DOMAIN Taken(a) : Taken(a)[j] # id
      BY <1>4, <1>5 DEF Taken
  <2> QED
      BY <2>1, <2>3, <2>4
<1>8. Kept(k)
    BY <1>3, <1>7 DEF Kept, Promise!Next, Promise!Accept
<1> QED
    BY <1>6, <1>8

LEMMA PublishHeadKeeps ==
    ASSUME NEW k, Bounds(k), Inv(k), NEW c \in k.Callers, L(k)!PublishHead(c)
    PROVE  Inv(k)' /\ Kept(k)
<1> DEFINE h == call[c]
<1>1. Store(k) /\ Placed(k) /\ Holding(k)
    BY DEF Inv
<1>2. /\ pc[c] = "recorded" /\ h \in Calls(k) /\ UNCHANGED <<records, replay, present, durable, synced>>
      /\ UNCHANGED <<cand, leaf, approved, off>> /\ UNCHANGED acked
    BY <1>1 DEF L!PublishHead, L!world, Placed
<1>3. InHand(k, records, replay, durable, off, head, "recorded", h)
    BY <1>1, <1>2 DEF Holding
<1>4. h.got \in durable /\ records[h.got].prev = head
    BY <1>3 DEF InHand
<1>5. \A d \in k.Callers \ {c} : pc[d] \notin Locks
    BY <1>1, <1>2 DEF Placed, Locks
<1>6. \A d \in k.Callers \ {c} : InHand(k, records', replay', durable', off', head', pc[d], call[d])
    BY <1>5, FreeHands
<1>7. CASE head' = h.got /\ pc' = [pc EXCEPT ![c] = "headed"] /\ UNCHANGED <<call, answer, faults>>
  <2>1. Store(k)' /\ Kept(k)
      BY <1>1, <1>2, <1>4, <1>7, HeadStore
  <2>2. Moved(c, "headed", h)
      BY <1>1, <1>7 DEF Moved, Placed
  <2>3. InHand(k, records', replay', durable', off', head', "headed", h)
      BY <1>2, <1>3, <1>7 DEF InHand
  <2> QED
      BY <1>1, <1>2, <1>5, <1>6, <2>1, <2>2, <2>3, MoveKeeps DEF Inv, Places, Locks
<1>8. CASE L(k)!Fail /\ UNCHANGED head /\ L(k)!Reply(c, L(k)!Refusal(h))
  <2>1. Store(k)'
      BY <1>1, <1>2, <1>8, FailCounts, StoreStays
  <2>2. Placed(k)' /\ Holding(k)'
      BY <1>1, <1>2, <1>8, ReplyMoves, MoveFree DEF Places, Locks
  <2> QED
      BY <1>1, <1>2, <1>8, <2>1, <2>2, LogStays DEF Inv
<1> QED
    BY <1>7, <1>8 DEF L!PublishHead

LEMMA SyncHeadKeeps ==
    ASSUME NEW k, Bounds(k), Inv(k), NEW c \in k.Callers, L(k)!SyncHead(c)
    PROVE  Inv(k)' /\ Kept(k)
<1> DEFINE h == call[c]
<1>1. Store(k) /\ Placed(k) /\ Holding(k) /\ Lists(k) /\ Files(k) /\ Chained(k, records, replay)
    BY DEF Inv, Store, Lists
<1>2. /\ pc[c] = "headed" /\ h \in Calls(k) /\ h.id \in L(k)!AllIds
      /\ UNCHANGED <<records, replay, present, head, durable>> /\ UNCHANGED <<cand, leaf, approved, off>>
    BY <1>1 DEF L!SyncHead, L!world, Placed, Calls
<1>3. h.got = head /\ head \in durable /\ records[head].id = h.id
    BY <1>1, <1>2 DEF Holding, InHand
<1>4. head \in 1 .. Len(records) /\ head \in 0 .. Len(records)
    BY <1>1, <1>3 DEF Files
<1>5. L(k)!Current.ok
    BY <1>1, <1>4, CurrentIs, BeforeType
<1>6. \E e \in L(k)!Recorded(Before(k, replay, head)) : e.id = h.id
  <2>1. Entry(records[head], head) \in L(k)!Recorded(Before(k, replay, head))
      BY <1>1, <1>4, ChainStep
  <2>2. Entry(records[head], head).id = h.id
      BY <1>3 DEF Entry
  <2> QED
      BY <2>1, <2>2
<1>7. CASE synced' = head /\ UNCHANGED faults /\ acked' = acked \cup {h.id} /\ L(k)!Return(c, h, "done")
  <2>1. Store(k)' /\ Kept(k)
      BY <1>1, <1>2, <1>6, <1>7, SyncStore
  <2>2. Moved(c, "idle", L(k)!NoCall) \/ Moved(c, "done", h)
      BY <1>7, ReturnMoves
  <2>3. Placed(k)' /\ Holding(k)'
      BY <1>1, <1>2, <2>2, MoveFree DEF Places, Locks
  <2> QED
      BY <2>1, <2>3 DEF Inv
<1>8. CASE L(k)!Fail /\ L(k)!Return(c, h, "unsure") /\ UNCHANGED <<synced, acked>>
  <2>1. Store(k)'
      BY <1>1, <1>2, <1>8, FailCounts, StoreStays
  <2>2. Moved(c, "idle", L(k)!NoCall) \/ Moved(c, "unsure", h)
      BY <1>8, ReturnMoves
  <2>3. Placed(k)' /\ Holding(k)'
      BY <1>1, <1>2, <2>2, MoveFree DEF Places, Locks
  <2> QED
      BY <1>1, <1>2, <1>8, <2>1, <2>3, LogStays DEF Inv
<1> QED
    BY <1>5, <1>7, <1>8 DEF L!SyncHead

(* The mutation is over, or the process is.                                *)
LEMMA ReplyKeeps ==
    ASSUME NEW k, Bounds(k), Inv(k), NEW c \in k.Callers, NEW a, L(k)!Reply(c, a), L(k)!Fail \/ UNCHANGED faults,
           UNCHANGED <<L(k)!store, L(k)!world, acked>>
    PROVE  Inv(k)' /\ Kept(k)
<1>1. Store(k) /\ Placed(k) /\ Holding(k)
    BY DEF Inv
<1>2. /\ UNCHANGED <<records, replay, present, head, durable, synced>> /\ UNCHANGED <<cand, leaf, approved, off>>
      /\ UNCHANGED acked
    BY DEF L!store, L!world
<1>3. Store(k)'
    BY <1>1, <1>2, FailCounts, StoreStays
<1>4. Placed(k)' /\ Holding(k)'
    BY <1>1, <1>2, ReplyMoves, MoveFree DEF Places, Locks
<1> QED
    BY <1>1, <1>2, <1>3, <1>4, LogStays DEF Inv

(* A caller enters with a call.                                            *)
LEMMA SendKeeps ==
    ASSUME NEW k, Bounds(k), Inv(k), NEW c \in k.Callers, NEW h \in Calls(k), Moved(c, "call", h),
           UNCHANGED <<L(k)!store, L(k)!world, acked, faults>>
    PROVE  Inv(k)' /\ Kept(k)
<1>1. Store(k) /\ Placed(k) /\ Holding(k)
    BY DEF Inv
<1>2. /\ UNCHANGED <<records, replay, present, head, durable, synced>> /\ UNCHANGED <<cand, leaf, approved, off>>
      /\ UNCHANGED acked /\ faults' \in 0 .. k.MaxFaults
    BY <1>1 DEF L!store, L!world, Store
<1>3. Store(k)'
    BY <1>1, <1>2, StoreStays
<1>4. Placed(k)' /\ Holding(k)'
    BY <1>1, <1>2, MoveFree DEF Places, Locks
<1> QED
    BY <1>1, <1>2, <1>3, <1>4, LogStays DEF Inv

(* The callers and the ledger stay; the world moves.                       *)
LEMMA WorldKeeps ==
    ASSUME NEW k, Bounds(k), Inv(k), UNCHANGED <<L(k)!store, off, pc, call, acked, faults>>, World(k)'
    PROVE  Inv(k)' /\ Kept(k)
<1>1. /\ Store(k) /\ Placed(k) /\ Holding(k)
      /\ UNCHANGED <<records, replay, present, head, durable, synced>> /\ UNCHANGED <<off, pc, call, acked, faults>>
    BY DEF Inv, L!store
<1>2. Store(k)'
    BY <1>1 DEF Store, Lists, Files, Told
<1>3. Placed(k)' /\ Holding(k)'
    BY <1>1 DEF Placed, Holding
<1> QED
    BY <1>1, <1>2, <1>3, LogStays DEF Inv

-----------------------------------------------------------------------------
(* A power failure *)

(* HEAD comes back on its chain, at or after what was synced.              *)
LEMMA HeadsSinceIs ==
    ASSUME NEW k, Bounds(k), Store(k), NEW h \in L(k)!HeadsSince
    PROVE  /\ h = 0 \/ h \in Chain(k, replay, head)
           /\ synced = 0 \/ synced = h \/ synced \in Chain(k, replay, h)
<1>1. Lists(k) /\ Files(k) /\ Chained(k, records, replay) /\ head \in 0 .. Len(records)
    BY DEF Store, Lists, Files
<1>2. synced = 0 \/ synced \in Chain(k, replay, head)
    BY <1>1 DEF Files
<1>3. h \in {synced, head} \/ (h \in Chain(k, replay, head) /\ h \notin Chain(k, replay, synced))
    BY <1>1, CurrentIs DEF L!HeadsSince, Chain
<1>4. CASE h = synced
    BY <1>2, <1>4
<1>5. CASE h = head
    BY <1>2, <1>5, HeadInChain
<1>6. CASE h \in Chain(k, replay, head) /\ h \notin Chain(k, replay, synced)
    BY <1>1, <1>2, <1>6, ChainLater
<1> QED
    BY <1>3, <1>4, <1>5, <1>6

(* The log of the beginning of a chain is the beginning of its log.        *)
LEMMA TakenPrefix ==
    ASSUME NEW T, NEW a \in Seq(T), NEW b \in Seq(T), NEW j \in 0 .. Len(a), Prefix(b, a, j)
    PROVE  Taken(b) = SubSeq(Taken(a), 1, j) /\ j \in 0 .. Len(Taken(a))
<1>1. /\ Len(b) = j /\ \A i \in 1 .. j : b[i] = a[i]
      /\ DOMAIN a = 1 .. Len(a) /\ DOMAIN b = 1 .. j
    BY DEF Prefix
<1>2. Len(Taken(a)) = Len(a) /\ Taken(a) \in Seq({a[n].id : n \in DOMAIN a})
    BY DEF Taken
<1>3. SubSeq(Taken(a), 1, j) = [i \in 1 .. j |-> Taken(a)[i]]
    BY <1>2, SubSeqProperties
<1> QED
    BY <1>1, <1>2, <1>3 DEF Taken

LEMMA PowerLossStore ==
    ASSUME NEW k, Bounds(k), Store(k), NEW h \in L(k)!HeadsSince, NEW kept \in SUBSET (present \ durable),
           present' = durable \cup kept, durable' = present', head' = h, synced' = h,
           UNCHANGED <<records, replay>>, UNCHANGED <<cand, leaf, approved, off>>, UNCHANGED acked,
           faults' \in 0 .. k.MaxFaults
    PROVE  Store(k)' /\ Kept(k)
<1> DEFINE a == Before(k, replay, head).requests
           b == Before(k, replay, h).requests
<1>1. /\ Lists(k) /\ Files(k) /\ Told(k) /\ World(k) /\ Chained(k, records, replay) /\ Len(records) \in Nat
      /\ head \in 0 .. Len(records)
    BY DEF Store, Lists, Files, Chained
<1>2. /\ h = 0 \/ h \in Chain(k, replay, head)
      /\ synced = 0 \/ synced = h \/ synced \in Chain(k, replay, h)
    BY HeadsSinceIs
<1>3. /\ h \in 0 .. Len(records) /\ Chain(k, replay, h) \subseteq durable
      /\ \E j \in 0 .. Len(a) : Prefix(b, a, j)
  <2>1. CASE h = 0
    <3>1. b = << >> /\ Chain(k, replay, h) = {}
      <4>1. b = << >>
          BY <2>1, EmptyStatus DEF Before
      <4> QED
          BY <4>1 DEF Chain, L!Recorded
    <3>2. Prefix(b, a, 0) /\ 0 \in 0 .. Len(a)
        BY <1>1, <3>1, RecordedOf DEF Prefix
    <3> QED
        BY <1>1, <2>1, <3>1, <3>2
  <2>2. CASE h \in Chain(k, replay, head)
    <3>1. /\ h \in 1 .. Len(records) /\ Before(k, replay, h) = replay[h]
          /\ Chain(k, replay, h) \subseteq Chain(k, replay, head)
          /\ \E j \in 1 .. Len(a) : a[j].rev = h /\ Prefix(replay[h].requests, a, j)
        BY <1>1, <2>2, ChainPrefix
    <3> QED
        BY <1>1, <3>1 DEF Files
  <2> QED
      BY <1>2, <2>1, <2>2
<1>4. L(k)!Recorded(Before(k, replay, synced)) \subseteq L(k)!Recorded(Before(k, replay, h))
  <2>1. CASE synced = 0
    <3>1. Before(k, replay, synced).requests = << >>
        BY <2>1, EmptyStatus DEF Before
    <3> QED
        BY <3>1 DEF L!Recorded
  <2>2. CASE synced \in Chain(k, replay, h)
      BY <1>1, <1>3, <2>2, ChainPrefix
  <2> QED
      BY <1>2, <2>1, <2>2
<1>5. Store(k)'
  <2>1. Lists(k)' /\ World(k)'
      BY <1>1 DEF Lists, World
  <2>2. h = 0 \/ h \in Chain(k, replay, h)
      BY <1>1, <1>3, ChainStep
  <2>3. Files(k)'
      BY <1>1, <1>3, <2>2 DEF Files
  <2>4. Told(k)'
      BY <1>1, <1>4 DEF Told
  <2> QED
      BY <2>1, <2>3, <2>4 DEF Store
<1>6. L(k)!Log = Taken(a) /\ L(k)!Log' = Taken(b)
    BY <1>1, <1>5, LogIs, LogNext DEF Store
<1>7. a \in Seq(Entries(k)) /\ b \in Seq(Entries(k))
    BY <1>1, <1>3, RecordedOf
<1>8. \A id \in acked : \E n \in DOMAIN Taken(b) : Taken(b)[n] = id
  <2>1. \A id \in acked : \E e \in L(k)!Recorded(Before(k, replay, h)) : e.id = id
      BY <1>1, <1>4 DEF Told
  <2>2. \A id \in acked : \E n \in DOMAIN b : b[n].id = id
      BY <2>1 DEF L!Recorded
  <2> HIDE DEF b
  <2> QED
      BY <2>2 DEF Taken
<1> HIDE DEF a, b
<1>9. \E n \in 0 .. Len(Taken(a)) : Taken(b) = SubSeq(Taken(a), 1, n)
    BY <1>3, <1>7, TakenPrefix
<1>10. Kept(k)
    BY <1>6, <1>8, <1>9 DEF Kept, Promise!Next, Promise!Lose
<1> QED
    BY <1>5, <1>10

LEMMA PowerLossKeeps ==
    ASSUME NEW k, Bounds(k), Inv(k), L(k)!PowerLoss
    PROVE  Inv(k)' /\ Kept(k)
<1>1. Store(k) /\ faults' \in 0 .. k.MaxFaults
    BY FailCounts DEF Inv, L!PowerLoss
<1>2. /\ UNCHANGED <<records, replay>> /\ UNCHANGED <<cand, leaf, approved, off>> /\ UNCHANGED acked
      /\ pc' = [c \in k.Callers |-> "idle"] /\ call' = [c \in k.Callers |-> L(k)!NoCall]
    BY DEF L!PowerLoss, L!world
<1>3. PICK kept \in SUBSET (present \ durable), h \in L(k)!HeadsSince :
          present' = durable \cup kept /\ durable' = present' /\ head' = h /\ synced' = h
    BY DEF L!PowerLoss
<1>4. Store(k)' /\ Kept(k)
    BY <1>1, <1>2, <1>3, PowerLossStore
<1>5. Placed(k)'
    BY <1>2 DEF Placed, Places, Locks
<1>6. Holding(k)'
    BY <1>2, FreeHands DEF Holding, Locks
<1> QED
    BY <1>4, <1>5, <1>6 DEF Inv

-----------------------------------------------------------------------------
(* The operations *)

LEMMA FinishRequestType ==
    ASSUME NEW k, NEW at \in Nat, NEW o \in Outcomes, NEW e \in k.Evidence, NEW b \in Bindings(k),
           NEW l \in (1 .. k.MaxLineages) \cup {None}, NEW f \in k.Evidence \cup {None}
    PROVE  L(k)!FinishRequest(at, o, e, b, l, f) \in Requests(k)
BY DEF L!FinishRequest, Requests

LEMMA HandedType ==
    ASSUME NEW k, NEW id \in L(k)!AllIds, NEW q \in Requests(k), NEW via \in {"direct", "acquire", "settle"},
           NEW fresh \in BOOLEAN
    PROVE  L(k)!Handed(id, q, via, fresh) \in Calls(k)
BY DEF L!Handed, Calls

LEMMA DirectKeeps ==
    ASSUME NEW k, Bounds(k), Inv(k), NEW c \in k.Callers, NEW id \in L(k)!AllIds, NEW q \in Requests(k), L(k)!Direct(c, id, q)
    PROVE  Inv(k)' /\ Kept(k)
<1>1. L(k)!Handed(id, q, "direct", TRUE) \in Calls(k)
    BY HandedType
<1>2. pc[c] \notin Locks /\ L(k)!Mutate(c, L(k)!Handed(id, q, "direct", TRUE))
    BY DEF L!Direct, Locks
<1> QED
    BY <1>1, <1>2, MutateKeeps

LEMMA SentKeeps ==
    ASSUME NEW k, Bounds(k), Inv(k), NEW c \in k.Callers, NEW id \in L(k)!AllIds, NEW q \in Requests(k),
           NEW via \in {"acquire", "settle"}, NEW fresh \in BOOLEAN, L(k)!Send(c, id, q, via, fresh)
    PROVE  Inv(k)' /\ Kept(k)
<1>1. L(k)!Handed(id, q, via, fresh) \in Calls(k)
    BY HandedType
<1>2. /\ Moved(c, "call", L(k)!Handed(id, q, via, fresh))
      /\ UNCHANGED <<L(k)!store, L(k)!world, acked, faults>>
    BY DEF L!Send, Moved
<1> QED
    BY <1>1, <1>2, SendKeeps

(* What the callers read.                                                  *)
LEMMA ReadType ==
    ASSUME NEW k, Bounds(k), Inv(k)
    PROVE  /\ L(k)!Current = Before(k, replay, head) /\ L(k)!Current \in Statuses(k) /\ L(k)!Current.ok
           /\ L(k)!Current.rev \in Nat /\ L(k)!Current.binding \in Bindings(k)
           /\ L(k)!Current.evidence \in k.Evidence \cup {None}
           /\ \A id : \A x \in L(k)!Known(L(k)!Current, id) : x.digest \in Requests(k)
           /\ \A at \in L(k)!Seen : at \in Nat
<1>1. Lists(k) /\ Files(k) /\ Chained(k, records, replay) /\ head \in 0 .. Len(records)
    BY DEF Inv, Store, Lists, Files
<1>2. L(k)!Current = Before(k, replay, head)
    BY <1>1, CurrentIs
<1>3. L(k)!Current \in Statuses(k) /\ L(k)!Current.ok
    BY <1>1, <1>2, BeforeType
<1>4. /\ L(k)!Current.rev \in Nat /\ L(k)!Current.binding \in Bindings(k)
      /\ L(k)!Current.evidence \in k.Evidence \cup {None}
    BY <1>3 DEF Statuses
<1>5. \A id : \A x \in L(k)!Known(L(k)!Current, id) : x.digest \in Requests(k)
  <2>1. \A x \in L(k)!Recorded(L(k)!Current) : x \in Entries(k)
      BY <1>1, <1>2, RecordedOf
  <2> QED
      BY <2>1 DEF L!Known, Entries
<1>6. \A at \in L(k)!Seen : at \in Nat
  <2>1. \A n \in 1 .. Len(records) : records[n].prev \in Nat
    <3>1. \A n \in 1 .. Len(records) : records[n] \in Records(k)
        BY <1>1 DEF Chained
    <3> QED
        BY <3>1 DEF Records
  <2>2. head \in Nat /\ (head # 0 => head \in 1 .. Len(records))
      BY <1>1 DEF Chained
  <2> QED
      BY <2>1, <2>2 DEF L!Seen
<1> QED
    BY <1>2, <1>3, <1>4, <1>5, <1>6

LEMMA PlainKeeps ==
    ASSUME NEW k, Bounds(k), Inv(k), NEW c \in k.Callers,
           \/ L(k)!Begin(c) \/ L(k)!Reset(c) \/ L(k)!FinishPlain(c) \/ L(k)!FinishRemediation(c) \/ L(k)!Bind(c)
    PROVE  Inv(k)' /\ Kept(k)
<1>1. L(k)!Ids \subseteq L(k)!AllIds
    BY DEF L!AllIds
<1>2. CASE L(k)!Begin(c)
  <2>1. PICK id \in L(k)!Ids, u1 \in k.Units, at \in L(k)!Seen : L(k)!Direct(c, id, [op |-> "begin", at |-> at, unit |-> u1])
      BY <1>2 DEF L!Begin
  <2>2. [op |-> "begin", at |-> at, unit |-> u1] \in Requests(k)
      BY ReadType DEF Requests
  <2> QED
      BY <1>1, <2>1, <2>2, DirectKeeps
<1>3. CASE L(k)!Reset(c)
  <2>1. PICK id \in L(k)!Ids, at \in L(k)!Seen : L(k)!Direct(c, id, [op |-> "reset", at |-> at])
      BY <1>3 DEF L!Reset
  <2>2. [op |-> "reset", at |-> at] \in Requests(k)
      BY ReadType DEF Requests
  <2> QED
      BY <1>1, <2>1, <2>2, DirectKeeps
<1>4. CASE L(k)!FinishPlain(c)
  <2>1. PICK id \in L(k)!Ids, at \in L(k)!Seen, o \in Outcomes, e \in k.Evidence :
            L(k)!Direct(c, id, L(k)!FinishRequest(at, o, e, None, None, None))
      BY <1>4 DEF L!FinishPlain, Outcomes
  <2>2. L(k)!FinishRequest(at, o, e, None, None, None) \in Requests(k)
      BY ReadType, FinishRequestType DEF Bindings
  <2> QED
      BY <1>1, <2>1, <2>2, DirectKeeps
<1>5. CASE L(k)!FinishRemediation(c)
  <2>1. PICK id \in L(k)!Ids, at \in L(k)!Seen, e \in k.Evidence, f \in k.Evidence, l \in 1 .. k.MaxLineages :
            L(k)!Direct(c, id, L(k)!FinishRequest(at, "passed", e, L(k)!Current.binding, l, f))
      BY <1>5 DEF L!FinishRemediation, L!Lineages
  <2>2. L(k)!FinishRequest(at, "passed", e, L(k)!Current.binding, l, f) \in Requests(k)
      BY ReadType, FinishRequestType DEF Outcomes
  <2> QED
      BY <1>1, <2>1, <2>2, DirectKeeps
<1>6. CASE L(k)!Bind(c)
  <2> DEFINE b == L(k)!Current.binding
  <2>1. PICK l \in 1 .. k.MaxLineages : L(k)!Direct(c, <<"bind", b, l>>, [op |-> "bind", expected |-> b, lineage |-> l])
      BY <1>6 DEF L!Bind, L!Lineages
  <2>2. b \in Bindings(k)
      BY ReadType
  <2> HIDE DEF b
  <2>3. [op |-> "bind", expected |-> b, lineage |-> l] \in Requests(k)
      BY <2>2 DEF Requests
  <2>4. <<"bind", b, l>> \in L(k)!AllIds
      BY <2>2 DEF L!AllIds, L!BindIds, L!Lineages, Bindings
  <2> QED
      BY <2>1, <2>3, <2>4, DirectKeeps
<1> QED
    BY <1>2, <1>3, <1>4, <1>5, <1>6

LEMMA CompactKeeps ==
    ASSUME NEW k, Bounds(k), Inv(k), NEW c \in k.Callers,
           L(k)!Acquire(c) \/ L(k)!Settle(c) \/ L(k)!SettleAgain(c)
    PROVE  Inv(k)' /\ Kept(k)
<1> DEFINE s == L(k)!Current
<1>1. L(k)!Ids \subseteq L(k)!AllIds
    BY DEF L!AllIds
<1>2. /\ s.rev \in Nat /\ s.binding \in Bindings(k) /\ s.evidence \in k.Evidence \cup {None}
      /\ \A id : \A x \in L(k)!Known(s, id) : x.digest \in Requests(k)
    BY ReadType
<1>3. CASE L(k)!Acquire(c)
  <2>1. PICK id \in L(k)!Ids, u1 \in k.Units :
           \/ L(k)!Send(c, id, [op |-> "begin", at |-> s.rev, unit |-> u1], "acquire", TRUE)
           \/ \E x \in L(k)!Known(s, id) : L(k)!Send(c, id, x.digest, "acquire", FALSE)
      BY <1>3 DEF L!Acquire
  <2> HIDE DEF s
  <2>2. CASE L(k)!Send(c, id, [op |-> "begin", at |-> s.rev, unit |-> u1], "acquire", TRUE)
    <3>1. [op |-> "begin", at |-> s.rev, unit |-> u1] \in Requests(k)
        BY <1>2 DEF Requests
    <3> QED
        BY <1>1, <2>2, <3>1, SentKeeps
  <2>3. CASE \E x \in L(k)!Known(s, id) : L(k)!Send(c, id, x.digest, "acquire", FALSE)
    <3>1. PICK x \in L(k)!Known(s, id) : L(k)!Send(c, id, x.digest, "acquire", FALSE)
        BY <2>3
    <3>2. x.digest \in Requests(k)
        BY <1>2
    <3> QED
        BY <1>1, <3>1, <3>2, SentKeeps
  <2> QED
      BY <2>1, <2>2, <2>3
<1>4. CASE L(k)!Settle(c)
  <2>1. PICK id \in L(k)!Ids, o \in Outcomes, e \in k.Evidence :
           \/ /\ s.binding # None
              /\ L(k)!Send(c, id, L(k)!FinishRequest(s.rev, o, e, s.binding, s.binding.lineage, s.evidence), "settle", TRUE)
           \/ L(k)!Send(c, id, L(k)!FinishRequest(s.rev, o, e, None, None, None), "settle", TRUE)
      BY <1>4 DEF L!Settle, Outcomes
  <2> HIDE DEF s
  <2>2. /\ s.binding # None => L(k)!FinishRequest(s.rev, o, e, s.binding, s.binding.lineage, s.evidence) \in Requests(k)
        /\ L(k)!FinishRequest(s.rev, o, e, None, None, None) \in Requests(k)
    <3>1. s.binding # None => s.binding.lineage \in 1 .. k.MaxLineages
        BY <1>2 DEF Bindings
    <3>2. None \in Bindings(k)
        BY DEF Bindings
    <3> QED
        BY <1>2, <3>1, <3>2, FinishRequestType
  <2> QED
      BY <1>1, <2>1, <2>2, SentKeeps
<1>5. CASE L(k)!SettleAgain(c)
  <2>1. PICK id \in L(k)!Ids : \E x \in L(k)!Known(s, id) :
           \/ L(k)!Send(c, id, x.digest, "settle", FALSE)
           \/ UNCHANGED <<L(k)!store, L(k)!world, pc, call, acked, faults>>
      BY <1>5 DEF L!SettleAgain
  <2>2. CASE \E x \in L(k)!Known(s, id) : L(k)!Send(c, id, x.digest, "settle", FALSE)
    <3>1. PICK x \in L(k)!Known(s, id) : L(k)!Send(c, id, x.digest, "settle", FALSE)
        BY <2>2
    <3>2. x.digest \in Requests(k)
        BY <1>2
    <3> QED
        BY <1>1, <3>1, <3>2, SentKeeps
  <2>3. CASE UNCHANGED <<L(k)!store, L(k)!world, pc, call, acked, faults>>
    <3>1. World(k)'
        BY <2>3 DEF Inv, Store, World, L!world
    <3> QED
        BY <2>3, <3>1, WorldKeeps DEF L!world
  <2> QED
      BY <2>1, <2>2, <2>3
<1> QED
    BY <1>3, <1>4, <1>5

LEMMA WorldMoves ==
    ASSUME NEW k, Bounds(k), Inv(k), L(k)!Edit \/ L(k)!Approve \/ L(k)!Recover
    PROVE  Inv(k)' /\ Kept(k)
<1>1. World(k)
    BY DEF Inv, Store
<1>2. CASE L(k)!Edit
  <2>1. World(k)'
      BY <1>1, <1>2 DEF L!Edit, World
  <2> QED
      BY <1>2, <2>1, WorldKeeps DEF L!Edit
<1>3. CASE L(k)!Approve
  <2>1. World(k)'
      BY <1>1, <1>3 DEF L!Approve, World
  <2> QED
      BY <1>3, <2>1, WorldKeeps DEF L!Approve
<1>4. CASE L(k)!Recover
  <2>1. World(k)'
      BY <1>1, <1>4 DEF L!Recover, World, Bounds
  <2> QED
      BY <1>4, <2>1, WorldKeeps DEF L!Recover
<1> QED
    BY <1>2, <1>3, <1>4

(* Every step keeps the invariant, and is a step of the promise or none.   *)
LEMMA StepKeeps ==
    ASSUME NEW k, Bounds(k), Inv(k), L(k)!Next
    PROVE  Inv(k)' /\ Kept(k)
<1>1. ASSUME NEW c \in k.Callers, L(k)!Submit(c) PROVE Inv(k)' /\ Kept(k)
  <2>1. pc[c] \notin Locks /\ call[c] \in Calls(k) /\ L(k)!Mutate(c, call[c])
      BY <1>1 DEF L!Submit, Inv, Placed, Locks
  <2> QED
      BY <2>1, MutateKeeps
<1>2. ASSUME NEW c \in k.Callers, L(k)!Finish(c) \/ L(k)!Crash(c) PROVE Inv(k)' /\ Kept(k)
  <2>1. \E a : L(k)!Reply(c, a)
      BY <1>2 DEF L!Finish, L!Crash
  <2>2. UNCHANGED <<L(k)!store, L(k)!world, acked>> /\ (L(k)!Fail \/ UNCHANGED faults)
      BY <1>2 DEF L!Finish, L!Crash
  <2> QED
      BY <2>1, <2>2, ReplyKeeps
<1>3. ASSUME NEW c \in k.Callers, L(k)!Operation(c) PROVE Inv(k)' /\ Kept(k)
    BY <1>3, PlainKeeps, CompactKeeps DEF L!Operation
<1>4. ASSUME NEW c \in k.Callers, L(k)!Step(c) PROVE Inv(k)' /\ Kept(k)
    BY <1>1, <1>2, <1>4, PublishRecordKeeps, PublishHeadKeeps, SyncHeadKeeps DEF L!Step
<1> QED
    BY <1>2, <1>3, <1>4, PowerLossKeeps, WorldMoves DEF L!Next

-----------------------------------------------------------------------------
(* What the invariant says *)

LEMMA SameSize ==
    ASSUME NEW k, NEW S
    PROVE  L(k)!Cardinality(S) = Cardinality(S)
BY DEF L!Cardinality, Cardinality

LEMMA LeastNumber ==
    ASSUME NEW S \in SUBSET Nat, S # {}
    PROVE  \E m \in S : \A j \in S : m <= j
<1>1. IsWellFoundedOn(OpToRel(<, Nat), Nat)
    BY NatLessThanWellFounded
<1>2. PICK m \in S : \A j \in S : ~(<<j, m>> \in OpToRel(<, Nat))
    BY <1>1, WFMin
<1>3. \A j \in S : ~(j < m)
    BY <1>2 DEF OpToRel
<1>4. \A j \in S : m <= j
    BY <1>3
<1> QED
    BY <1>4

(* As many numbers as fit between the least and the greatest of them.      *)
LEMMA NearFew ==
    ASSUME NEW S \in SUBSET Nat, NEW n \in Nat \ {0}, \A i, j \in S : i < j => j - i < n
    PROVE  Cardinality(S) <= n
<1>1. CASE S = {}
    BY <1>1, FS_EmptySet
<1>2. CASE S # {}
  <2>1. PICK m \in S : \A j \in S : m <= j
      BY <1>2, LeastNumber
  <2>2. S \in SUBSET (m .. (m + n - 1))
      BY <2>1
  <2>3. IsFiniteSet(m .. (m + n - 1)) /\ Cardinality(m .. (m + n - 1)) = n
    <3>1. m \in Int /\ m + n - 1 \in Int /\ ~(m > m + n - 1) /\ (m + n - 1) - m + 1 = n
        BY <2>1
    <3> QED
        BY <3>1, FS_Interval
  <2> QED
      BY <2>2, <2>3, FS_Subset
<1> QED
    BY <1>1, <1>2

(* The lines the attempts before the i-th spent, whichever way they are    *)
(* summed.                                                                 *)
LEMMA SpentIs ==
    ASSUME NEW k, Bounds(k), NEW a \in Seq(Attempts(k)), NEW b \in [DOMAIN a -> Nat], Sums(k, a, b)
    PROVE  \A i \in DOMAIN a : L(k)!Spent(a)[i] = b[i]
<1> DEFINE F(f) == [i \in DOMAIN a |-> IF i = 1 \/ a[i - 1].gen # a[i].gen THEN 0
                                      ELSE f[i - 1] + k.Lines[<<a[i - 1].begin, a[i - 1].finish>>]]
           p == L(k)!Spent(a)
<1>1. \A i \in DOMAIN a : b[i] = F(b)[i]
    BY DEF Sums
<1>2. b = F(b)
    BY <1>1
<1>3. p = CHOOSE f : f = F(f)
    BY DEF L!Spent
<1> HIDE DEF p, F
<1>4. p = F(p)
    BY <1>2, <1>3
<1>5. \A i \in DOMAIN a : p[i] = IF i = 1 \/ a[i - 1].gen # a[i].gen THEN 0
                                ELSE p[i - 1] + k.Lines[<<a[i - 1].begin, a[i - 1].finish>>]
    BY <1>4 DEF F
<1>6. \A i \in DOMAIN a : b[i] = IF i = 1 \/ a[i - 1].gen # a[i].gen THEN 0
                                ELSE b[i - 1] + k.Lines[<<a[i - 1].begin, a[i - 1].finish>>]
    BY DEF Sums
<1> DEFINE bad == {i \in DOMAIN a : p[i] # b[i]}
<1>7. ASSUME bad # {} PROVE FALSE
  <2>1. bad \in SUBSET Nat /\ DOMAIN a = 1 .. Len(a) /\ Len(a) \in Nat
      OBVIOUS
  <2>2. PICK m \in bad : \A j \in bad : m <= j
      BY <1>7, <2>1, LeastNumber
  <2>3. m \in DOMAIN a /\ p[m] # b[m] /\ \A j \in DOMAIN a : j < m => p[j] = b[j]
      BY <2>1, <2>2
  <2>4. m # 1 => m - 1 \in DOMAIN a /\ m - 1 < m
      BY <2>1, <2>3
  <2>5. m = 1 \/ a[m - 1].gen # a[m].gen => p[m] = 0 /\ b[m] = 0
      BY <1>5, <1>6, <2>3
  <2>6. ASSUME ~(m = 1 \/ a[m - 1].gen # a[m].gen) PROVE p[m] = b[m]
    <3>1. p[m - 1] = b[m - 1]
        BY <2>3, <2>4, <2>6
    <3> DEFINE more == k.Lines[<<a[m - 1].begin, a[m - 1].finish>>]
    <3>2. p[m] = p[m - 1] + more
        BY <1>5, <2>3, <2>6
    <3>3. b[m] = b[m - 1] + more
        BY <1>6, <2>3, <2>6
    <3> QED
        BY <3>1, <3>2, <3>3
  <2> QED
      BY <2>3, <2>5, <2>6
<1> QED
    BY <1>7 DEF p

LEMMA BudgetFollows ==
    ASSUME NEW k, Bounds(k), Inv(k)
    PROVE  L(k)!BudgetHeld
<1> DEFINE s == Before(k, replay, head)
           a == s.attempts
<1>1. L(k)!Current = s
    BY ReadType
<1>2. Coherent(k, s) /\ a \in Seq(Attempts(k))
  <2>1. Chained(k, records, replay) /\ head \in 0 .. Len(records)
      BY DEF Inv, Store, Lists, Files
  <2> QED
      BY <2>1, BeforeType
<1> HIDE DEF s
<1>3. Near(k, a) /\ Steady(a) /\ \E b \in [DOMAIN a -> Nat] : Sums(k, a, b)
    BY <1>2 DEF Coherent
<1>4. ASSUME NEW i \in DOMAIN a
      PROVE  Cardinality({j \in DOMAIN a : a[j].gen = a[i].gen}) <= k.MaxAttempts
  <2> DEFINE S == {j \in DOMAIN a : a[j].gen = a[i].gen}
  <2>1. S \in SUBSET Nat
      BY <1>2
  <2>2. \A m, n \in S : m < n => n - m < k.MaxAttempts
      BY <1>3 DEF Near
  <2>3. k.MaxAttempts \in Nat \ {0}
      BY DEF Bounds
  <2> HIDE DEF S
  <2>4. Cardinality(S) <= k.MaxAttempts
      BY <2>1, <2>2, <2>3, NearFew
  <2> QED
      BY <2>4 DEF S
<1>5. ASSUME NEW i \in DOMAIN a PROVE L(k)!Spent(a)[i] < k.MaxLines
  <2>1. PICK b \in [DOMAIN a -> Nat] : Sums(k, a, b)
      BY <1>3
  <2>2. L(k)!Spent(a)[i] = b[i]
      BY <1>2, <2>1, SpentIs
  <2>3. b[i] \in 0 .. (k.MaxLines - 1) /\ k.MaxLines \in Nat
      BY <2>1 DEF Sums, Bounds
  <2> QED
      BY <2>2, <2>3
<1>6. ASSUME NEW i \in DOMAIN a \ {1}, a[i - 1].gen = a[i].gen PROVE a[i - 1].finish = a[i].begin
  <2>1. i > 1
      BY <1>2
  <2> QED
      BY <1>3, <1>6, <2>1 DEF Steady
<1>7. L(k)!Current.attempts = a
    BY <1>1
<1> HIDE DEF a
<1> QED
    BY <1>4, <1>5, <1>6, <1>7, SameSize DEF L!BudgetHeld

LEMMA ReplaysFollow ==
    ASSUME NEW k, Bounds(k), Inv(k)
    PROVE  L(k)!HeadReplays
<1>1. /\ Lists(k) /\ Files(k) /\ Chained(k, records, replay)
      /\ synced \in 0 .. Len(records) /\ head \in 0 .. Len(records)
    BY DEF Inv, Store, Lists, Files
<1>2. Before(k, replay, synced).ok /\ Before(k, replay, head).ok
    BY <1>1, BeforeType
<1> QED
    BY <1>1, <1>2, CurrentIs DEF L!HeadReplays

LEMMA TypesFollow ==
    ASSUME NEW k, Bounds(k), Inv(k)
    PROVE  L(k)!TypeOK
<1>1. /\ Lists(k) /\ Files(k) /\ World(k) /\ Placed(k) /\ faults \in 0 .. k.MaxFaults /\ Chained(k, records, replay)
    BY DEF Inv, Store, Lists
<1>2. DOMAIN records = 1 .. Len(records)
    BY <1>1 DEF Chained
<1>3. Cardinality({c \in k.Callers : pc[c] \in L(k)!Locked}) <= 1
  <2> DEFINE S == {c \in k.Callers : pc[c] \in L(k)!Locked}
  <2>1. \A c, d \in S : c = d
      BY <1>1 DEF Placed, Locks, L!Locked
  <2>2. S = {} \/ \E c : S = {c}
      BY <2>1
  <2> HIDE DEF S
  <2>3. Cardinality({}) = 0 /\ \A c : Cardinality({c}) = 1
      BY FS_EmptySet, FS_Singleton
  <2>4. Cardinality(S) \in {0, 1}
      BY <2>2, <2>3, Zenon
  <2> QED
      BY <2>4 DEF S
<1>4. \A c \in k.Callers : pc[c] \in {"idle", "call", "done", "unsure"} \cup L(k)!Locked
    BY <1>1 DEF Placed, Places, Locks, L!Locked
<1>5. /\ Len(records) <= k.MaxRecords /\ present \subseteq DOMAIN records /\ durable \subseteq present
      /\ head \in 0 .. Len(records) /\ synced \in 0 .. Len(records)
    BY <1>1, <1>2 DEF Lists, Files
<1>6. /\ cand \in k.Trees /\ leaf \in L(k)!Lineages /\ approved \in [L(k)!Lineages -> k.Trees \cup {None}]
    BY <1>1 DEF World, L!Lineages
<1>7. faults \in 0 .. k.MaxFaults
    BY <1>1
<1> QED
    BY <1>3, <1>4, <1>5, <1>6, <1>7, SameSize DEF L!TypeOK

LEMMA ReviewFollows ==
    ASSUME NEW k, Bounds(k), Inv(k)
    PROVE  L(k)!PassIsReviewed
<1> DEFINE r == records[head]
<1>1. /\ Lists(k) /\ Files(k) /\ Chained(k, records, replay) /\ head \in 0 .. Len(records) /\ Len(records) \in Nat
    BY DEF Inv, Store, Lists, Files, Chained
<1>2. SUFFICES ASSUME head # 0 PROVE L(k)!PassIsReviewed
    BY DEF L!PassIsReviewed
<1>3. head \in 1 .. Len(records)
    BY <1>1, <1>2
<1>4. r.prev \in 0 .. Len(records) /\ Chain(k, replay, r.prev) \subseteq present
  <2>1. r.prev \in 0 .. Len(records) /\ Chain(k, replay, head) = Chain(k, replay, r.prev) \cup {head}
      BY <1>1, <1>3, ChainStep
  <2> QED
      BY <1>1, <2>1 DEF Files
<1>5. L(k)!StatusAt(r.prev) = Before(k, replay, r.prev)
    BY <1>1, <1>4, Readable
<1>6. Reviewed(off, Before(k, replay, r.prev), r)
    BY <1>1, <1>3 DEF Lists
<1> QED
    BY <1>5, <1>6 DEF Reviewed, L!PassIsReviewed

LEMMA InitHolds ==
    ASSUME NEW k, Bounds(k), L(k)!Init
    PROVE  Inv(k)
<1>1. /\ records = << >> /\ replay = << >> /\ present = {} /\ durable = {} /\ head = 0 /\ synced = 0
      /\ acked = {} /\ faults = 0
      /\ pc = [c \in k.Callers |-> "idle"] /\ call = [c \in k.Callers |-> L(k)!NoCall]
    BY DEF L!Init
<1>2. World(k)
    BY DEF L!Init, L!Lineages, World, Bounds
<1>3. Len(records) = 0 /\ records \in Seq(Records(k)) /\ replay \in Seq(Statuses(k)) /\ Len(replay) = 0
    BY <1>1
<1>4. Lists(k)
    BY <1>3 DEF Lists, Chained, Bounds
<1>5. Chain(k, replay, 0) = {}
  <2>1. Before(k, replay, 0).requests = << >>
      BY EmptyStatus DEF Before
  <2> QED
      BY <2>1 DEF Chain, L!Recorded
<1>6. Store(k)
    BY <1>1, <1>2, <1>3, <1>4, <1>5 DEF Store, Files, Told, Bounds
<1>7. Placed(k) /\ Holding(k)
    BY <1>1, FreeHands DEF Placed, Holding, Places, Locks
<1> QED
    BY <1>6, <1>7 DEF Inv

-----------------------------------------------------------------------------
(* Tokens *)

(* The n-th record began an attempt for the request id.                    *)
Begun(R, n, id) == n \in 1 .. Len(R) /\ R[n].id = id /\ R[n].op \in {"begin", "advance"}

(* A caller in Acquire sends a Begin of its own.  One that found its       *)
(* request in no record still finds it in none before it has the lock, and *)
(* has the revision of its own record after it.                            *)
Mine(k, R, P, top, p, h) ==
    /\ p \in {"done", "unsure"} => h.via # "direct"
    /\ p # "idle" /\ h.via = "acquire" =>
          /\ h.q.op = "begin" /\ h.id \in L(k)!Ids
          /\ p = "call" /\ h.fresh => L(k)!Known(Before(k, P, top), h.id) = {}
          /\ p = "done" /\ h.fresh => Begun(R, h.got, h.id)
Apart(h, g) == h.via = "acquire" /\ h.fresh => g.id # h.id
Answered(R, a) == a.state = "proceed" /\ a.via = "acquire" => Begun(R, a.token, a.id)

Tokens(k) ==
    /\ \A c \in k.Callers : Mine(k, records, replay, head, pc[c], call[c])
    /\ \A c, d \in k.Callers : c # d /\ pc[c] # "idle" /\ pc[d] # "idle" => Apart(call[c], call[d])
    /\ Answered(records, answer)

LEMMA TokenMove ==
    ASSUME NEW k, Placed(k), Tokens(k), NEW c \in k.Callers, NEW p, NEW h, Moved(c, p, h),
           Mine(k, records', replay', head', p, h),
           \A d \in k.Callers \ {c} : Mine(k, records', replay', head', pc[d], call[d]),
           \A d \in k.Callers \ {c} : p # "idle" /\ pc[d] # "idle" => Apart(h, call[d]) /\ Apart(call[d], h),
           Answered(records', answer')
    PROVE  Tokens(k)'
<1>1. /\ pc'[c] = p /\ call'[c] = h /\ \A d \in k.Callers \ {c} : pc'[d] = pc[d] /\ call'[d] = call[d]
    BY DEF Placed, Moved
<1>2. ASSUME NEW d \in k.Callers PROVE Mine(k, records', replay', head', pc'[d], call'[d])
    BY <1>1
<1>3. ASSUME NEW d \in k.Callers, NEW e \in k.Callers, d # e, pc'[d] # "idle", pc'[e] # "idle"
      PROVE  Apart(call'[d], call'[e])
    BY <1>1, <1>3 DEF Tokens
<1> QED
    BY <1>2, <1>3 DEF Tokens

(* The list grows, the chain of HEAD stays.                                *)
Grows == Len(records) \in 0 .. Len(records') /\ \A n \in 1 .. Len(records) : records'[n] = records[n]

LEMMA MineStays ==
    ASSUME NEW k, Tokens(k), Grows, Before(k, replay', head') = Before(k, replay, head)
    PROVE  \A d \in k.Callers : Mine(k, records', replay', head', pc[d], call[d])
<1> SUFFICES ASSUME NEW d \in k.Callers PROVE Mine(k, records', replay', head', pc[d], call[d])
    OBVIOUS
<1>1. Mine(k, records, replay, head, pc[d], call[d])
    BY DEF Tokens
<1>2. ASSUME NEW n, NEW id, Begun(records, n, id) PROVE Begun(records', n, id)
    BY <1>2 DEF Begun, Grows
<1> QED
    BY <1>1, <1>2 DEF Mine

LEMMA AnswerStays ==
    ASSUME NEW k, Tokens(k), Grows
    PROVE  Answered(records', answer)
BY DEF Tokens, Answered, Begun, Grows

LEMMA NoAnswerFine ==
    ASSUME NEW k, NEW R, NEW h, None # "proceed"
    PROVE  Answered(R, L(k)!NoAnswer) /\ Answered(R, L(k)!Refusal(h))
<1>1. Answered(R, L(k)!NoAnswer)
    BY DEF Answered, L!NoAnswer
<1>2. L(k)!Refusal(h) = L(k)!NoAnswer \/ L(k)!Refusal(h).state = "blocked"
    BY DEF L!Refusal
<1> QED
    BY <1>1, <1>2 DEF Answered

LEMMA SameGrows ==
    ASSUME NEW k, Lists(k), UNCHANGED records
    PROVE  Grows
<1>1. Len(records) \in Nat
    BY DEF Lists, Chained
<1> QED
    BY <1>1 DEF Grows

(* A caller is answered.                                                   *)
LEMMA ReplyTokens ==
    ASSUME NEW k, Placed(k), Tokens(k), NEW c \in k.Callers, Moved(c, "idle", L(k)!NoCall),
           Grows, Before(k, replay', head') = Before(k, replay, head), Answered(records', answer')
    PROVE  Tokens(k)'
<1>1. Mine(k, records', replay', head', "idle", L(k)!NoCall)
    BY DEF Mine
<1> QED
    BY <1>1, MineStays, TokenMove

LEMMA MutateTokens ==
    ASSUME NEW k, Bounds(k), Inv(k), Tokens(k), None # "proceed", NEW c \in k.Callers, NEW h \in Calls(k), L(k)!Mutate(c, h),
           Mine(k, records, replay, head, "call", h),
           \A d \in k.Callers \ {c} : pc[d] # "idle" => Apart(h, call[d]) /\ Apart(call[d], h)
    PROVE  Tokens(k)'
<1>1. Placed(k) /\ Lists(k) /\ Files(k)
    BY DEF Inv, Store
<1>2. L(k)!Current = Before(k, replay, head)
    BY <1>1, CurrentIs
<1>3. UNCHANGED <<records, replay, head>>
    BY DEF L!Mutate, L!store, L!world
<1>4. Grows /\ Before(k, replay', head') = Before(k, replay, head)
    BY <1>1, <1>3, SameGrows
<1>5. \A d \in k.Callers \ {c} : Mine(k, records', replay', head', pc[d], call[d])
    BY <1>4, MineStays
<1>6. CASE L(k)!Reply(c, L(k)!Refusal(h))
    BY <1>1, <1>4, <1>6, ReplyMoves, NoAnswerFine, ReplyTokens
<1>7. ASSUME NEW p, NEW g, p \in {"done", "unsure", "built"}, Moved(c, p, g), answer' = L(k)!NoAnswer,
             g.id = h.id, g.q = h.q, g.via = h.via, g.fresh = h.fresh,
             p = "done" => L(k)!Known(Before(k, replay, head), h.id) # {},
             p \in {"done", "unsure"} => h.via # "direct"
      PROVE  Tokens(k)'
  <2>1. Mine(k, records', replay', head', p, g)
      BY <1>7 DEF Mine
  <2>2. \A d \in k.Callers \ {c} : p # "idle" /\ pc[d] # "idle" => Apart(g, call[d]) /\ Apart(call[d], g)
      BY <1>7 DEF Apart
  <2>3. Answered(records', answer')
      BY <1>7, NoAnswerFine
  <2> QED
      BY <1>1, <1>5, <1>7, <2>1, <2>2, <2>3, TokenMove
<1>8. CASE /\ \E x \in L(k)!Known(Before(k, replay, head), h.id) : x.digest = h.q
           /\ L(k)!Return(c, [h EXCEPT !.got = L(k)!Current.rev], "done")
  <2> DEFINE g == [h EXCEPT !.got = L(k)!Current.rev]
  <2>1. g.id = h.id /\ g.q = h.q /\ g.via = h.via /\ g.fresh = h.fresh
      BY DEF Calls
  <2>2. L(k)!Return(c, g, "done")
      BY <1>8
  <2> HIDE DEF g
  <2>3. answer' = L(k)!NoAnswer /\ (Moved(c, "idle", L(k)!NoCall) \/ (Moved(c, "done", g) /\ g.via # "direct"))
      BY <2>2, ReturnMoves
  <2>4. CASE Moved(c, "idle", L(k)!NoCall)
      BY <1>1, <1>4, <2>3, <2>4, NoAnswerFine, ReplyTokens
  <2>5. CASE Moved(c, "done", g) /\ g.via # "direct"
      BY <1>7, <1>8, <2>1, <2>3, <2>5
  <2> QED
      BY <2>3, <2>4, <2>5
<1>9. CASE L(k)!Return(c, h, "unsure")
  <2>1. answer' = L(k)!NoAnswer /\ (Moved(c, "idle", L(k)!NoCall) \/ (Moved(c, "unsure", h) /\ h.via # "direct"))
      BY <1>9, ReturnMoves
  <2>2. CASE Moved(c, "idle", L(k)!NoCall)
      BY <1>1, <1>4, <2>1, <2>2, NoAnswerFine, ReplyTokens
  <2>3. CASE Moved(c, "unsure", h) /\ h.via # "direct"
      BY <1>7, <2>1, <2>3
  <2> QED
      BY <2>1, <2>2, <2>3
<1>10. CASE /\ \E r \in L(k)!Build(L(k)!Current, h.id, h.q) : call' = [call EXCEPT ![c] = [h EXCEPT !.record = r]]
            /\ pc' = [pc EXCEPT ![c] = "built"] /\ answer' = L(k)!NoAnswer
  <2>1. PICK r : call' = [call EXCEPT ![c] = [h EXCEPT !.record = r]]
      BY <1>10
  <2> DEFINE g == [h EXCEPT !.record = r]
  <2>2. g.id = h.id /\ g.q = h.q /\ g.via = h.via /\ g.fresh = h.fresh
      BY DEF Calls
  <2>3. Moved(c, "built", g)
      BY <1>10, <2>1 DEF Moved
  <2> HIDE DEF g
  <2> QED
      BY <1>7, <1>10, <2>2, <2>3
<1> QED
    BY <1>2, <1>6, <1>8, <1>9, <1>10 DEF L!Mutate

LEMMA PublishRecordTokens ==
    ASSUME NEW k, Bounds(k), Inv(k), Tokens(k), None # "proceed", NEW c \in k.Callers, L(k)!PublishRecord(c)
    PROVE  Tokens(k)'
<1> DEFINE h == call[c]
<1>1. PICK n : Publishes(k, c, n)
    BY PublishWrites
<1>2. Placed(k) /\ head \in 0 .. Len(records)
    BY DEF Inv, Store, Files
<1>3. Grows /\ Before(k, replay', head') = Before(k, replay, head)
    BY <1>1, <1>2 DEF Publishes, Grows
<1>4. CASE L(k)!Reply(c, L(k)!Refusal(h))
    BY <1>2, <1>3, <1>4, ReplyMoves, NoAnswerFine, ReplyTokens
<1>5. CASE Moved(c, "recorded", [h EXCEPT !.got = n]) /\ UNCHANGED answer
  <2> DEFINE g == [h EXCEPT !.got = n]
  <2>1. /\ g.id = h.id /\ g.q = h.q /\ g.via = h.via /\ g.fresh = h.fresh /\ pc[c] = "built"
      BY <1>1 DEF Publishes, Calls
  <2>2. Moved(c, "recorded", g)
      BY <1>5
  <2> HIDE DEF g
  <2>3. Mine(k, records, replay, head, pc[c], h)
      BY DEF Tokens
  <2>4. Mine(k, records', replay', head', "recorded", g)
      BY <2>1, <2>3 DEF Mine
  <2>5. \A d \in k.Callers \ {c} : "recorded" # "idle" /\ pc[d] # "idle" => Apart(g, call[d]) /\ Apart(call[d], g)
      BY <2>1 DEF Tokens, Apart
  <2>6. Answered(records', answer')
      BY <1>3, <1>5, AnswerStays
  <2> QED
      BY <1>2, <1>3, <2>2, <2>4, <2>5, <2>6, MineStays, TokenMove
<1> QED
    BY <1>1, <1>4, <1>5 DEF Publishes

LEMMA PublishHeadTokens ==
    ASSUME NEW k, Bounds(k), Inv(k), Tokens(k), None # "proceed", NEW c \in k.Callers, L(k)!PublishHead(c)
    PROVE  Tokens(k)'
<1> DEFINE h == call[c]
<1>1. Placed(k) /\ Holding(k) /\ Lists(k) /\ Files(k) /\ Chained(k, records, replay)
    BY DEF Inv, Store, Lists
<1>2. pc[c] = "recorded" /\ UNCHANGED <<records, replay>> /\ Grows
    BY <1>1, SameGrows DEF L!PublishHead
<1>3. CASE UNCHANGED head /\ L(k)!Reply(c, L(k)!Refusal(h))
    BY <1>1, <1>2, <1>3, ReplyMoves, NoAnswerFine, ReplyTokens
<1>4. CASE head' = h.got /\ pc' = [pc EXCEPT ![c] = "headed"] /\ UNCHANGED <<call, answer, faults>>
  <2> DEFINE n == h.got
  <2>1. n \in durable /\ records[n].prev = head /\ records[n].id = h.id
      BY <1>1, <1>2 DEF Holding, InHand
  <2>2. L(k)!Recorded(Before(k, replay, n)) = L(k)!Recorded(Before(k, replay, head)) \cup {Entry(records[n], n)}
    <3>1. n \in 1 .. Len(records)
        BY <1>1, <2>1 DEF Files
    <3> QED
        BY <1>1, <2>1, <3>1, ChainStep
  <2>3. Moved(c, "headed", h)
      BY <1>1, <1>4 DEF Moved, Placed
  <2>4. Entry(records[n], n).id = h.id
      BY <2>1 DEF Entry
  <2>5. \A d \in k.Callers : Mine(k, records, replay, head, pc[d], call[d])
      BY DEF Tokens
  <2> HIDE DEF n
  <2>6. ASSUME NEW d \in k.Callers \ {c} PROVE Mine(k, records', replay', head', pc[d], call[d])
    <3>1. CASE pc[d] = "call" /\ call[d].via = "acquire" /\ call[d].fresh
      <4>1. L(k)!Known(Before(k, replay, head), call[d].id) = {}
          BY <2>5, <3>1 DEF Mine
      <4>2. h.id # call[d].id
          BY <1>2, <3>1 DEF Tokens, Apart
      <4>3. L(k)!Known(Before(k, replay, n), call[d].id) = {}
          BY <2>2, <2>4, <4>1, <4>2 DEF L!Known
      <4> QED
          BY <1>2, <1>4, <2>5, <3>1, <4>3 DEF Mine, n
    <3>2. CASE ~(pc[d] = "call" /\ call[d].via = "acquire" /\ call[d].fresh)
        BY <1>2, <2>5, <3>2 DEF Mine
    <3> QED
        BY <3>1, <3>2
  <2>7. Mine(k, records', replay', head', "headed", h)
      BY <1>2, <2>5 DEF Mine
  <2>8. \A d \in k.Callers \ {c} : "headed" # "idle" /\ pc[d] # "idle" => Apart(h, call[d]) /\ Apart(call[d], h)
      BY <1>2 DEF Tokens
  <2>9. Answered(records', answer')
      BY <1>2, <1>4, AnswerStays
  <2> QED
      BY <1>1, <2>3, <2>6, <2>7, <2>8, <2>9, TokenMove
<1> QED
    BY <1>3, <1>4 DEF L!PublishHead

LEMMA SyncHeadTokens ==
    ASSUME NEW k, Bounds(k), Inv(k), Tokens(k), None # "proceed", NEW c \in k.Callers, L(k)!SyncHead(c)
    PROVE  Tokens(k)'
<1> DEFINE h == call[c]
<1>1. Placed(k) /\ Holding(k) /\ Lists(k) /\ Files(k)
    BY DEF Inv, Store
<1>2. pc[c] = "headed" /\ UNCHANGED <<records, replay, head>> /\ Grows
    BY <1>1, SameGrows DEF L!SyncHead
<1>3. /\ h.got \in durable /\ records[h.got].id = h.id
      /\ h.q.op = "begin" => records[h.got].op \in {"begin", "advance"}
    BY <1>1, <1>2 DEF Holding, InHand
<1>4. Before(k, replay', head') = Before(k, replay, head)
    BY <1>2
<1>5. Mine(k, records, replay, head, pc[c], h)
    BY DEF Tokens
<1>6. PICK how \in {"done", "unsure"} : L(k)!Return(c, h, how)
    BY DEF L!SyncHead
<1>7. answer' = L(k)!NoAnswer /\ (Moved(c, "idle", L(k)!NoCall) \/ (Moved(c, how, h) /\ h.via # "direct"))
    BY <1>6, ReturnMoves
<1>8. Answered(records', answer')
    BY <1>7, NoAnswerFine
<1>9. CASE Moved(c, "idle", L(k)!NoCall)
    BY <1>1, <1>2, <1>4, <1>8, <1>9, ReplyTokens
<1>10. CASE Moved(c, how, h) /\ h.via # "direct"
  <2>1. h.got \in 1 .. Len(records)
      BY <1>1, <1>3 DEF Files
  <2>2. Mine(k, records', replay', head', how, h)
      BY <1>2, <1>3, <1>5, <1>10, <2>1 DEF Mine, Begun
  <2>3. \A d \in k.Callers \ {c} : how # "idle" /\ pc[d] # "idle" => Apart(h, call[d]) /\ Apart(call[d], h)
      BY <1>2 DEF Tokens
  <2> QED
      BY <1>1, <1>2, <1>4, <1>8, <1>10, <2>2, <2>3, MineStays, TokenMove
<1> QED
    BY <1>7, <1>9, <1>10

(* What Acquire answers after reading the ledger again.                    *)
LEMMA OwnedToken ==
    ASSUME NEW k, Bounds(k), Inv(k), NEW id, NEW x \in L(k)!Known(L(k)!Current, id),
           L(k)!Active(L(k)!Current), L(k)!Token(L(k)!Current) = x.rev
    PROVE  Begun(records, x.rev, id)
<1> DEFINE s == Before(k, replay, head)
<1>1. Chained(k, records, replay) /\ head \in 0 .. Len(records) /\ Len(records) \in Nat /\ L(k)!Current = s
    BY ReadType DEF Inv, Store, Lists, Files, Chained
<1>2. Traced(records, replay, head, s.requests) /\ Named(records, head, s.attempts) /\ s.attempts \in Seq(Attempts(k))
    BY <1>1, BeforeType
<1>3. x \in L(k)!Recorded(s) /\ x.id = id
    BY <1>1 DEF L!Known
<1>4. records[x.rev].id = id
  <2>1. PICK j \in DOMAIN s.requests : x = s.requests[j]
      BY <1>3 DEF L!Recorded
  <2> QED
      BY <1>2, <1>3, <2>1 DEF Traced
<1>5. s.attempts # << >> /\ x.rev = s.attempts[Len(s.attempts)].token
    BY <1>1 DEF L!Active, L!Token, L!LastAttempt
<1> HIDE DEF s
<1>6. Len(s.attempts) \in DOMAIN s.attempts
    BY <1>2, <1>5
<1>7. x.rev \in 1 .. head /\ records[x.rev].op \in {"begin", "advance"}
    BY <1>2, <1>5, <1>6 DEF Named
<1> QED
    BY <1>1, <1>4, <1>7 DEF Begun

LEMMA FinishTokens ==
    ASSUME NEW k, Bounds(k), Inv(k), Tokens(k), None # "proceed", NEW c \in k.Callers, L(k)!Finish(c)
    PROVE  Tokens(k)'
<1> DEFINE h == call[c]
           s == L(k)!Current
           known == L(k)!Known(s, h.id)
           mine == IF known = {} THEN 0 ELSE (CHOOSE x \in known : TRUE).rev
<1>1. Placed(k) /\ Lists(k) /\ UNCHANGED <<records, replay, head>>
    BY DEF Inv, Store, L!Finish, L!store
<1>2. Grows /\ Before(k, replay', head') = Before(k, replay, head)
    BY <1>1, SameGrows
<1>3. pc[c] \in {"done", "unsure"} /\ h \in Calls(k) /\ Mine(k, records, replay, head, pc[c], h)
    BY <1>1 DEF L!Finish, Placed, Tokens
<1>4. h.via \in {"acquire", "settle"}
    BY <1>3 DEF Mine, Calls
<1>5. PICK a : L(k)!Reply(c, a) /\ a =
         CASE h.via = "acquire" /\ h.fresh /\ pc[c] = "done" -> L(k)!Labelled(c, L(k)!Proceed(h.got))
           [] h.via = "acquire" /\ ~(h.fresh /\ pc[c] = "done") ->
                L(k)!Labelled(c, L(k)!AcquireResult(s, h.q.unit, mine))
           [] h.via = "settle" ->
                L(k)!Labelled(c, IF pc[c] = "unsure" /\ s.rev # mine THEN L(k)!Blocked ELSE L(k)!SettleResult(s))
    BY DEF L!Finish
<1>6. answer' = a /\ Moved(c, "idle", L(k)!NoCall)
    BY <1>5, ReplyMoves
<1>7. ASSUME NEW x PROVE /\ L(k)!Labelled(c, x).state = x.state /\ L(k)!Labelled(c, x).token = x.token
                         /\ L(k)!Labelled(c, x).via = h.via /\ L(k)!Labelled(c, x).id = h.id
    BY DEF L!Labelled
<1>8. Answered(records, a)
  <2>1. CASE h.via = "acquire" /\ h.fresh /\ pc[c] = "done"
    <3>1. a = L(k)!Labelled(c, L(k)!Proceed(h.got))
        BY <1>5, <2>1
    <3>2. a.token = h.got /\ a.id = h.id
        BY <1>7, <3>1 DEF L!Proceed
    <3> QED
        BY <1>3, <2>1, <3>2 DEF Answered, Mine
  <2>2. CASE h.via = "acquire" /\ ~(h.fresh /\ pc[c] = "done")
    <3> DEFINE x == L(k)!AcquireResult(s, h.q.unit, mine)
    <3>1. a = L(k)!Labelled(c, x)
        BY <1>5, <2>2
    <3>2. x.state # "proceed" \/ (x.token = mine /\ L(k)!Active(s) /\ L(k)!Token(s) = mine)
        BY DEF L!AcquireResult, L!Blocked, L!Complete, L!Proceed
    <3>3. a.state = x.state /\ a.token = x.token /\ a.id = h.id
        BY <1>7, <3>1
    <3>4. CASE x.state # "proceed"
        BY <3>3, <3>4 DEF Answered
    <3>5. CASE x.token = mine /\ L(k)!Active(s) /\ L(k)!Token(s) = mine
      <4>1. mine # 0
        <5>1. Chained(k, records, replay) /\ head \in 0 .. Len(records) /\ s = Before(k, replay, head)
            BY ReadType DEF Inv, Store, Lists, Files
        <5>2. Named(records, head, s.attempts) /\ s.attempts \in Seq(Attempts(k))
            BY <5>1, BeforeType
        <5>3. s.attempts # << >> /\ mine = s.attempts[Len(s.attempts)].token
            BY <3>5 DEF L!Active, L!Token, L!LastAttempt
        <5> HIDE DEF s, mine
        <5>4. Len(s.attempts) \in DOMAIN s.attempts
            BY <5>2, <5>3
        <5> QED
            BY <5>2, <5>3, <5>4 DEF Named
      <4>2. known # {}
          BY <4>1
      <4>3. PICK y \in known : mine = y.rev
          BY <4>2
      <4> HIDE DEF mine
      <4>4. Begun(records, mine, h.id)
          BY <3>5, <4>3, OwnedToken
      <4> QED
          BY <3>3, <3>5, <4>4 DEF Answered
    <3> QED
        BY <3>2, <3>4, <3>5
  <2>3. CASE h.via = "settle"
    <3>1. \E x : a = L(k)!Labelled(c, x)
        BY <1>5, <2>3
    <3> QED
        BY <1>7, <2>3, <3>1 DEF Answered
  <2> QED
      BY <1>4, <2>1, <2>2, <2>3
<1>9. Answered(records', answer')
    BY <1>1, <1>6, <1>8
<1> QED
    BY <1>1, <1>2, <1>6, <1>9, ReplyTokens

(* A call that is sent while no other call has its identifier.             *)
LEMMA SendTokens ==
    ASSUME NEW k, Bounds(k), Inv(k), Tokens(k), None # "proceed", ~k.Overlap, NEW c \in k.Callers, NEW id \in L(k)!Ids,
           L(k)!MaySend(c, id), NEW q, NEW via \in {"acquire", "settle"}, NEW fresh, L(k)!Send(c, id, q, via, fresh),
           via = "acquire" => q.op = "begin" /\ (fresh => L(k)!Known(Before(k, replay, head), id) = {})
    PROVE  Tokens(k)'
<1> DEFINE h == L(k)!Handed(id, q, via, fresh)
<1>1. /\ Placed(k) /\ Lists(k) /\ UNCHANGED <<records, replay, head>> /\ answer' = L(k)!NoAnswer
      /\ Moved(c, "call", h)
    BY DEF Inv, Store, L!Send, L!store, Moved
<1>2. Grows /\ Before(k, replay', head') = Before(k, replay, head)
    BY <1>1, SameGrows
<1>3. h.id = id /\ h.q = q /\ h.via = via /\ h.fresh = fresh
    BY DEF L!Handed
<1> HIDE DEF h
<1>4. Mine(k, records', replay', head', "call", h)
    BY <1>2, <1>3 DEF Mine
<1>5. ASSUME NEW d \in k.Callers \ {c}, pc[d] # "idle" PROVE Apart(h, call[d]) /\ Apart(call[d], h)
  <2>1. call[d].id # id
      BY <1>5 DEF L!MaySend, L!InFlight
  <2> QED
      BY <1>3, <2>1 DEF Apart
<1>6. Answered(records', answer')
    BY <1>1, NoAnswerFine
<1> QED
    BY <1>1, <1>2, <1>4, <1>5, <1>6, MineStays, TokenMove

LEMMA DirectTokens ==
    ASSUME NEW k, Bounds(k), Inv(k), Tokens(k), None # "proceed", ~k.Overlap, NEW c \in k.Callers, NEW id \in L(k)!AllIds,
           NEW q \in Requests(k), L(k)!Direct(c, id, q), id \notin L(k)!Ids \/ L(k)!MaySend(c, id)
    PROVE  Tokens(k)'
<1> DEFINE h == L(k)!Handed(id, q, "direct", TRUE)
<1>1. h.id = id /\ h.via = "direct" /\ h \in Calls(k) /\ L(k)!Mutate(c, h)
    BY HandedType DEF L!Handed, L!Direct
<1> HIDE DEF h
<1>2. Mine(k, records, replay, head, "call", h)
    BY <1>1 DEF Mine
<1>3. ASSUME NEW d \in k.Callers \ {c}, pc[d] # "idle" PROVE Apart(h, call[d]) /\ Apart(call[d], h)
  <2>1. Apart(h, call[d])
      BY <1>1 DEF Apart
  <2>2. CASE call[d].via # "acquire"
      BY <2>1, <2>2 DEF Apart
  <2>3. CASE call[d].via = "acquire"
    <3>1. call[d].id \in L(k)!Ids
        BY <1>3, <2>3 DEF Tokens, Mine
    <3>2. L(k)!MaySend(c, id) => call[d].id # id
        BY <1>3 DEF L!MaySend, L!InFlight
    <3> QED
        BY <1>1, <2>1, <3>1, <3>2 DEF Apart
  <2> QED
      BY <2>2, <2>3
<1> QED
    BY <1>1, <1>2, <1>3, MutateTokens

(* Nothing moves but the world, or the answer of a refused call.           *)
LEMMA StillTokens ==
    ASSUME NEW k, Inv(k), Tokens(k), UNCHANGED <<records, replay, head, pc, call>>, Answered(records, answer')
    PROVE  Tokens(k)'
<1>1. \A c \in k.Callers : Mine(k, records, replay, head, pc[c], call[c])
    BY DEF Tokens
<1>2. \A c, d \in k.Callers : c # d /\ pc[c] # "idle" /\ pc[d] # "idle" => Apart(call[c], call[d])
    BY DEF Tokens
<1> QED
    BY <1>1, <1>2 DEF Tokens

LEMMA BindIdApart ==
    ASSUME NEW k, NEW b, NEW l
    PROVE  <<"bind", b, l>> \notin L(k)!Ids
<1> SUFFICES ASSUME NEW n, <<"bind", b, l>> = <<"call", n>> PROVE FALSE
    BY DEF L!Ids
<1>1. <<"bind", b, l>>[1] = "bind" /\ <<"call", n>>[1] = "call"
    OBVIOUS
<1> QED
    BY <1>1

LEMMA OperationTokens ==
    ASSUME NEW k, Bounds(k), Inv(k), Tokens(k), None # "proceed", ~k.Overlap, NEW c \in k.Callers, L(k)!Operation(c)
    PROVE  Tokens(k)'
<1> DEFINE s == L(k)!Current
<1>1. L(k)!Ids \subseteq L(k)!AllIds
    BY DEF L!AllIds
<1>2. /\ s = Before(k, replay, head) /\ s.rev \in Nat /\ s.binding \in Bindings(k)
      /\ \A at \in L(k)!Seen : at \in Nat
    BY ReadType
<1>3. CASE L(k)!Begin(c)
  <2>1. PICK id \in L(k)!Ids, u1 \in k.Units, at \in L(k)!Seen :
            L(k)!MaySend(c, id) /\ L(k)!Direct(c, id, [op |-> "begin", at |-> at, unit |-> u1])
      BY <1>3 DEF L!Begin
  <2>2. [op |-> "begin", at |-> at, unit |-> u1] \in Requests(k)
      BY <1>2 DEF Requests
  <2> QED
      BY <1>1, <2>1, <2>2, DirectTokens
<1>4. CASE L(k)!Reset(c)
  <2>1. PICK id \in L(k)!Ids, at \in L(k)!Seen : L(k)!MaySend(c, id) /\ L(k)!Direct(c, id, [op |-> "reset", at |-> at])
      BY <1>4 DEF L!Reset
  <2>2. [op |-> "reset", at |-> at] \in Requests(k)
      BY <1>2 DEF Requests
  <2> QED
      BY <1>1, <2>1, <2>2, DirectTokens
<1>5. CASE L(k)!FinishPlain(c)
  <2>1. PICK id \in L(k)!Ids, at \in L(k)!Seen, o \in Outcomes, e \in k.Evidence :
            L(k)!MaySend(c, id) /\ L(k)!Direct(c, id, L(k)!FinishRequest(at, o, e, None, None, None))
      BY <1>5 DEF L!FinishPlain, Outcomes
  <2>2. L(k)!FinishRequest(at, o, e, None, None, None) \in Requests(k)
      BY <1>2, FinishRequestType DEF Bindings
  <2> QED
      BY <1>1, <2>1, <2>2, DirectTokens
<1>6. CASE L(k)!FinishRemediation(c)
  <2>1. PICK id \in L(k)!Ids, at \in L(k)!Seen, e \in k.Evidence, f \in k.Evidence, l \in 1 .. k.MaxLineages :
            L(k)!MaySend(c, id) /\ L(k)!Direct(c, id, L(k)!FinishRequest(at, "passed", e, s.binding, l, f))
      BY <1>6 DEF L!FinishRemediation, L!Lineages
  <2>2. L(k)!FinishRequest(at, "passed", e, s.binding, l, f) \in Requests(k)
      BY <1>2, FinishRequestType DEF Outcomes
  <2> QED
      BY <1>1, <2>1, <2>2, DirectTokens
<1>7. CASE L(k)!Bind(c)
  <2> DEFINE b == s.binding
  <2>1. PICK l \in 1 .. k.MaxLineages : L(k)!Direct(c, <<"bind", b, l>>, [op |-> "bind", expected |-> b, lineage |-> l])
      BY <1>7 DEF L!Bind, L!Lineages
  <2>2. b \in Bindings(k)
      BY <1>2
  <2> HIDE DEF b
  <2>3. [op |-> "bind", expected |-> b, lineage |-> l] \in Requests(k)
      BY <2>2 DEF Requests
  <2>4. <<"bind", b, l>> \in L(k)!AllIds
      BY <2>2 DEF L!AllIds, L!BindIds, L!Lineages, Bindings
  <2> QED
      BY <2>1, <2>3, <2>4, BindIdApart, DirectTokens
<1>8. CASE L(k)!Acquire(c)
  <2>1. PICK id \in L(k)!Ids, u1 \in k.Units :
           /\ L(k)!MaySend(c, id)
           /\ \/ /\ L(k)!Known(s, id) = {}
                 /\ L(k)!Send(c, id, [op |-> "begin", at |-> s.rev, unit |-> u1], "acquire", TRUE)
              \/ \E x \in L(k)!Known(s, id) : \E at :
                    x.digest = [op |-> "begin", at |-> at, unit |-> u1] /\ L(k)!Send(c, id, x.digest, "acquire", FALSE)
      BY <1>8 DEF L!Acquire
  <2> HIDE DEF s
  <2>2. CASE /\ L(k)!Known(s, id) = {}
             /\ L(k)!Send(c, id, [op |-> "begin", at |-> s.rev, unit |-> u1], "acquire", TRUE)
      BY <1>2, <2>1, <2>2, SendTokens
  <2>3. CASE \E x \in L(k)!Known(s, id) : \E at :
                 x.digest = [op |-> "begin", at |-> at, unit |-> u1] /\ L(k)!Send(c, id, x.digest, "acquire", FALSE)
    <3>1. PICK q : q.op = "begin" /\ L(k)!Send(c, id, q, "acquire", FALSE)
        BY <2>3
    <3> QED
        BY <2>1, <3>1, SendTokens
  <2> QED
      BY <2>1, <2>2, <2>3
<1>9. CASE L(k)!Settle(c)
  <2>1. PICK id \in L(k)!Ids : L(k)!MaySend(c, id) /\ \E q : L(k)!Send(c, id, q, "settle", TRUE)
      BY <1>9 DEF L!Settle
  <2>2. PICK q : L(k)!Send(c, id, q, "settle", TRUE)
      BY <2>1
  <2> QED
      BY <2>1, <2>2, SendTokens
<1>10. CASE L(k)!SettleAgain(c)
  <2>1. PICK id \in L(k)!Ids :
           /\ L(k)!MaySend(c, id)
           /\ \/ \E q : L(k)!Send(c, id, q, "settle", FALSE)
              \/ /\ answer' = [state |-> "blocked", via |-> "settle", id |-> id, why |-> "mismatch"]
                 /\ UNCHANGED <<L(k)!store, L(k)!world, pc, call, acked, faults>>
      BY <1>10 DEF L!SettleAgain
  <2>2. CASE \E q : L(k)!Send(c, id, q, "settle", FALSE)
    <3>1. PICK q : L(k)!Send(c, id, q, "settle", FALSE)
        BY <2>2
    <3> QED
        BY <2>1, <3>1, SendTokens
  <2>3. CASE /\ answer' = [state |-> "blocked", via |-> "settle", id |-> id, why |-> "mismatch"]
             /\ UNCHANGED <<L(k)!store, L(k)!world, pc, call, acked, faults>>
    <3>1. Answered(records, answer')
        BY <2>3 DEF Answered
    <3> QED
        BY <2>3, <3>1, StillTokens DEF L!store
  <2> QED
      BY <2>1, <2>2, <2>3
<1> QED
    BY <1>3, <1>4, <1>5, <1>6, <1>7, <1>8, <1>9, <1>10 DEF L!Operation

LEMMA TokenStep ==
    ASSUME NEW k, Bounds(k), Inv(k), Tokens(k), None # "proceed", ~k.Overlap, L(k)!Next
    PROVE  Tokens(k)'
<1>1. Placed(k) /\ Lists(k)
    BY DEF Inv, Store
<1>2. ASSUME NEW c \in k.Callers, L(k)!Submit(c) PROVE Tokens(k)'
  <2>1. pc[c] = "call" /\ call[c] \in Calls(k) /\ L(k)!Mutate(c, call[c])
      BY <1>1, <1>2 DEF L!Submit, Placed
  <2>2. Mine(k, records, replay, head, "call", call[c])
      BY <2>1 DEF Tokens
  <2>3. \A d \in k.Callers \ {c} : pc[d] # "idle" => Apart(call[c], call[d]) /\ Apart(call[d], call[c])
      BY <2>1 DEF Tokens
  <2> QED
      BY <2>1, <2>2, <2>3, MutateTokens
<1>3. ASSUME NEW c \in k.Callers, L(k)!Crash(c) PROVE Tokens(k)'
  <2>1. L(k)!Reply(c, L(k)!NoAnswer) /\ UNCHANGED <<records, replay, head>>
      BY <1>3 DEF L!Crash, L!store
  <2>2. Grows /\ Before(k, replay', head') = Before(k, replay, head)
      BY <1>1, <2>1, SameGrows
  <2> QED
      BY <1>1, <2>1, <2>2, ReplyMoves, NoAnswerFine, ReplyTokens
<1>4. CASE L(k)!PowerLoss
  <2>1. /\ pc' = [c \in k.Callers |-> "idle"] /\ answer' = L(k)!NoAnswer
      BY <1>4 DEF L!PowerLoss
  <2> QED
      BY <2>1, NoAnswerFine DEF Tokens, Mine
<1>5. CASE L(k)!Edit \/ L(k)!Approve \/ L(k)!Recover
  <2>1. UNCHANGED <<records, replay, head, pc, call>> /\ answer' = L(k)!NoAnswer
      BY <1>5 DEF L!Edit, L!Approve, L!Recover, L!store
  <2> QED
      BY <2>1, NoAnswerFine, StillTokens
<1>6. ASSUME NEW c \in k.Callers, L(k)!Step(c) PROVE Tokens(k)'
    BY <1>2, <1>6, PublishRecordTokens, PublishHeadTokens, SyncHeadTokens, FinishTokens DEF L!Step
<1> QED
    BY <1>3, <1>4, <1>5, <1>6, OperationTokens DEF L!Next

LEMMA TokensStart ==
    ASSUME NEW k, Bounds(k), L(k)!Init, None # "proceed"
    PROVE  Tokens(k)
<1>1. pc = [c \in k.Callers |-> "idle"] /\ answer = L(k)!NoAnswer
    BY DEF L!Init
<1> QED
    BY <1>1, NoAnswerFine DEF Tokens, Mine

LEMMA TokensFollow ==
    ASSUME NEW k, Tokens(k)
    PROVE  L(k)!TokenNamesAttempt
BY DEF Tokens, Answered, Begun, L!TokenNamesAttempt

LEMMA PromiseStarts ==
    ASSUME NEW k, Bounds(k), L(k)!Init
    PROVE  Promise(k)!Init
<1>1. head = 0 /\ acked = {} /\ Inv(k)
    BY InitHolds DEF L!Init
<1>2. L(k)!Log = Taken(Before(k, replay, head).requests)
    BY <1>1, LogIs DEF Inv, Store
<1>3. Before(k, replay, head).requests = << >>
    BY <1>1, EmptyStatus DEF Before
<1> QED
    BY <1>1, <1>2, <1>3 DEF Promise!Init, Taken

(* Nothing moves.                                                          *)
LEMMA StutterKeeps ==
    ASSUME NEW k, Bounds(k), Inv(k), UNCHANGED L(k)!vars
    PROVE  Inv(k)' /\ Kept(k) /\ (Tokens(k) => Tokens(k)')
<1>1. /\ UNCHANGED <<L(k)!store, off, pc, call, acked, faults>> /\ UNCHANGED <<cand, leaf, approved, off>>
      /\ UNCHANGED answer
    BY DEF L!vars, L!world
<1>2. World(k)'
    BY <1>1 DEF Inv, Store, World
<1>3. Tokens(k) => Tokens(k)'
    BY <1>1, StillTokens DEF L!store, Tokens
<1> QED
    BY <1>1, <1>2, <1>3, WorldKeeps

-----------------------------------------------------------------------------
(* Theorems about the ledger, whatever the values of its constants         *)

(* For any callers, units, trees, evidence, limits and number of faults    *)
(* that Bounds allows: the chain a crash or power failure leaves replays   *)
(* whole; no objective gets more attempts than its limit or one after its  *)
(* lines are spent; and while reviews are on a bound ledger passes only on *)
(* the bytes an approved review holds.  (TypeOK, HeadReplays, BudgetHeld   *)
(* and PassIsReviewed of RuntimeLedger.)                                   *)
THEOREM LedgerSafe ==
    ASSUME NEW k, Bounds(k)
    PROVE  L(k)!Spec => [](L(k)!TypeOK /\ L(k)!HeadReplays /\ L(k)!BudgetHeld /\ L(k)!PassIsReviewed)
<1>1. L(k)!Init => Inv(k)
    BY InitHolds
<1>2. Inv(k) /\ [L(k)!Next]_(L(k)!vars) => Inv(k)'
    BY StepKeeps, StutterKeeps
<1>3. Inv(k) => L(k)!TypeOK /\ L(k)!HeadReplays /\ L(k)!BudgetHeld /\ L(k)!PassIsReviewed
    BY TypesFollow, ReplaysFollow, BudgetFollows, ReviewFollows
<1> QED
    BY <1>1, <1>2, <1>3, PTL DEF L!Spec

(* While no request is sent again that is still under way (~Overlap), the  *)
(* token Acquire answers beside "proceed" is the record that began the     *)
(* attempt of the same request, whatever the other constants.  With        *)
(* Overlap it is not: the run token_resent.                                *)
THEOREM LedgerTokens ==
    ASSUME NEW k, Bounds(k), ~k.Overlap, None # "proceed"
    PROVE  L(k)!Spec => []L(k)!TokenNamesAttempt
<1>1. L(k)!Init => Inv(k) /\ Tokens(k)
    BY InitHolds, TokensStart
<1>2. Inv(k) /\ Tokens(k) /\ [L(k)!Next]_(L(k)!vars) => Inv(k)' /\ Tokens(k)'
    BY StepKeeps, TokenStep, StutterKeeps
<1>3. Tokens(k) => L(k)!TokenNamesAttempt
    BY TokensFollow
<1> QED
    BY <1>1, <1>2, <1>3, PTL DEF L!Spec

(* Whatever the values of the constants: the ledger implements the request *)
(* log.  A request takes effect at most once, what took effect keeps its   *)
(* order, and a power failure drops no request whose caller was told.      *)
THEOREM LedgerRefines ==
    ASSUME NEW k, Bounds(k)
    PROVE  L(k)!Spec => Promise(k)!Spec
<1>1. L(k)!Init => Inv(k) /\ Promise(k)!Init
    BY InitHolds, PromiseStarts
<1>2. Inv(k) /\ [L(k)!Next]_(L(k)!vars) => Inv(k)' /\ [Promise(k)!Next]_<<L(k)!Log, acked>>
    BY StepKeeps, StutterKeeps DEF Kept
<1> QED
    BY <1>1, <1>2, PTL DEF L!Spec, Promise!Spec

-----------------------------------------------------------------------------
(* Theorems about the settings that are checked                            *)

LEMMA DistanceType ==
    ASSUME NEW f \in Nat
    PROVE  Distance(f) \in [{0, 1} \X {0, 1} -> Nat]
BY DEF Distance

LEMMA SettingBounds ==
    ASSUME NEW p \in DOMAIN Setting
    PROVE  Bounds(Setting[p])
<1>1. Distance(1) \in [{0, 1} \X {0, 1} -> Nat] /\ Distance(2) \in [{0, 1} \X {0, 1} -> Nat]
    BY DistanceType
<1>2. p \in {"plain", "race", "crash", "bound", "compact", "remedy"}
    BY DEF Setting
<1>3. Bounds(Plain)
    BY <1>1, ModelValues DEF Bounds, Plain
<1>4. Bounds(Race)
    BY <1>1, ModelValues DEF Bounds, Race, Plain
<1>5. Bounds(Crash)
    BY <1>1, ModelValues DEF Bounds, Crash, Plain
<1>6. Bounds(Bound)
    BY <1>1, ModelValues DEF Bounds, Bound, Plain
<1>7. Bounds(Compact)
    BY <1>1, ModelValues DEF Bounds, Compact, Race, Plain
<1>8. Bounds(Remedy)
    BY <1>1, ModelValues DEF Bounds, Remedy, Plain
<1> QED
    BY <1>2, <1>3, <1>4, <1>5, <1>6, <1>7, <1>8 DEF Setting

(* One setting and its ledger.                                             *)
LedgerInv == \E p \in DOMAIN Setting : part = p /\ Inv(Setting[p])

KeepsPromise ==
    \A p \in {"race", "crash", "compact"} : part = p => [Promise(Setting[p])!Next]_<<L(Setting[p])!Log, acked>>

LEMMA LedgerInit == ASSUME Init PROVE LedgerInv
<1>1. PICK p \in DOMAIN Setting : part = p /\ L(Setting[p])!Init
    BY DEF Init
<1>2. Bounds(Setting[p])
    BY SettingBounds
<1>3. Inv(Setting[p])
    BY <1>1, <1>2, InitHolds
<1> QED
    BY <1>1, <1>3 DEF LedgerInv

LEMMA LedgerNext == ASSUME LedgerInv, [Next]_vars PROVE LedgerInv' /\ KeepsPromise
<1>1. PICK p \in DOMAIN Setting : part = p /\ Inv(Setting[p])
    BY DEF LedgerInv
<1> DEFINE k == Setting[p]
<1>2. Bounds(k)
    BY SettingBounds
<1>4. part' = p /\ (L(k)!Next \/ UNCHANGED L(k)!vars)
    BY <1>1 DEF Next, vars, L!vars, L!store, L!world
<1> HIDE DEF k
<1>5. Inv(k)
    BY <1>1 DEF k
<1>6. Inv(k)' /\ Kept(k)
  <2>1. CASE L(k)!Next
      BY <1>2, <1>5, <2>1, StepKeeps
  <2>2. CASE UNCHANGED L(k)!vars
      BY <1>2, <1>5, <2>2, StutterKeeps
  <2> QED
      BY <1>4, <2>1, <2>2
<1>7. LedgerInv'
    BY <1>4, <1>6 DEF LedgerInv, k
<1>8. KeepsPromise
    BY <1>1, <1>6 DEF KeepsPromise, Kept, k
<1> QED
    BY <1>7, <1>8

LEMMA LedgerFollows == ASSUME LedgerInv PROVE LedgerSound /\ PassIsReviewed
<1>1. PICK p \in DOMAIN Setting : part = p /\ Inv(Setting[p])
    BY DEF LedgerInv
<1>2. Bounds(Setting[p])
    BY SettingBounds
<1>3. /\ L(Setting[p])!TypeOK /\ L(Setting[p])!HeadReplays /\ L(Setting[p])!BudgetHeld
      /\ L(Setting[p])!PassIsReviewed
    BY <1>1, <1>2, TypesFollow, ReplaysFollow, BudgetFollows, ReviewFollows
<1> QED
    BY <1>1, <1>3 DEF LedgerSound, PassIsReviewed

(* In every setting that TLC checks, what the ledger holds replays after a *)
(* crash, and objectives keep to their budgets (LedgerSound).              *)
THEOREM LedgerIsSound == Spec => []LedgerSound
<1>1. Init => LedgerInv
    BY LedgerInit
<1>2. LedgerInv /\ [Next]_vars => LedgerInv'
    BY LedgerNext
<1>3. LedgerInv => LedgerSound
    BY LedgerFollows
<1> QED
    BY <1>1, <1>2, <1>3, PTL DEF Spec

(* In both settings with a bound review, the ledger is complete only when  *)
(* the tree that passed is the one an approved review holds                *)
(* (PassIsReviewed).                                                       *)
THEOREM LedgerPassIsReviewed == Spec => []PassIsReviewed
<1>1. Init => LedgerInv
    BY LedgerInit
<1>2. LedgerInv /\ [Next]_vars => LedgerInv'
    BY LedgerNext
<1>3. LedgerInv => PassIsReviewed
    BY LedgerFollows
<1> QED
    BY <1>1, <1>2, <1>3, PTL DEF Spec

(* In the settings with two callers, with faults, and with tokens, where   *)
(* a request may be sent again that is still under way, each               *)
(* step of the ledger is a step of the request log or leaves it alone      *)
(* (LedgerPromise).                                                        *)
THEOREM LedgerKeepsPromise == Spec => LedgerPromise
<1>1. Init => LedgerInv
    BY LedgerInit
<1>2. LedgerInv /\ [Next]_vars => LedgerInv' /\ KeepsPromise
    BY LedgerNext
<1>3. Init => \A p \in {"race", "crash", "compact"} : part = p => Promise(Setting[p])!Init
    BY SettingBounds, PromiseStarts DEF Init
<1> QED
    BY <1>1, <1>2, <1>3, PTL DEF Spec, LedgerPromise, KeepsPromise
=============================================================================
