--------------------------- MODULE KernelLocksProofs ---------------------------
(***************************************************************************)
(* Theorems about KernelLocks, for any number of CPUs and both builds:     *)
(* which checks of the spinlocks fail, and which cycles of waits there are.*)
(***************************************************************************)
EXTENDS KernelLocks, SequenceTheorems, TLAPS

Steps == [do : {"acquire", "release", "sched"}, lock : Locks]

\* The order of the locks: with which locks held the code takes another.
Allowed(H, l) ==
  \/ l \in {"pipe", "ticks"} /\ H = {}
  \/ l = "cons" /\ \/ H = {} \/ H = {"pipe"}
                   \/ Printing /\ (H = {"pageref"} \/ H = {"pipe", "pageref"})
  \/ l = "ptable" /\ (H = {} \/ H = {"cons"} \/ H = {"ticks"} \/ H = {"pipe"})
  \/ l = "kmem" /\ \/ H = {} \/ H = {"ptable"} \/ H = {"pageref"}
                   \/ H = {"pipe", "pageref"}
                   \/ ~Printing /\ H = {"cons", "pageref"}
  \/ l = "pageref" /\ \/ H = {} \/ H = {"kmem"} \/ H = {"ptable", "kmem"}
                      \/ H = {"pipe"}
                      \/ ~Printing /\ H = {"cons"}

\* Where a CPU would be after its panic; no CPU has all locks.
Stopped == Locks

\* One step takes a CPU that holds the locks `H` to where it holds `K`.
StepTo(H, x, K) ==
  \/ x.do = "acquire" /\ Allowed(H, x.lock) /\ K = H \cup {x.lock}
  \/ x.do = "release" /\ x.lock \in H /\ K = H \ {x.lock}
  \/ x.do = "sched" /\ x.lock = "ptable" /\ H = {"ptable"} /\ K = H
  \/ x.do = "acquire" /\ x.lock = "cons" /\ "cons" \in H /\ Printing /\ K = Stopped
  \/ x.do # "sched" /\ H = Stopped /\ K = Stopped

\* The steps `s` take it from `H` to `K`, by way of the sets in `h`.
Way(h, s, H, K) ==
  /\ h[0] = H /\ h[Len(s)] = K
  /\ \A n \in 1 .. Len(s) : StepTo(h[n - 1], s[n], h[n])
Runs(H, s, K) == \E h \in [0 .. Len(s) -> SUBSET Locks] : Way(h, s, H, K)

\* The rest of a section leaves no lock behind, unless it panics.
Closes(H, s) == Runs(H, s, {}) \/ Runs(H, s, Stopped)

LockInv ==
  /\ owner \in [Locks -> Cpus \cup {Idle}]
  /\ todo \in [Cpus -> Seq(Steps)]
  /\ \A c \in Cpus : Held(c) # Stopped /\ Closes(Held(c), todo[c])

-----------------------------------------------------------------------------
(* Sequences of steps.                                                     *)

LEMMA RunsNothing == ASSUME NEW H \in SUBSET Locks PROVE Runs(H, <<>>, H)
  <1> DEFINE h == [n \in 0 .. 0 |-> H]
  <1>1. h \in [0 .. Len(<<>>) -> SUBSET Locks] /\ Way(h, <<>>, H, H)
    BY DEF Way
  <1> QED BY <1>1 DEF Runs

LEMMA RunsOne ==
  ASSUME NEW H \in SUBSET Locks, NEW K \in SUBSET Locks, NEW x \in Steps, StepTo(H, x, K)
  PROVE  Runs(H, <<x>>, K) /\ <<x>> \in Seq(Steps)
  <1> DEFINE h == [n \in 0 .. 1 |-> IF n = 0 THEN H ELSE K]
  <1>1. Len(<<x>>) = 1 /\ <<x>>[1] = x /\ <<x>> \in Seq(Steps)
    OBVIOUS
  <1>2. h \in [0 .. 1 -> SUBSET Locks] /\ h[0] = H /\ h[1] = K
    OBVIOUS
  <1>3. \A n \in 1 .. 1 : StepTo(h[n - 1], <<x>>[n], h[n])
    <2>1. \A n \in 1 .. 1 : n = 1 /\ n - 1 = 0
      OBVIOUS
    <2> QED BY <1>1, <1>2, <2>1
  <1> HIDE DEF h
  <1>4. Way(h, <<x>>, H, K)
    BY <1>1, <1>2, <1>3 DEF Way
  <1> QED BY <1>1, <1>2, <1>4 DEF Runs

LEMMA RunsThen ==
  ASSUME NEW H, NEW K, NEW M, NEW s \in Seq(Steps), NEW t \in Seq(Steps),
         Runs(H, s, K), Runs(K, t, M)
  PROVE  Runs(H, s \o t, M) /\ s \o t \in Seq(Steps)
  <1>1. PICK f \in [0 .. Len(s) -> SUBSET Locks] : Way(f, s, H, K)
    BY DEF Runs
  <1>2. PICK g \in [0 .. Len(t) -> SUBSET Locks] : Way(g, t, K, M)
    BY DEF Runs
  <1> DEFINE h == [n \in 0 .. Len(s) + Len(t) |-> IF n <= Len(s) THEN f[n] ELSE g[n - Len(s)]]
  <1>3. Len(s) \in Nat /\ Len(t) \in Nat
    OBVIOUS
  <1>4. /\ s \o t \in Seq(Steps) /\ Len(s \o t) = Len(s) + Len(t)
        /\ \A n \in 1 .. Len(s) : (s \o t)[n] = s[n]
        /\ \A n \in Len(s) + 1 .. Len(s) + Len(t) : (s \o t)[n] = t[n - Len(s)]
    BY <1>3
  <1>5. h \in [0 .. Len(s) + Len(t) -> SUBSET Locks]
    BY <1>3
  <1>6. \A n \in 0 .. Len(s) : h[n] = f[n]
    BY <1>3
  <1>7. \A n \in Len(s) .. Len(s) + Len(t) : h[n] = g[n - Len(s)]
    BY <1>1, <1>2, <1>3 DEF Way
  <1> HIDE DEF h
  <1>8. h[0] = H /\ h[Len(s) + Len(t)] = M
    <2>1. h[0] = H
      BY <1>1, <1>3, <1>6 DEF Way
    <2>2. h[Len(s) + Len(t)] = g[(Len(s) + Len(t)) - Len(s)]
      BY <1>3, <1>7
    <2>3. (Len(s) + Len(t)) - Len(s) = Len(t) /\ g[Len(t)] = M
      BY <1>2, <1>3 DEF Way
    <2> QED BY <2>1, <2>2, <2>3
  <1>9. ASSUME NEW n \in 1 .. Len(s) + Len(t) PROVE StepTo(h[n - 1], (s \o t)[n], h[n])
    <2>1. CASE n <= Len(s)
      <3>1. StepTo(f[n - 1], s[n], f[n])
        BY <1>1, <1>3, <2>1 DEF Way
      <3>2. h[n - 1] = f[n - 1] /\ h[n] = f[n] /\ (s \o t)[n] = s[n]
        BY <1>3, <1>4, <1>6, <2>1
      <3> QED BY <3>1, <3>2
    <2>2. CASE n > Len(s)
      <3>a. PICK k \in Int : k = n - Len(s)
        <4>1. n - Len(s) \in Int
          BY <1>3
        <4> QED BY <4>1
      <3>1. k \in 1 .. Len(t) /\ (n - 1) - Len(s) = k - 1
        BY <1>3, <2>2, <3>a
      <3>2. StepTo(g[k - 1], t[k], g[k])
        BY <1>2, <3>1 DEF Way
      <3>3. h[n - 1] = g[(n - 1) - Len(s)] /\ h[n] = g[k] /\ (s \o t)[n] = t[k]
        <4>1. n - 1 \in Len(s) .. Len(s) + Len(t) /\ n \in Len(s) + 1 .. Len(s) + Len(t)
          BY <1>3, <2>2
        <4>2. n \in Len(s) .. Len(s) + Len(t)
          BY <1>3, <4>1
        <4>3. h[n - 1] = g[(n - 1) - Len(s)]
          BY <1>7, <4>1
        <4>4. h[n] = g[k]
          BY <1>7, <3>a, <4>2
        <4>5. (s \o t)[n] = t[k]
          BY <1>4, <3>a, <4>1
        <4> QED BY <4>3, <4>4, <4>5
      <3> QED BY <3>1, <3>2, <3>3
    <2> QED BY <1>3, <2>1, <2>2
  <1>10. Way(h, s \o t, H, M)
    BY <1>4, <1>8, <1>9 DEF Way
  <1> QED BY <1>4, <1>5, <1>10 DEF Runs

LEMMA RunsRest ==
  ASSUME NEW H, NEW K, NEW s \in Seq(Steps), NEW k \in 1 .. Len(s), Runs(H, s, K)
  PROVE  \E A, B \in SUBSET Locks :
            /\ StepTo(A, s[k], B) /\ (k = 1 => A = H)
            /\ Runs(B, SubSeq(s, k + 1, Len(s)), K)
            /\ SubSeq(s, k + 1, Len(s)) \in Seq(Steps)
  <1>1. PICK h \in [0 .. Len(s) -> SUBSET Locks] : Way(h, s, H, K)
    BY DEF Runs
  <1> DEFINE t == SubSeq(s, k + 1, Len(s))
             g == [n \in 0 .. Len(s) - k |-> h[n + k]]
  <1>2. Len(s) \in Nat /\ k \in 1 .. Len(s)
    OBVIOUS
  <1>3. /\ t \in Seq(Steps) /\ Len(t) = Len(s) - k
        /\ \A n \in 1 .. Len(s) - k : t[n] = s[n + k]
    BY <1>2
  <1>4. g \in [0 .. Len(s) - k -> SUBSET Locks]
    BY <1>2
  <1>5. \A n \in 0 .. Len(s) - k : g[n] = h[n + k]
    OBVIOUS
  <1> HIDE DEF g, t
  <1>6. g[0] = h[k] /\ g[Len(s) - k] = K
    BY <1>1, <1>2, <1>5 DEF Way
  <1>7. ASSUME NEW n \in 1 .. Len(s) - k PROVE StepTo(g[n - 1], t[n], g[n])
    <2>1. n + k \in 1 .. Len(s) /\ (n - 1) + k = (n + k) - 1
      BY <1>2
    <2>2. StepTo(h[(n + k) - 1], s[n + k], h[n + k])
      BY <1>1, <2>1 DEF Way
    <2>3. n - 1 \in 0 .. Len(s) - k /\ n \in 0 .. Len(s) - k
      BY <1>2
    <2>4. g[n - 1] = h[(n - 1) + k] /\ g[n] = h[n + k]
      BY <1>5, <2>3
    <2>5. t[n] = s[n + k]
      BY <1>3
    <2> QED BY <2>1, <2>2, <2>4, <2>5
  <1>8. Way(g, t, h[k], K)
    BY <1>3, <1>6, <1>7 DEF Way
  <1>9. Runs(h[k], t, K)
    BY <1>3, <1>4, <1>8 DEF Runs
  <1>10. StepTo(h[k - 1], s[k], h[k]) /\ (k = 1 => h[k - 1] = H)
    BY <1>1, <1>2 DEF Way
  <1>11. h[k - 1] \in SUBSET Locks /\ h[k] \in SUBSET Locks
    BY <1>2
  <1> QED BY <1>3, <1>9, <1>10, <1>11 DEF t


-----------------------------------------------------------------------------
(* The sections close what they open.                                      *)

\* `s` is a sequence of steps that takes `H` to `K`.
Takes(H, s, K) == s \in Seq(Steps) /\ Runs(H, s, K)

LEMMA Nothing == ASSUME NEW H \in SUBSET Locks PROVE Takes(H, <<>>, H)
  BY RunsNothing DEF Takes

LEMMA Then ==
  ASSUME NEW H, NEW K, NEW M, NEW s, NEW t, Takes(H, s, K), Takes(K, t, M)
  PROVE  Takes(H, s \o t, M)
  BY RunsThen DEF Takes

LEMMA Acquires ==
  ASSUME NEW H \in SUBSET Locks, NEW l \in Locks
  PROVE  /\ Allowed(H, l) => Takes(H, Acq(l), H \cup {l})
         /\ H = Stopped => Takes(H, Acq(l), H)
         /\ Printing /\ "cons" \in H => Takes(H, Acq("cons"), Stopped)
  <1> DEFINE x == [do |-> "acquire", lock |-> l]
             y == [do |-> "acquire", lock |-> "cons"]
  <1>1. x \in Steps /\ x.do = "acquire" /\ x.lock = l
    BY DEF Steps
  <1>2. y \in Steps /\ y.do = "acquire" /\ y.lock = "cons"
    BY DEF Steps, Locks
  <1>3. Acq(l) = <<x>> /\ Acq("cons") = <<y>>
    BY DEF Acq
  <1> HIDE DEF x, y
  <1>4. H \cup {l} \in SUBSET Locks /\ Stopped \in SUBSET Locks
    BY DEF Stopped
  <1>8. ASSUME Allowed(H, l) PROVE Takes(H, Acq(l), H \cup {l})
    <2>1. StepTo(H, x, H \cup {l})
      BY <1>1, <1>8 DEF StepTo
    <2>2. Takes(H, <<x>>, H \cup {l})
      BY <1>1, <1>4, <2>1, RunsOne DEF Takes
    <2> QED BY <1>3, <2>2
  <1>9. ASSUME H = Stopped PROVE Takes(H, Acq(l), H)
    <2>1. StepTo(H, x, H)
      BY <1>1, <1>9 DEF StepTo
    <2>2. Takes(H, <<x>>, H)
      BY <1>1, <2>1, RunsOne DEF Takes
    <2> QED BY <1>3, <2>2
  <1>10. ASSUME Printing, "cons" \in H PROVE Takes(H, Acq("cons"), Stopped)
    <2>1. StepTo(H, y, Stopped)
      BY <1>2, <1>10 DEF StepTo
    <2>2. Takes(H, <<y>>, Stopped)
      BY <1>2, <1>4, <2>1, RunsOne DEF Takes
    <2> QED BY <1>3, <2>2
  <1> QED BY <1>8, <1>9, <1>10

LEMMA Releases ==
  ASSUME NEW H \in SUBSET Locks, NEW l \in H
  PROVE  Takes(H, Rel(l), H \ {l}) /\ (H = Stopped => Takes(H, Rel(l), H))
  <1> DEFINE x == [do |-> "release", lock |-> l]
  <1>1. x \in Steps /\ x.do = "release" /\ x.lock = l
    BY DEF Steps
  <1>2. Rel(l) = <<x>>
    BY DEF Rel
  <1> HIDE DEF x
  <1>3. StepTo(H, x, H \ {l}) /\ (H = Stopped => StepTo(H, x, H))
    BY <1>1 DEF StepTo
  <1>4. H \ {l} \in SUBSET Locks
    OBVIOUS
  <1>5. Takes(H, <<x>>, H \ {l})
    BY <1>1, <1>3, <1>4, RunsOne DEF Takes
  <1>6. H = Stopped => Takes(H, <<x>>, H)
    BY <1>1, <1>3, RunsOne DEF Takes
  <1> QED BY <1>2, <1>5, <1>6

LEMMA Switches == Takes({"ptable"}, Sched, {"ptable"})
  <1> DEFINE x == [do |-> "sched", lock |-> "ptable"]
  <1>1. x \in Steps /\ x.do = "sched" /\ x.lock = "ptable" /\ {"ptable"} \in SUBSET Locks
    BY DEF Steps, Locks
  <1>2. Sched = <<x>>
    BY DEF Sched
  <1> HIDE DEF x
  <1>3. StepTo({"ptable"}, x, {"ptable"})
    BY <1>1 DEF StepTo
  <1> QED BY <1>1, <1>2, <1>3, RunsOne DEF Takes

\* Nobody takes a lock twice, but for the report.
LEMMA Order ==
  ASSUME NEW H \in SUBSET Locks, NEW l, Allowed(H, l)
  PROVE  l \notin H /\ H # Stopped /\ H \cup {l} # Stopped
  <1>1. {"ptable", "kmem", "pageref", "cons", "pipe", "ticks"} = Stopped
    BY DEF Stopped, Locks
  <1>2. CASE l \in {"pipe", "ticks"} /\ H = {}
    BY <1>1, <1>2
  <1>3. CASE l = "cons" /\ (H = {} \/ H = {"pipe"} \/ H = {"pageref"} \/ H = {"pipe", "pageref"})
    BY <1>1, <1>3
  <1>4. CASE l = "ptable" /\ (H = {} \/ H = {"cons"} \/ H = {"ticks"} \/ H = {"pipe"})
    BY <1>1, <1>4
  <1>5. CASE l = "kmem" /\ (H = {} \/ H = {"ptable"} \/ H = {"pageref"}
                             \/ H = {"pipe", "pageref"} \/ H = {"cons", "pageref"})
    BY <1>1, <1>5
  <1>6. CASE l = "pageref" /\ (H = {} \/ H = {"kmem"} \/ H = {"ptable", "kmem"}
                                \/ H = {"pipe"} \/ H = {"cons"})
    BY <1>1, <1>6
  <1> QED BY <1>2, <1>3, <1>4, <1>5, <1>6 DEF Allowed

\* What comes between acquire and release.
LEMMA Inside ==
  ASSUME NEW H \in SUBSET Locks, NEW K \in SUBSET Locks, NEW l \in Locks, NEW s,
         Allowed(H, l), K = H \cup {l}
  PROVE  /\ Takes(K, s, K) => Takes(H, Locked(l, s), H)
         /\ Takes(K, s, Stopped) => Takes(H, Locked(l, s), Stopped)
  <1>1. Takes(H, Acq(l), K)
    BY Acquires
  <1>2. l \in K /\ K \ {l} = H /\ l \in Stopped /\ Stopped \in SUBSET Locks
    BY Order DEF Stopped
  <1>3. Takes(K, Rel(l), H)
    BY <1>2, Releases
  <1>4. Takes(Stopped, Rel(l), Stopped)
    BY <1>2, Releases
  <1>5. ASSUME Takes(K, s, K) PROVE Takes(H, Locked(l, s), H)
    <2>1. Takes(H, Acq(l) \o s, K)
      BY <1>1, <1>5, Then
    <2> QED BY <1>3, <2>1, Then DEF Locked
  <1>6. ASSUME Takes(K, s, Stopped) PROVE Takes(H, Locked(l, s), Stopped)
    <2>1. Takes(H, Acq(l) \o s, Stopped)
      BY <1>1, <1>6, Then
    <2> QED BY <1>4, <2>1, Then DEF Locked
  <1> QED BY <1>5, <1>6

\* Once stopped, always stopped.
LEMMA Stays ==
  ASSUME NEW l \in Locks, NEW s, Takes(Stopped, s, Stopped)
  PROVE  Takes(Stopped, Locked(l, s), Stopped)
  <1>1. Stopped \in SUBSET Locks /\ l \in Stopped
    BY DEF Stopped
  <1>2. Takes(Stopped, Acq(l), Stopped) /\ Takes(Stopped, Rel(l), Stopped)
    BY <1>1, Acquires, Releases
  <1>3. Takes(Stopped, Acq(l) \o s, Stopped)
    BY <1>2, Then
  <1> QED BY <1>2, <1>3, Then DEF Locked

\* wakeup and sleep, from under each lock that they are called with.
LEMMA Wakes ==
  ASSUME NEW H, H = {} \/ H = {"cons"} \/ H = {"ticks"} \/ H = {"pipe"}
  PROVE  Takes(H, Wakeup, H)
  <1>1. H \in SUBSET Locks /\ "ptable" \in Locks /\ Allowed(H, "ptable")
    BY DEF Locks, Allowed
  <1>2. H \cup {"ptable"} \in SUBSET Locks
    BY <1>1
  <1>3. Takes(H \cup {"ptable"}, <<>>, H \cup {"ptable"})
    BY <1>2, Nothing
  <1> QED BY <1>1, <1>2, <1>3, Inside DEF Wakeup

LEMMA Sleeps ==
  ASSUME NEW l, l = "cons" \/ l = "ticks" \/ l = "pipe"
  PROVE  Takes({l}, Sleep(l), {l})
  <1>1. l \in Locks /\ {l} \in SUBSET Locks /\ {} \in SUBSET Locks /\ "ptable" \in Locks
        /\ {"ptable"} \in SUBSET Locks /\ l # "ptable"
    BY DEF Locks
  <1>2. Allowed({l}, "ptable") /\ Allowed({}, l)
    BY DEF Allowed
  <1>3. {l} \cup {"ptable"} \in SUBSET Locks /\ l \in {l} \cup {"ptable"}
        /\ ({l} \cup {"ptable"}) \ {l} = {"ptable"} /\ {"ptable"} \ {"ptable"} = {}
        /\ {} \cup {l} = {l}
    BY <1>1
  <1>4. Takes({l}, Acq("ptable"), {l} \cup {"ptable"})
    BY <1>1, <1>2, Acquires
  <1>5. Takes({l} \cup {"ptable"}, Rel(l), {"ptable"})
    BY <1>3, Releases
  <1>6. Takes({"ptable"}, Rel("ptable"), {})
    BY <1>1, <1>3, Releases
  <1>7. Takes({}, Acq(l), {l})
    BY <1>1, <1>2, <1>3, Acquires
  <1>8. Takes({l}, Acq("ptable") \o Rel(l), {"ptable"})
    BY <1>4, <1>5, Then
  <1>9. Takes({l}, Acq("ptable") \o Rel(l) \o Sched, {"ptable"})
    BY <1>8, Switches, Then
  <1>10. Takes({l}, Acq("ptable") \o Rel(l) \o Sched \o Rel("ptable"), {})
    BY <1>6, <1>9, Then
  <1> QED BY <1>7, <1>10, Then DEF Sleep

\* A lock taken and given back.
LEMMA Touches ==
  ASSUME NEW H \in SUBSET Locks, NEW l \in Locks, Allowed(H, l)
  PROVE  Takes(H, Locked(l, <<>>), H)
  <1>1. H \cup {l} \in SUBSET Locks
    OBVIOUS
  <1>2. Takes(H \cup {l}, <<>>, H \cup {l})
    BY <1>1, Nothing
  <1> QED BY <1>1, <1>2, Inside

LEMMA Frees ==
  ASSUME NEW H, H = {} \/ H = {"ptable"}
  PROVE  Takes(H, Free, H)
  <1>1. H \in SUBSET Locks /\ "kmem" \in Locks /\ "pageref" \in Locks
        /\ H \cup {"kmem"} \in SUBSET Locks
    BY DEF Locks
  <1>2. H \cup {"kmem"} = {"kmem"} \/ H \cup {"kmem"} = {"ptable", "kmem"}
    OBVIOUS
  <1>3. Allowed(H, "kmem")
    BY DEF Allowed
  <1>4. Allowed(H \cup {"kmem"}, "pageref")
    BY <1>2 DEF Allowed
  <1>5. Takes(H \cup {"kmem"}, Locked("pageref", <<>>), H \cup {"kmem"})
    BY <1>1, <1>4, Touches
  <1> QED BY <1>1, <1>3, <1>5, Inside DEF Free

\* A report may be made where the console is not in use.
LEMMA Reports ==
  ASSUME NEW H \in SUBSET Locks, ~Printing \/ Allowed(H, "cons")
  PROVE  Takes(H, Report, H)
  <1>1. CASE ~Printing
    <2>1. Report = <<>>
      BY <1>1 DEF Report
    <2> QED BY <2>1, Nothing
  <1>2. CASE Printing /\ Allowed(H, "cons")
    <2>1. Report = Locked("cons", <<>>) /\ "cons" \in Locks
      BY <1>2 DEF Report, Locks
    <2> QED BY <1>2, <2>1, Touches
  <1> QED BY <1>1, <1>2

\* A page fault gives back what it takes, with the pipe's lock held too, and
\* with the console's unless it is reported there.
LEMMA FaultsAre ==
  ASSUME NEW f \in Faults
  PROVE  \/ f = <<>> \/ f = Report
         \/ f = Report \o Locked("pageref", <<>>)
         \/ f = Report \o Locked("pageref", Alloc \o Report)
  BY DEF Faults

LEMMA FaultsReturn ==
  ASSUME NEW H, NEW f \in Faults,
         H = {} \/ H = {"pipe"} \/ (H = {"cons"} /\ ~Printing)
  PROVE  Takes(H, f, H)
  <1> DEFINE K == H \cup {"pageref"}
  <1>1. H \in SUBSET Locks /\ K \in SUBSET Locks /\ "pageref" \in Locks /\ "kmem" \in Locks
    BY DEF Locks
  <1>2. Allowed(H, "pageref") /\ (~Printing \/ Allowed(H, "cons"))
    BY DEF Allowed
  <1>3. K = {"pageref"} \/ K = {"pipe", "pageref"} \/ (K = {"cons", "pageref"} /\ ~Printing)
    OBVIOUS
  <1> HIDE DEF K
  <1>4. Allowed(K, "kmem")
    BY <1>3 DEF Allowed
  <1>5. ~Printing \/ Allowed(K, "cons")
    BY <1>3 DEF Allowed
  <1>6. Takes(K, Alloc, K)
    BY <1>1, <1>4, Touches DEF Alloc
  <1>7. Takes(K, Report, K) /\ Takes(H, Report, H)
    BY <1>1, <1>2, <1>5, Reports
  <1>8. Takes(K, Alloc \o Report, K)
    BY <1>6, <1>7, Then
  <1>9. Takes(H, Locked("pageref", <<>>), H)
    BY <1>1, <1>2, Touches
  <1>10. Takes(H, Locked("pageref", Alloc \o Report), H)
    BY <1>1, <1>2, <1>8, Inside DEF K
  <1>11. Takes(H, Report \o Locked("pageref", <<>>), H)
    BY <1>7, <1>9, Then
  <1>12. Takes(H, Report \o Locked("pageref", Alloc \o Report), H)
    BY <1>7, <1>10, Then
  <1> QED BY <1>1, <1>7, <1>11, <1>12, FaultsAre, Nothing

LEMMA FaultsStop ==
  ASSUME NEW f \in Faults, Printing
  PROVE  f = <<>> \/ Takes({"cons"}, f, Stopped)
  <1>1. {"cons"} \in SUBSET Locks /\ Stopped \in SUBSET Locks
        /\ "cons" \in Stopped /\ {"pageref", "kmem", "cons"} \subseteq Locks
    BY DEF Locks, Stopped
  <1>2. Takes(Stopped, <<>>, Stopped)
    BY <1>1, Nothing
  <1>3. Report = Acq("cons") \o <<>> \o Rel("cons") /\ Report = Locked("cons", <<>>)
    BY DEF Report, Locked
  <1>4. Takes({"cons"}, Acq("cons"), Stopped)
    BY <1>1, Acquires
  <1>5. Takes(Stopped, Rel("cons"), Stopped)
    BY <1>1, Releases
  <1>6. Takes({"cons"}, Acq("cons") \o <<>>, Stopped)
    BY <1>2, <1>4, Then
  <1>7. Takes({"cons"}, Report, Stopped)
    BY <1>3, <1>5, <1>6, Then
  <1>8. Takes(Stopped, Report, Stopped) /\ Takes(Stopped, Alloc, Stopped)
    BY <1>1, <1>2, <1>3, Stays DEF Alloc
  <1>9. Takes(Stopped, Alloc \o Report, Stopped)
    BY <1>8, Then
  <1>10. Takes(Stopped, Locked("pageref", <<>>), Stopped)
    BY <1>1, <1>2, Stays
  <1>11. Takes(Stopped, Locked("pageref", Alloc \o Report), Stopped)
    BY <1>1, <1>9, Stays
  <1>12. Takes({"cons"}, Report \o Locked("pageref", <<>>), Stopped)
    BY <1>7, <1>10, Then
  <1>13. Takes({"cons"}, Report \o Locked("pageref", Alloc \o Report), Stopped)
    BY <1>7, <1>11, Then
  <1> QED BY <1>7, <1>12, <1>13, FaultsAre

-----------------------------------------------------------------------------
(* Every section, and the rest of one after its sched, closes.             *)

LEMMA Opens ==
  ASSUME NEW l \in Locks, NEW s, Allowed({}, l)
  PROVE  /\ Takes({l}, s, {l}) => Takes({}, Locked(l, s), {})
         /\ Takes({l}, s, Stopped) => Takes({}, Locked(l, s), Stopped)
  <1>1. {} \in SUBSET Locks /\ {l} \in SUBSET Locks /\ {l} = {} \cup {l}
    OBVIOUS
  <1> QED BY <1>1, Inside

Ends(H, s) == Takes(H, s, {}) \/ Takes(H, s, Stopped)

LEMMA SimpleSections ==
  \A s \in {Wakeup, Alloc, Free, Count, Wait, Yield, Clock, Nap, ConsoleIntr, ConsoleWrite} :
    Takes({}, s, {})
  <1>1. \A l \in Locks : {} \in SUBSET Locks /\ {l} \in SUBSET Locks
    OBVIOUS
  <1>2. {"ptable", "kmem", "pageref", "cons", "pipe", "ticks"} = Locks
    BY DEF Locks
  <1>3. \A l \in Locks : Allowed({}, l)
    BY <1>2 DEF Allowed
  <1>4. Takes({}, Alloc, {}) /\ Takes({}, Count, {}) /\ Takes({}, ConsoleWrite, {})
    BY <1>1, <1>2, <1>3, Touches DEF Alloc, Count, ConsoleWrite
  <1>5. Takes({}, Wakeup, {}) /\ Takes({}, Free, {})
    BY Wakes, Frees
  <1>6. Takes({}, Wait, {})
    BY <1>2, <1>3, Frees, Opens DEF Wait
  <1>7. Takes({}, Yield, {})
    BY <1>2, <1>3, Switches, Opens DEF Yield
  <1>8. Takes({}, Clock, {})
    BY <1>2, <1>3, Wakes, Opens DEF Clock
  <1>9. Takes({}, Nap, {})
    BY <1>2, <1>3, Sleeps, Opens DEF Nap
  <1>10. Takes({}, ConsoleIntr, {})
    BY <1>2, <1>3, Wakes, Opens DEF ConsoleIntr
  <1> QED BY <1>4, <1>5, <1>6, <1>7, <1>8, <1>9, <1>10

LEMMA ConsoleReadsEnd == \A s \in ConsoleReads : Ends({}, s)
  <1> SUFFICES ASSUME NEW w \in {<<>>, Sleep("cons")}, NEW f \in Faults
               PROVE  Ends({}, Locked("cons", w \o f))
      BY DEF ConsoleReads
  <1>1. "cons" \in Locks /\ {"cons"} \in SUBSET Locks /\ Allowed({}, "cons")
    BY DEF Locks, Allowed
  <1>2. Takes({"cons"}, w, {"cons"})
    BY <1>1, Nothing, Sleeps
  <1>3. Takes({"cons"}, f, {"cons"}) \/ Takes({"cons"}, f, Stopped)
    BY <1>1, FaultsReturn, FaultsStop, Nothing
  <1>4. Takes({"cons"}, w \o f, {"cons"}) \/ Takes({"cons"}, w \o f, Stopped)
    BY <1>2, <1>3, Then
  <1> QED BY <1>1, <1>4, Opens DEF Ends

LEMMA PipeSections == \A s \in PipeWrites \cup PipeReads : Takes({}, s, {})
  <1>1. "pipe" \in Locks /\ {"pipe"} \in SUBSET Locks /\ Allowed({}, "pipe")
    BY DEF Locks, Allowed
  <1>2. Takes({"pipe"}, <<>>, {"pipe"}) /\ Takes({"pipe"}, Wakeup, {"pipe"})
        /\ Takes({"pipe"}, Sleep("pipe"), {"pipe"})
    BY <1>1, Nothing, Wakes, Sleeps
  <1>3. Takes({"pipe"}, Wakeup \o Sleep("pipe"), {"pipe"})
    BY <1>2, Then
  <1>4. ASSUME NEW w \in {<<>>, Wakeup \o Sleep("pipe")}
        PROVE  Takes({}, Locked("pipe", w \o Wakeup), {})
    <2>1. Takes({"pipe"}, w, {"pipe"})
      BY <1>2, <1>3
    <2>2. Takes({"pipe"}, w \o Wakeup, {"pipe"})
      BY <1>2, <2>1, Then
    <2> QED BY <1>1, <2>2, Opens
  <1>5. ASSUME NEW w \in {<<>>, Sleep("pipe")}, NEW f \in Faults
        PROVE  Takes({}, Locked("pipe", w \o f \o Wakeup), {})
    <2>1. Takes({"pipe"}, w, {"pipe"}) /\ Takes({"pipe"}, f, {"pipe"})
      BY <1>2, FaultsReturn
    <2>2. Takes({"pipe"}, w \o f, {"pipe"})
      BY <2>1, Then
    <2>3. Takes({"pipe"}, w \o f \o Wakeup, {"pipe"})
      BY <1>2, <2>2, Then
    <2> QED BY <1>1, <2>3, Opens
  <1> QED BY <1>4, <1>5 DEF PipeWrites, PipeReads

LEMMA SectionsEnd == \A s \in Sections : Ends({}, s)
  <1>1. \A f \in Faults : Takes({}, f, {})
    BY FaultsReturn
  <1> QED BY <1>1, SimpleSections, ConsoleReadsEnd, PipeSections DEF Sections, Ends

LEMMA ResumesEnd == \A s \in Resumes : Ends({"ptable"}, s)
  <1>1. Ends({"ptable"}, Rel("ptable"))
    <2>1. {"ptable"} \in SUBSET Locks /\ {"ptable"} \ {"ptable"} = {}
      BY DEF Locks
    <2>2. Takes({"ptable"}, Rel("ptable"), {})
      BY <2>1, Releases
    <2> QED BY <2>2 DEF Ends
  <1>2. ASSUME NEW t \in Sections, \E n \in DOMAIN t : t[n] = Sched[1]
        PROVE  Ends({"ptable"}, AfterSched(t))
    <2>1. PICK k : k = CHOOSE n \in DOMAIN t : t[n] = Sched[1]
      OBVIOUS
    <2>2. k \in DOMAIN t /\ t[k] = Sched[1]
      BY <1>2, <2>1
    <2>3. AfterSched(t) = SubSeq(t, k + 1, Len(t))
      BY <2>1 DEF AfterSched
    <2>4. Sched[1] = [do |-> "sched", lock |-> "ptable"]
      BY DEF Sched
    <2>5. t[k].do = "sched"
      BY <2>2, <2>4
    <2>6. PICK K \in {{}, Stopped} : Takes({}, t, K)
      BY SectionsEnd DEF Ends
    <2>7. t \in Seq(Steps) /\ k \in 1 .. Len(t) /\ Runs({}, t, K)
      BY <2>2, <2>6 DEF Takes
    <2>8. PICK A \in SUBSET Locks, B \in SUBSET Locks :
            /\ StepTo(A, t[k], B)
            /\ Runs(B, SubSeq(t, k + 1, Len(t)), K)
            /\ SubSeq(t, k + 1, Len(t)) \in Seq(Steps)
      BY <2>7, RunsRest
    <2>9. B = {"ptable"}
      BY <2>5, <2>8 DEF StepTo
    <2> QED BY <2>3, <2>6, <2>8, <2>9 DEF Ends, Takes
  <1> QED BY <1>1, <1>2 DEF Resumes

-----------------------------------------------------------------------------
(* The invariant.                                                          *)

\* What comes of the first step of a section.
LEMMA FirstStep ==
  ASSUME NEW H, NEW s \in Seq(Steps), s # <<>>, Closes(H, s)
  PROVE  \E M \in SUBSET Locks : /\ StepTo(H, Head(s), M) /\ Closes(M, Tail(s))
                                 /\ Tail(s) \in Seq(Steps)
  <1>1. PICK K \in {{}, Stopped} : Runs(H, s, K)
    BY DEF Closes
  <1>2. 1 \in 1 .. Len(s) /\ Head(s) = s[1] /\ Tail(s) = SubSeq(s, 1 + 1, Len(s))
    <2>1. Len(s) \in Nat /\ Len(s) # 0
      BY EmptySeq
    <2>2. Tail(s) = SubSeq(s, 2, Len(s))
      BY TailIsSubSeq
    <2> QED BY <2>1, <2>2
  <1>3. PICK A \in SUBSET Locks, M \in SUBSET Locks :
          /\ StepTo(A, s[1], M) /\ A = H
          /\ Runs(M, SubSeq(s, 1 + 1, Len(s)), K)
          /\ SubSeq(s, 1 + 1, Len(s)) \in Seq(Steps)
    BY <1>1, <1>2, RunsRest
  <1> QED BY <1>2, <1>3 DEF Closes

LEMMA EndsCloses == ASSUME NEW H, NEW s, Ends(H, s) PROVE Closes(H, s) /\ s \in Seq(Steps)
  BY DEF Ends, Closes, Takes

LEMMA NothingLeft ==
  ASSUME NEW H, Closes(H, <<>>), H # Stopped PROVE H = {}
  <1>1. PICK K \in {{}, Stopped} : Runs(H, <<>>, K)
    BY DEF Closes
  <1>2. PICK h \in [0 .. Len(<<>>) -> SUBSET Locks] : Way(h, <<>>, H, K)
    BY <1>1 DEF Runs
  <1>3. h[0] = H /\ h[0] = K
    BY <1>2 DEF Way
  <1> QED BY <1>3

LEMMA LockInit == Init => LockInv
  <1> SUFFICES ASSUME Init PROVE LockInv
      OBVIOUS
  <1>1. \A c \in Cpus : Held(c) = {} /\ todo[c] = <<>>
    BY LocksAssumption DEF Init, Held
  <1>2. Closes({}, <<>>)
    BY RunsNothing DEF Closes
  <1>3. {} # Stopped
    BY DEF Stopped, Locks
  <1>4. <<>> \in Seq(Steps)
    OBVIOUS
  <1> QED BY <1>1, <1>2, <1>3, <1>4 DEF Init, LockInv

\* A step that leaves the locks alone.
LEMMA NewSteps ==
  ASSUME LockInv, NEW c \in Cpus, NEW s, Ends(Held(c), s),
         todo' = [todo EXCEPT ![c] = s], UNCHANGED owner
  PROVE  LockInv'
  <1>1. Closes(Held(c), s) /\ s \in Seq(Steps)
    BY EndsCloses
  <1>2. todo' \in [Cpus -> Seq(Steps)] /\ todo'[c] = s
        /\ \A d \in Cpus : d # c => todo'[d] = todo[d]
    BY <1>1 DEF LockInv
  <1>3. \A d \in Cpus : Held(d)' = Held(d)
    BY DEF Held
  <1>4. ASSUME NEW d \in Cpus PROVE (Held(d) # Stopped /\ Closes(Held(d), todo[d]))'
    <2>1. Held(d)' # Stopped
      BY <1>3 DEF LockInv
    <2>2. Closes(Held(d), todo'[d])
      BY <1>1, <1>2 DEF LockInv
    <2>3. Closes(Held(d)', todo'[d])
      BY <1>3, <2>2
    <2> QED BY <2>1, <2>3 DEF Stopped, Closes, Runs, Way, StepTo, Allowed
  <1> QED BY <1>2, <1>4 DEF LockInv

\* A step that takes a lock or gives it back.
LEMMA LockSteps ==
  ASSUME LockInv, NEW c \in Cpus, NEW M, NEW l \in Locks, NEW x \in {c, Idle},
         todo[c] # <<>>, M # Stopped, Closes(M, Tail(todo[c])), Tail(todo[c]) \in Seq(Steps),
         owner' = [owner EXCEPT ![l] = x], owner[l] \in {c, Idle},
         Held(c)' = M, Done(c)
  PROVE  LockInv'
  <1>1. owner' \in [Locks -> Cpus \cup {Idle}]
        /\ \A k \in Locks : k # l => owner'[k] = owner[k]
    BY DEF LockInv
  <1>2. todo' \in [Cpus -> Seq(Steps)] /\ todo'[c] = Tail(todo[c])
        /\ \A d \in Cpus : d # c => todo'[d] = todo[d]
    BY DEF LockInv, Done
  <1>3. \A d \in Cpus : d # c => Held(d)' = Held(d)
    BY <1>1, LocksAssumption DEF Held, LockInv
  <1>4. ASSUME NEW d \in Cpus PROVE (Held(d) # Stopped /\ Closes(Held(d), todo[d]))'
    <2>1. CASE d = c
      <3>1. Held(d)' # Stopped /\ Closes(Held(d)', todo'[d])
        BY <1>2, <2>1
      <3> QED BY <3>1 DEF Stopped, Closes, Runs, Way, StepTo, Allowed
    <2>2. CASE d # c
      <3>1. Held(d)' # Stopped
        BY <1>3, <2>2 DEF LockInv
      <3>2. Closes(Held(d), todo'[d])
        BY <1>2, <2>2 DEF LockInv
      <3>3. Closes(Held(d)', todo'[d])
        BY <1>3, <2>2, <3>2
      <3> QED BY <3>1, <3>3 DEF Stopped, Closes, Runs, Way, StepTo, Allowed
    <2> QED BY <2>1, <2>2
  <1> QED BY <1>1, <1>2, <1>4 DEF LockInv

LEMMA LockNext == LockInv /\ [Next]_vars => LockInv'
  <1> SUFFICES ASSUME LockInv, [Next]_vars PROVE LockInv'
      OBVIOUS
  <1>1. ASSUME NEW c \in Cpus, Enter(c) PROVE LockInv'
    <2>1. todo[c] = <<>> /\ UNCHANGED owner
      BY <1>1 DEF Enter
    <2>2. Held(c) = {}
      BY <2>1, NothingLeft DEF LockInv
    <2>3. PICK s \in Sections : todo' = [todo EXCEPT ![c] = s]
      BY <1>1 DEF Enter
    <2> QED BY <2>1, <2>2, <2>3, SectionsEnd, NewSteps
  <1>2. ASSUME NEW c \in Cpus, Switch(c) PROVE LockInv'
    <2>1. Held(c) = {"ptable"} /\ UNCHANGED owner
      BY <1>2 DEF Switch
    <2>2. PICK s \in Resumes : todo' = [todo EXCEPT ![c] = s]
      BY <1>2 DEF Switch
    <2> QED BY <2>1, <2>2, ResumesEnd, NewSteps
  <1>3. ASSUME NEW c \in Cpus, NEW l \in Locks, Acquire(c, l) PROVE LockInv'
    <2>1. /\ todo[c] # <<>> /\ Head(todo[c]) = [do |-> "acquire", lock |-> l]
          /\ owner[l] = Idle /\ owner' = [owner EXCEPT ![l] = c] /\ Done(c)
      BY <1>3 DEF Acquire, At
    <2>2. Head(todo[c]).do = "acquire" /\ Head(todo[c]).lock = l
      BY <2>1
    <2>3. PICK M \in SUBSET Locks :
            /\ StepTo(Held(c), Head(todo[c]), M)
            /\ Closes(M, Tail(todo[c])) /\ Tail(todo[c]) \in Seq(Steps)
      BY <2>1, FirstStep DEF LockInv
    <2>4. l \notin Held(c) /\ Held(c) # Stopped
      BY <2>1, LocksAssumption DEF Held, LockInv
    <2>5. Allowed(Held(c), l) /\ M = Held(c) \cup {l}
      BY <2>2, <2>3, <2>4 DEF StepTo
    <2>6. Held(c) \in SUBSET Locks
      BY DEF Held
    <2>7. M # Stopped
      BY <2>5, <2>6, Order
    <2>8. Held(c)' = M
      BY <2>1, <2>5 DEF Held, LockInv
    <2> QED BY <2>1, <2>3, <2>7, <2>8, LockSteps
  <1>4. ASSUME NEW c \in Cpus, NEW l \in Locks, Release(c, l) PROVE LockInv'
    <2>1. /\ todo[c] # <<>> /\ Head(todo[c]) = [do |-> "release", lock |-> l]
          /\ owner[l] = c /\ owner' = [owner EXCEPT ![l] = Idle] /\ Done(c)
      BY <1>4 DEF Release, At
    <2>2. Head(todo[c]).do = "release" /\ Head(todo[c]).lock = l
      BY <2>1
    <2>3. PICK M \in SUBSET Locks :
            /\ StepTo(Held(c), Head(todo[c]), M)
            /\ Closes(M, Tail(todo[c])) /\ Tail(todo[c]) \in Seq(Steps)
      BY <2>1, FirstStep DEF LockInv
    <2>4. Held(c) # Stopped
      BY DEF LockInv
    <2>5. M = Held(c) \ {l}
      BY <2>2, <2>3, <2>4 DEF StepTo
    <2>7. M # Stopped
      BY <2>5 DEF Stopped
    <2>8. Held(c)' = M
      BY <2>1, <2>5, LocksAssumption DEF Held, LockInv
    <2> QED BY <2>1, <2>3, <2>7, <2>8, LockSteps
  <1>5. CASE UNCHANGED vars
    <2>1. owner' = owner /\ todo' = todo
      BY <1>5 DEF vars
    <2>2. \A c \in Cpus : Held(c)' = Held(c)
      BY <2>1 DEF Held
    <2>3. ASSUME NEW c \in Cpus PROVE (Held(c) # Stopped /\ Closes(Held(c), todo[c]))'
      <3>1. Held(c)' # Stopped /\ Closes(Held(c)', todo'[c])
        BY <2>1, <2>2 DEF LockInv
      <3> QED BY <3>1 DEF Stopped, Closes, Runs, Way, StepTo, Allowed
    <2> QED BY <2>1, <2>3 DEF LockInv
  <1> QED BY <1>1, <1>2, <1>3, <1>4, <1>5 DEF Next, Step

-----------------------------------------------------------------------------
(* The theorems.                                                           *)

\* Whatever CPUs do at once, each holds the locks that its place in a section
\* says, and the rest of the section takes them in an order of `Allowed`.
THEOREM LocksInvariant == Spec => []LockInv
  <1> QED BY LockInit, LockNext, PTL DEF Spec

\* What a CPU at an acquire may hold.
LEMMA AtAcquire ==
  ASSUME LockInv, NEW c \in Cpus, NEW l \in Locks, At(c, "acquire", l)
  PROVE  \/ Allowed(Held(c), l)
         \/ l = "cons" /\ "cons" \in Held(c) /\ Printing
  <1>1. todo[c] # <<>> /\ Head(todo[c]) = [do |-> "acquire", lock |-> l]
    BY DEF At
  <1>2. Head(todo[c]).do = "acquire" /\ Head(todo[c]).lock = l
    BY <1>1
  <1>3. PICK M \in SUBSET Locks : StepTo(Held(c), Head(todo[c]), M)
    BY <1>1, FirstStep DEF LockInv
  <1>4. Held(c) # Stopped
    BY DEF LockInv
  <1> QED BY <1>2, <1>3, <1>4 DEF StepTo

\* For any number of CPUs: the only check of acquire, release and sched that
\* fails is that of a report inside consoleread.
THEOREM OnlyReportsEverPanic == Spec => []OnlyReportsPanic
  <1>1. LockInv => OnlyReportsPanic
    <2> SUFFICES ASSUME LockInv, NEW c \in Cpus, Panics(c)
                 PROVE  Printing /\ owner["cons"] = c /\ At(c, "acquire", "cons")
        BY DEF OnlyReportsPanic
    <2>a. Held(c) \in SUBSET Locks /\ Held(c) # Stopped
      BY DEF LockInv, Held
    <2>1. PICK l \in Locks :
            \/ At(c, "acquire", l) /\ owner[l] = c
            \/ At(c, "release", l) /\ owner[l] # c
            \/ At(c, "sched", l) /\ Held(c) # {"ptable"}
      BY DEF Panics
    <2>2. CASE At(c, "acquire", l) /\ owner[l] = c
      <3>1. l \in Held(c)
        BY <2>2 DEF Held
      <3>2. ~Allowed(Held(c), l)
        BY <2>a, <3>1, Order
      <3> QED BY <2>2, <3>2, AtAcquire
    <2>3. CASE At(c, "release", l) /\ owner[l] # c
      <3>1. todo[c] # <<>> /\ Head(todo[c]) = [do |-> "release", lock |-> l]
        BY <2>3 DEF At
      <3>2. Head(todo[c]).do = "release" /\ Head(todo[c]).lock = l
        BY <3>1
      <3>3. PICK M \in SUBSET Locks : StepTo(Held(c), Head(todo[c]), M)
        BY <3>1, FirstStep DEF LockInv
      <3>4. l \in Held(c)
        BY <2>a, <3>2, <3>3 DEF StepTo
      <3> QED BY <2>3, <3>4 DEF Held
    <2>4. CASE At(c, "sched", l) /\ Held(c) # {"ptable"}
      <3>1. todo[c] # <<>> /\ Head(todo[c]) = [do |-> "sched", lock |-> l]
        BY <2>4 DEF At
      <3>2. Head(todo[c]).do = "sched"
        BY <3>1
      <3>3. PICK M \in SUBSET Locks : StepTo(Held(c), Head(todo[c]), M)
        BY <3>1, FirstStep DEF LockInv
      <3> QED BY <2>4, <3>2, <3>3 DEF StepTo
    <2> QED BY <2>1, <2>2, <2>3, <2>4
  <1> QED BY <1>1, LocksInvariant, PTL

\* For any number of CPUs: every circle of waits has a kfree that waits for a
\* page fault, and a page fault that waits for kmem.lock or for the console.
THEOREM OnlyFaultsEverHang == Spec => []OnlyFaultsHang
  <1>1. LockInv => OnlyFaultsHang
    <2> SUFFICES ASSUME LockInv, NEW S \in SUBSET Cpus, Stuck(S)
                 PROVE  /\ \E c \in S : owner["kmem"] = c /\ At(c, "acquire", "pageref")
                        /\ \E c \in S :
                             /\ owner["pageref"] = c
                             /\ \/ At(c, "acquire", "kmem")
                                \/ Printing /\ At(c, "acquire", "cons")
        BY DEF OnlyFaultsHang
    <2> DEFINE Wants(c, l) == At(c, "acquire", l) /\ Allowed(Held(c), l)
               Wanted(l) == \E c \in S : Wants(c, l)
    \* Each waits for a lock, which one of the others has.
    <2>1. \A c \in S : \E l \in Locks : Wants(c, l) /\ owner[l] \in S
      <3> SUFFICES ASSUME NEW c \in S PROVE \E l \in Locks : Wants(c, l) /\ owner[l] \in S
          OBVIOUS
      <3>1. PICK d \in S : Waits(c, d)
        BY DEF Stuck
      <3>2. PICK l \in Locks : c # d /\ At(c, "acquire", l) /\ owner[l] = d
        BY <3>1 DEF Waits
      <3>3. l \notin Held(c)
        BY <3>2 DEF Held
      <3>4. Allowed(Held(c), l)
        BY <3>2, <3>3, AtAcquire
      <3> QED BY <3>2, <3>4
    <2>2. \A c \in S, l, k \in Locks : At(c, "acquire", l) /\ At(c, "acquire", k) => l = k
      <3>1. \A l, k : [do |-> "acquire", lock |-> l].lock = l
        OBVIOUS
      <3> QED BY <3>1 DEF At
    <2>3. \A l \in Locks : Wanted(l) => \E d \in S, k \in Locks : l \in Held(d) /\ Wants(d, k)
      <3> SUFFICES ASSUME NEW l \in Locks, NEW c \in S, Wants(c, l)
                   PROVE  \E d \in S, k \in Locks : l \in Held(d) /\ Wants(d, k)
          OBVIOUS
      <3>1. owner[l] \in S
        BY <2>1, <2>2
      <3>2. l \in Held(owner[l])
        BY DEF Held
      <3> QED BY <2>1, <3>1, <3>2
    <2>4. S # {} /\ \A c \in S : \E l \in Locks : Wants(c, l)
      BY <2>1 DEF Stuck
    <2>5. {"ptable", "kmem", "pageref", "cons", "pipe", "ticks"} = Locks
      BY DEF Locks
    <2> HIDE DEF Wanted, Wants
    <2>a. ASSUME NEW d \in S, NEW k \in Locks, Wants(d, k)
          PROVE  Wanted(k) /\ Allowed(Held(d), k) /\ At(d, "acquire", k) /\ d \in Cpus
      BY <2>a DEF Wanted, Wants
    \* What is wanted while each lock is held.
    <2>6. ASSUME NEW H, NEW k, Allowed(H, k)
          PROVE  /\ "pipe" \in H \/ "ticks" \in H => k \in {"cons", "ptable", "kmem", "pageref"}
                 /\ "cons" \in H => k \in {"ptable", "kmem", "pageref"}
                 /\ "cons" \in H /\ k # "ptable" => ~Printing
                 /\ "ptable" \in H => k = "kmem" \/ (k = "pageref" /\ "kmem" \in H)
                 /\ "kmem" \in H => k = "pageref"
                 /\ "pageref" \in H => k = "kmem" \/ (k = "cons" /\ Printing)
      <3>1. CASE k \in {"pipe", "ticks"} /\ H = {}
        BY <3>1
      <3>2. CASE k = "cons" /\ (H = {} \/ H = {"pipe"})
        BY <3>2
      <3>3. CASE k = "cons" /\ Printing /\ (H = {"pageref"} \/ H = {"pipe", "pageref"})
        BY <3>3
      <3>4. CASE k = "ptable" /\ (H = {} \/ H = {"cons"} \/ H = {"ticks"} \/ H = {"pipe"})
        BY <3>4
      <3>5. CASE k = "kmem" /\ (H = {} \/ H = {"ptable"} \/ H = {"pageref"} \/ H = {"pipe", "pageref"})
        BY <3>5
      <3>6. CASE k = "kmem" /\ ~Printing /\ H = {"cons", "pageref"}
        BY <3>6
      <3>7. CASE k = "pageref" /\ (H = {} \/ H = {"kmem"} \/ H = {"ptable", "kmem"} \/ H = {"pipe"})
        BY <3>7
      <3>8. CASE k = "pageref" /\ ~Printing /\ H = {"cons"}
        BY <3>8
      <3> QED BY <2>6, <3>1, <3>2, <3>3, <3>4, <3>5, <3>6, <3>7, <3>8 DEF Allowed
    <2>7. \E c \in S : owner["kmem"] = c /\ At(c, "acquire", "pageref")
      <3> SUFFICES ASSUME \A c \in S : ~("kmem" \in Held(c) /\ At(c, "acquire", "pageref"))
                   PROVE  FALSE
          BY DEF Held
      <3>1. ~Wanted("kmem")
        BY <2>3, <2>5, <2>6, <2>a
      <3>2. ~Wanted("ptable")
        BY <2>3, <2>5, <2>6, <2>a, <3>1
      <3>3. ~Wanted("cons") /\ ~Wanted("pageref")
        <4>1. CASE Printing
          <5>1. ~Wanted("cons")
            BY <2>3, <2>5, <2>6, <2>a, <3>2, <4>1
          <5> QED BY <2>3, <2>5, <2>6, <2>a, <3>1, <5>1
        <4>2. CASE ~Printing
          <5>1. ~Wanted("pageref")
            BY <2>3, <2>5, <2>6, <2>a, <3>1, <4>2
          <5> QED BY <2>3, <2>5, <2>6, <2>a, <3>1, <3>2, <5>1
        <4> QED BY <4>1, <4>2
      <3>4. ~Wanted("pipe") /\ ~Wanted("ticks")
        BY <2>3, <2>5, <2>6, <2>a, <3>1, <3>2, <3>3
      <3> QED BY <2>4, <2>5, <2>a, <3>1, <3>2, <3>3, <3>4
    <2>8. \E c \in S : /\ owner["pageref"] = c
                       /\ At(c, "acquire", "kmem") \/ (Printing /\ At(c, "acquire", "cons"))
      <3> SUFFICES ASSUME \A c \in S : ~(/\ "pageref" \in Held(c)
                                         /\ \/ At(c, "acquire", "kmem")
                                            \/ Printing /\ At(c, "acquire", "cons"))
                   PROVE  FALSE
          BY DEF Held
      <3>1. ~Wanted("pageref")
        BY <2>3, <2>5, <2>6, <2>a
      <3>2. ~Wanted("kmem")
        BY <2>3, <2>5, <2>6, <2>a, <3>1
      <3>3. ~Wanted("ptable")
        BY <2>3, <2>5, <2>6, <2>a, <3>1, <3>2
      <3>4. ~Wanted("cons")
        BY <2>3, <2>5, <2>6, <2>a, <3>1, <3>2, <3>3
      <3>5. ~Wanted("pipe") /\ ~Wanted("ticks")
        BY <2>3, <2>5, <2>6, <2>a, <3>1, <3>2, <3>3, <3>4
      <3> QED BY <2>4, <2>5, <2>a, <3>1, <3>2, <3>3, <3>4, <3>5
    <2> QED BY <2>7, <2>8
  <1> QED BY <1>1, LocksInvariant, PTL

=============================================================================
