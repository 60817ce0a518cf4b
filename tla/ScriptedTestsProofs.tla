------------------------ MODULE ScriptedTestsProofs -------------------------
(***************************************************************************)
(* ScriptedTests, for every setting, time-out and number of iterations: a  *)
(* test that passes has given the resource back, it has seen a driver that *)
(* keeps the promise the test is about, and what a dead owner left behind  *)
(* is never looked at.                                                     *)
(*                                                                         *)
(* The first part says what the scripts of TestScripts are, call by call;  *)
(* the second what a step can do to where the actors are, the results, the *)
(* mutex and the references.  What the properties need is then one         *)
(* invariant for each group of tests: the call a test has come to says     *)
(* what has happened to the resource.  The last part types the calls and   *)
(* counts the owners of experiment 11.                                     *)
(***************************************************************************)
EXTENDS ScriptedTests, SequenceTheorems, TLAPS

-----------------------------------------------------------------------------
(* The scripts, call by call.                                              *)

\* A script of n calls.
IsScript(s, n) == Len(s) = n /\ DOMAIN s = 1 .. n

\* The call c under one more condition; the two kinds of condition.
When(c, condition) == [c EXCEPT !.when = @ \cup {condition}]
Ok(name) == [name |-> name, ok |-> TRUE]
NotOk(name) == [name |-> name, ok |-> FALSE]

\* If and Unless add one condition to every call of what they are given.
LEMMA IfUnless ==
  ASSUME NEW name, NEW calls
  PROVE  /\ If(name, calls) = Only(calls, Ok(name))
         /\ Unless(name, calls) = Only(calls, NotOk(name))
BY DEF If, Unless, Ok, NotOk

\* A script given call by call is what Only makes of another one.
LEMMA OnlyCalls ==
  ASSUME NEW s, NEW t, NEW x, NEW k \in Nat, DOMAIN s = 1 .. k,
         t = [j \in 1 .. k |-> t[j]],
         \A j \in 1 .. k : t[j] = When(s[j], x)
  PROVE  Only(s, x) = t
<1>1. Only(s, x) = [j \in 1 .. k |-> When(s[j], x)]
  BY DEF Only, When
<1> QED BY <1>1

\* The same for scripts of one, two, five and six calls.
LEMMA OnlyOne ==
  ASSUME NEW c, NEW x
  PROVE  Only(<<c>>, x) = <<When(c, x)>>
BY DEF Only, When

LEMMA OnlyTwo ==
  ASSUME NEW c, NEW d, NEW x
  PROVE  Only(<<c, d>>, x) = <<When(c, x), When(d, x)>>
BY DEF Only, When

LEMMA OnlyFive ==
  ASSUME NEW c, NEW d, NEW e, NEW f, NEW g, NEW x
  PROVE  Only(<<c, d, e, f, g>>, x) =
           <<When(c, x), When(d, x), When(e, x), When(f, x), When(g, x)>>
<1> DEFINE s == <<c, d, e, f, g>>
           t == <<When(c, x), When(d, x), When(e, x), When(f, x), When(g, x)>>
<1> HIDE DEF s, t
<1>1. DOMAIN s = 1 .. 5 /\ t = [j \in 1 .. 5 |-> t[j]]
  BY DEF s, t
<1>2. \A j \in 1 .. 5 : t[j] = When(s[j], x)
  <2>1. /\ t[1] = When(s[1], x) /\ t[2] = When(s[2], x) /\ t[3] = When(s[3], x)
        /\ t[4] = When(s[4], x) /\ t[5] = When(s[5], x)
    BY DEF s, t
  <2> QED BY <2>1
<1>3. Only(s, x) = t
  BY <1>1, <1>2, OnlyCalls
<1> QED BY <1>3 DEF s, t

LEMMA OnlySix ==
  ASSUME NEW c, NEW d, NEW e, NEW f, NEW g, NEW h, NEW x
  PROVE  Only(<<c, d, e, f, g, h>>, x) =
           <<When(c, x), When(d, x), When(e, x), When(f, x), When(g, x),
             When(h, x)>>
<1> DEFINE s == <<c, d, e, f, g, h>>
           t == <<When(c, x), When(d, x), When(e, x), When(f, x), When(g, x),
                  When(h, x)>>
<1> HIDE DEF s, t
<1>1. DOMAIN s = 1 .. 6 /\ t = [j \in 1 .. 6 |-> t[j]]
  BY DEF s, t
<1>2. \A j \in 1 .. 6 : t[j] = When(s[j], x)
  <2>1. /\ t[1] = When(s[1], x) /\ t[2] = When(s[2], x) /\ t[3] = When(s[3], x)
        /\ t[4] = When(s[4], x) /\ t[5] = When(s[5], x) /\ t[6] = When(s[6], x)
    BY DEF s, t
  <2> QED BY <2>1
<1>3. Only(s, x) = t
  BY <1>1, <1>2, OnlyCalls
<1> QED BY <1>3 DEF s, t

\* Two sequences of one length with the same elements are equal.
LEMMA SameElements ==
  ASSUME NEW s, NEW t, NEW S, s \in Seq(S), t \in Seq(S), Len(s) = Len(t),
         \A j \in 1 .. Len(t) : s[j] = t[j]
  PROVE  s = t
OBVIOUS

\* Scripts put together: what stands at each place of a concatenation.
LEMMA JoinOneOne ==
  ASSUME NEW c, NEW d
  PROVE  <<c>> \o <<d>> = <<c, d>>
<1> DEFINE s == <<c>> \o <<d>>
           t == <<c, d>>
           S == {c, d}
<1>1. s \in Seq(S) /\ t \in Seq(S)
  OBVIOUS
<1>2. Len(s) = 2 /\ s[1] = c /\ s[2] = d
  OBVIOUS
<1>3. Len(t) = 2 /\ t[1] = c /\ t[2] = d
  OBVIOUS
<1> HIDE DEF s, t, S
<1>4. s = t
  BY <1>1, <1>2, <1>3, SameElements
<1> QED BY <1>4 DEF s, t

LEMMA JoinFourTwo ==
  ASSUME NEW c, NEW d, NEW e, NEW f, NEW g, NEW h
  PROVE  <<c, d, e, f>> \o <<g, h>> = <<c, d, e, f, g, h>>
<1> DEFINE s == <<c, d, e, f>> \o <<g, h>>
           t == <<c, d, e, f, g, h>>
           S == {c, d, e, f, g, h}
<1>1. s \in Seq(S) /\ t \in Seq(S)
  OBVIOUS
<1>2. /\ Len(s) = 6 /\ s[1] = c /\ s[2] = d /\ s[3] = e /\ s[4] = f
      /\ s[5] = g /\ s[6] = h
  OBVIOUS
<1>3. /\ Len(t) = 6 /\ t[1] = c /\ t[2] = d /\ t[3] = e /\ t[4] = f
      /\ t[5] = g /\ t[6] = h
  OBVIOUS
<1> HIDE DEF s, t, S
<1>4. s = t
  BY <1>1, <1>2, <1>3, SameElements
<1> QED BY <1>4 DEF s, t

LEMMA JoinThreeOneOne ==
  ASSUME NEW c, NEW d, NEW e, NEW f, NEW g
  PROVE  <<c, d, e>> \o <<f>> \o <<g>> = <<c, d, e, f, g>>
<1> DEFINE s == <<c, d, e>> \o <<f>> \o <<g>>
           t == <<c, d, e, f, g>>
           S == {c, d, e, f, g}
<1>1. s \in Seq(S) /\ t \in Seq(S)
  OBVIOUS
<1>2. /\ Len(s) = 5 /\ s[1] = c /\ s[2] = d /\ s[3] = e /\ s[4] = f
      /\ s[5] = g
  OBVIOUS
<1>3. /\ Len(t) = 5 /\ t[1] = c /\ t[2] = d /\ t[3] = e /\ t[4] = f
      /\ t[5] = g
  OBVIOUS
<1> HIDE DEF s, t, S
<1>4. s = t
  BY <1>1, <1>2, <1>3, SameElements
<1> QED BY <1>4 DEF s, t

LEMMA JoinOneTwoOne ==
  ASSUME NEW c, NEW d, NEW e, NEW f
  PROVE  <<c>> \o <<d, e>> \o <<f>> = <<c, d, e, f>>
<1> DEFINE s == <<c>> \o <<d, e>> \o <<f>>
           t == <<c, d, e, f>>
           S == {c, d, e, f}
<1>1. s \in Seq(S) /\ t \in Seq(S)
  OBVIOUS
<1>2. Len(s) = 4 /\ s[1] = c /\ s[2] = d /\ s[3] = e /\ s[4] = f
  OBVIOUS
<1>3. Len(t) = 4 /\ t[1] = c /\ t[2] = d /\ t[3] = e /\ t[4] = f
  OBVIOUS
<1> HIDE DEF s, t, S
<1>4. s = t
  BY <1>1, <1>2, <1>3, SameElements
<1> QED BY <1>4 DEF s, t

LEMMA JoinFourOneOne ==
  ASSUME NEW c, NEW d, NEW e, NEW f, NEW g, NEW h
  PROVE  <<c, d, e, f>> \o <<g>> \o <<h>> = <<c, d, e, f, g, h>>
<1> DEFINE s == <<c, d, e, f>> \o <<g>> \o <<h>>
           t == <<c, d, e, f, g, h>>
           S == {c, d, e, f, g, h}
<1>1. s \in Seq(S) /\ t \in Seq(S)
  OBVIOUS
<1>2. /\ Len(s) = 6 /\ s[1] = c /\ s[2] = d /\ s[3] = e /\ s[4] = f
      /\ s[5] = g /\ s[6] = h
  OBVIOUS
<1>3. /\ Len(t) = 6 /\ t[1] = c /\ t[2] = d /\ t[3] = e /\ t[4] = f
      /\ t[5] = g /\ t[6] = h
  OBVIOUS
<1> HIDE DEF s, t, S
<1>4. s = t
  BY <1>1, <1>2, <1>3, SameElements
<1> QED BY <1>4 DEF s, t

LEMMA JoinTwoOneOne ==
  ASSUME NEW c, NEW d, NEW e, NEW f
  PROVE  <<c, d>> \o <<e>> \o <<f>> = <<c, d, e, f>>
<1> DEFINE s == <<c, d>> \o <<e>> \o <<f>>
           t == <<c, d, e, f>>
           S == {c, d, e, f}
<1>1. s \in Seq(S) /\ t \in Seq(S)
  OBVIOUS
<1>2. Len(s) = 4 /\ s[1] = c /\ s[2] = d /\ s[3] = e /\ s[4] = f
  OBVIOUS
<1>3. Len(t) = 4 /\ t[1] = c /\ t[2] = d /\ t[3] = e /\ t[4] = f
  OBVIOUS
<1> HIDE DEF s, t, S
<1>4. s = t
  BY <1>1, <1>2, <1>3, SameElements
<1> QED BY <1>4 DEF s, t

LEMMA JoinSixOneOne ==
  ASSUME NEW c, NEW d, NEW e, NEW f, NEW g, NEW h, NEW i, NEW k
  PROVE  <<c, d, e, f, g, h>> \o <<i>> \o <<k>> = <<c, d, e, f, g, h, i, k>>
<1> DEFINE s == <<c, d, e, f, g, h>> \o <<i>> \o <<k>>
           t == <<c, d, e, f, g, h, i, k>>
           S == {c, d, e, f, g, h, i, k}
<1>1. s \in Seq(S) /\ t \in Seq(S)
  OBVIOUS
<1>2. /\ Len(s) = 8 /\ s[1] = c /\ s[2] = d /\ s[3] = e /\ s[4] = f
      /\ s[5] = g /\ s[6] = h /\ s[7] = i /\ s[8] = k
  OBVIOUS
<1>3. /\ Len(t) = 8 /\ t[1] = c /\ t[2] = d /\ t[3] = e /\ t[4] = f
      /\ t[5] = g /\ t[6] = h /\ t[7] = i /\ t[8] = k
  OBVIOUS
<1> HIDE DEF s, t, S
<1>4. s = t
  BY <1>1, <1>2, <1>3, SameElements
<1> QED BY <1>4 DEF s, t

\* What a call is: its operation, the name it mentions, the results that pass,
\* its conditions.
Form(c, op, into, expect, when) ==
  c.op = op /\ c.into = into /\ c.expect = expect /\ c.when = when

\* Thread A of the hand-off.
LEMMA HandoffACalls ==
  LET s == HandoffA
      ok == {Ok("acquireA")}
  IN /\ IsScript(s, 8)
     /\ Form(s[1], "acquire", "acquireA", Result, {})
     /\ Form(s[2], "signal", "acquired", {"S_OK"}, {})
     /\ Form(s[3], "wait", "readyForAcquire", {"S_OK"}, ok)
     /\ Form(s[4], "wait", "allowRelease", {"S_OK"}, ok)
     /\ Form(s[5], "release", "releaseA", Result, ok)
     /\ Form(s[6], "wait", "attemptFinished", {"S_OK"}, ok)
     /\ Form(s[7], "acquire", "recoveryAcquireA", Result,
             ok \cup {NotOk("acquireB")})
     /\ Form(s[8], "release", "recoveryReleaseA", Result,
             ok \cup {NotOk("acquireB"), Ok("recoveryAcquireA")})
<1> DEFINE a1 == Into("acquireA", Tolerate(Acquire(First, 0)))
           a5 == Into("releaseA", Tolerate(Release(First, 1)))
           a7 == Into("recoveryAcquireA", Tolerate(Acquire(First, 1)))
           a8 == Into("recoveryReleaseA", Tolerate(Release(First, 0)))
           c7 == When(a7, NotOk("acquireB"))
           c8 == When(When(a8, Ok("recoveryAcquireA")), NotOk("acquireB"))
<1> HIDE DEF a1, a5, a7, a8, c7, c8
<1>1. Unless("acquireB", <<a7>> \o If("recoveryAcquireA", <<a8>>)) = <<c7, c8>>
  <2> DEFINE b8 == When(a8, Ok("recoveryAcquireA"))
  <2> HIDE DEF b8
  <2>1. If("recoveryAcquireA", <<a8>>) = <<b8>>
    BY IfUnless, OnlyOne DEF b8
  <2>2. <<a7>> \o If("recoveryAcquireA", <<a8>>) = <<a7, b8>>
    BY <2>1, JoinOneOne
  <2>3. Unless("acquireB", <<a7, b8>>) = <<c7, c8>>
    BY IfUnless, OnlyTwo DEF c7, c8, b8
  <2> QED BY <2>2, <2>3
<1> DEFINE w3 == Wait("readyForAcquire")
           w4 == Wait("allowRelease")
           w6 == Wait("attemptFinished")
           x == Ok("acquireA")
<1> HIDE DEF w3, w4, w6, x
<1>2. HandoffA = <<a1, Signal("acquired")>>
                 \o <<When(w3, x), When(w4, x), When(a5, x), When(w6, x),
                      When(c7, x), When(c8, x)>>
  <2>1. <<w3, w4, a5, w6>> \o <<c7, c8>> = <<w3, w4, a5, w6, c7, c8>>
    BY JoinFourTwo
  <2>2. If("acquireA", <<w3, w4, a5, w6, c7, c8>>) =
          <<When(w3, x), When(w4, x), When(a5, x), When(w6, x), When(c7, x),
            When(c8, x)>>
    BY IfUnless, OnlySix DEF x
  <2>3. HandoffA = <<a1, Signal("acquired")>> \o If("acquireA",
          <<w3, w4, a5, w6>>
          \o Unless("acquireB", <<a7>> \o If("recoveryAcquireA", <<a8>>)))
    BY DEF HandoffA, a1, a5, a7, a8, w3, w4, w6
  <2> QED BY <1>1, <2>1, <2>2, <2>3
<1>3. /\ IsScript(HandoffA, 8)
      /\ HandoffA[1] = a1 /\ HandoffA[2] = Signal("acquired")
      /\ HandoffA[3] = When(w3, x) /\ HandoffA[4] = When(w4, x)
      /\ HandoffA[5] = When(a5, x) /\ HandoffA[6] = When(w6, x)
      /\ HandoffA[7] = When(c7, x) /\ HandoffA[8] = When(c8, x)
  BY <1>2 DEF IsScript
<1>4. /\ Form(a1, "acquire", "acquireA", Result, {})
      /\ Form(Signal("acquired"), "signal", "acquired", {"S_OK"}, {})
      /\ Form(When(w3, x), "wait", "readyForAcquire", {"S_OK"}, {x})
      /\ Form(When(w4, x), "wait", "allowRelease", {"S_OK"}, {x})
      /\ Form(When(w6, x), "wait", "attemptFinished", {"S_OK"}, {x})
  BY DEF a1, w3, w4, w6, Form, When, Signal, Wait, Into, Do, Call, Tolerate,
         Returns, Acquire
<1>5. Form(When(a5, x), "release", "releaseA", Result, {x})
  BY DEF a5, Form, When, Into, Call, Tolerate, Returns, Release
<1>6. Form(When(c7, x), "acquire", "recoveryAcquireA", Result,
           {x, NotOk("acquireB")})
  BY DEF a7, c7, Form, When, Into, Call, Tolerate, Returns, Acquire
<1>7. Form(When(c8, x), "release", "recoveryReleaseA", Result,
           {x, NotOk("acquireB"), Ok("recoveryAcquireA")})
  BY DEF a8, c8, Form, When, Into, Call, Tolerate, Returns, Release
<1> QED BY <1>3, <1>4, <1>5, <1>6, <1>7 DEF x, Form

\* Thread B of the hand-off.
LEMMA HandoffBCalls ==
  LET s == HandoffB
      ok == {Ok("acquireA")}
  IN /\ IsScript(s, 6)
     /\ Form(s[1], "wait", "acquired", {"S_OK"}, {})
     /\ Form(s[2], "signal", "readyForAcquire", {"S_OK"}, ok)
     /\ Form(s[3], "signal", "allowRelease", {"S_OK"}, ok)
     /\ Form(s[4], "acquire", "acquireB", Result, ok)
     /\ Form(s[5], "release", "releaseB", Result, ok \cup {Ok("acquireB")})
     /\ Form(s[6], "signal", "attemptFinished", {"S_OK"}, ok)
<1> DEFINE b4 == Into("acquireB", Tolerate(Acquire(FirstFromB, 1)))
           b5 == Into("releaseB", Tolerate(Release(FirstFromB, 0)))
           c5 == When(b5, Ok("acquireB"))
           s2 == Signal("readyForAcquire")
           s3 == Signal("allowRelease")
           s6 == Signal("attemptFinished")
           x == Ok("acquireA")
<1> HIDE DEF b4, b5, c5, s2, s3, s6, x
<1>1. HandoffB = <<Wait("acquired")>>
                 \o <<When(s2, x), When(s3, x), When(b4, x), When(c5, x),
                      When(s6, x)>>
  <2>1. If("acquireB", <<b5>>) = <<c5>>
    BY IfUnless, OnlyOne DEF c5
  <2>2. <<s2, s3, b4>> \o <<c5>> \o <<s6>> = <<s2, s3, b4, c5, s6>>
    BY JoinThreeOneOne
  <2>3. If("acquireA", <<s2, s3, b4, c5, s6>>) =
          <<When(s2, x), When(s3, x), When(b4, x), When(c5, x), When(s6, x)>>
    BY IfUnless, OnlyFive DEF x
  <2>4. HandoffB = <<Wait("acquired")>> \o If("acquireA",
          <<s2, s3, b4>> \o If("acquireB", <<b5>>) \o <<s6>>)
    BY DEF HandoffB, b4, b5, s2, s3, s6
  <2> QED BY <2>1, <2>2, <2>3, <2>4
<1>2. /\ IsScript(HandoffB, 6)
      /\ HandoffB[1] = Wait("acquired") /\ HandoffB[2] = When(s2, x)
      /\ HandoffB[3] = When(s3, x) /\ HandoffB[4] = When(b4, x)
      /\ HandoffB[5] = When(c5, x) /\ HandoffB[6] = When(s6, x)
  BY <1>1 DEF IsScript
<1>3. /\ Form(Wait("acquired"), "wait", "acquired", {"S_OK"}, {})
      /\ Form(When(s2, x), "signal", "readyForAcquire", {"S_OK"}, {x})
      /\ Form(When(s3, x), "signal", "allowRelease", {"S_OK"}, {x})
      /\ Form(When(s6, x), "signal", "attemptFinished", {"S_OK"}, {x})
  BY DEF s2, s3, s6, Form, When, Signal, Wait, Into, Do, Call
<1>4. Form(When(b4, x), "acquire", "acquireB", Result, {x})
  BY DEF b4, Form, When, Into, Call, Tolerate, Returns, Acquire
<1>5. Form(When(c5, x), "release", "releaseB", Result, {x, Ok("acquireB")})
  BY DEF b5, c5, Form, When, Into, Call, Tolerate, Returns, Release
<1> QED BY <1>2, <1>3, <1>4, <1>5 DEF x, Form

\* The test that starts them.
LEMMA CrossThreadHandoffCalls ==
  LET s == CrossThreadHandoff
      ok == {"S_OK"}
  IN /\ IsScript(s, 8)
     /\ s[1] = Do("start") /\ s[2] = Do("join")
     /\ Form(s[3], "check", "acquireA", ok, {})
     /\ Form(s[4], "check", "releaseA", ok, {})
     /\ Form(s[5], "check", "acquireB", ok \cup Failure, {})
     /\ Form(s[6], "check", "releaseB", ok, {Ok("acquireB")})
     /\ Form(s[7], "check", "recoveryAcquireA", ok, {NotOk("acquireB")})
     /\ Form(s[8], "check", "recoveryReleaseA", ok, {NotOk("acquireB")})
<1> DEFINE c3 == Expect(Check("acquireA", {"S_OK"}))
           c4 == Expect(Check("releaseA", {"S_OK"}))
           c5 == Check("acquireB", {"S_OK"} \cup Failure)
           c6 == Expect(Check("releaseB", {"S_OK"}))
           c7 == Expect(Check("recoveryAcquireA", {"S_OK"}))
           c8 == Expect(Check("recoveryReleaseA", {"S_OK"}))
           x == Ok("acquireB")
           y == NotOk("acquireB")
<1> HIDE DEF c3, c4, c5, c6, c7, c8, x, y
<1>1. CrossThreadHandoff = <<Do("start"), Do("join")>> \o <<c3, c4, c5>>
                           \o <<When(c6, x)>> \o <<When(c7, y), When(c8, y)>>
  <2>1. /\ If("acquireB", <<c6>>) = <<When(c6, x)>>
        /\ Unless("acquireB", <<c7, c8>>) = <<When(c7, y), When(c8, y)>>
    BY IfUnless, OnlyOne, OnlyTwo DEF x, y
  <2> QED
    BY <2>1 DEF CrossThreadHandoff, RunThreads, c3, c4, c5, c6, c7, c8
<1>2. /\ IsScript(CrossThreadHandoff, 8)
      /\ CrossThreadHandoff[1] = Do("start")
      /\ CrossThreadHandoff[2] = Do("join")
      /\ CrossThreadHandoff[3] = c3 /\ CrossThreadHandoff[4] = c4
      /\ CrossThreadHandoff[5] = c5 /\ CrossThreadHandoff[6] = When(c6, x)
      /\ CrossThreadHandoff[7] = When(c7, y)
      /\ CrossThreadHandoff[8] = When(c8, y)
  BY <1>1 DEF IsScript
<1>3. /\ Form(c3, "check", "acquireA", {"S_OK"}, {})
      /\ Form(c4, "check", "releaseA", {"S_OK"}, {})
      /\ Form(c5, "check", "acquireB", {"S_OK"} \cup Failure, {})
      /\ Form(When(c6, x), "check", "releaseB", {"S_OK"}, {x})
      /\ Form(When(c7, y), "check", "recoveryAcquireA", {"S_OK"}, {y})
      /\ Form(When(c8, y), "check", "recoveryReleaseA", {"S_OK"}, {y})
  BY DEF c3, c4, c5, c6, c7, c8, Form, When, Expect, Check, Into, Returns, Do,
         Call
<1> QED BY <1>2, <1>3 DEF x, y, Form

\* The threads of the migration.
LEMMA MigrationACalls ==
  LET s == MigrationA IN
  /\ IsScript(s, 4)
  /\ Form(s[1], "acquire", "acquireA", Result, {})
  /\ Form(s[2], "signal", "acquired", {"S_OK"}, {})
  /\ Form(s[3], "await", "migrationAttempted", {"S_OK"}, {})
  /\ Form(s[4], "release", "cleanupA", Result,
          {Ok("acquireA"), NotOk("releaseB")})
<1> DEFINE a1 == Into("acquireA", Tolerate(Acquire(First, 0)))
           a4 == Into("cleanupA", Tolerate(Release(First, 1)))
           c4 == When(When(a4, NotOk("releaseB")), Ok("acquireA"))
<1> HIDE DEF a1, a4, c4
<1>1. MigrationA = <<a1, Signal("acquired"), Await("migrationAttempted")>>
                   \o <<c4>>
  <2>1. If("acquireA", Unless("releaseB", <<a4>>)) = <<c4>>
    BY IfUnless, OnlyOne DEF c4
  <2> QED BY <2>1 DEF MigrationA, a1, a4
<1>2. /\ IsScript(MigrationA, 4) /\ MigrationA[1] = a1
      /\ MigrationA[2] = Signal("acquired")
      /\ MigrationA[3] = Await("migrationAttempted") /\ MigrationA[4] = c4
  BY <1>1 DEF IsScript
<1>3. /\ Form(a1, "acquire", "acquireA", Result, {})
      /\ Form(Signal("acquired"), "signal", "acquired", {"S_OK"}, {})
      /\ Form(Await("migrationAttempted"), "await", "migrationAttempted",
              {"S_OK"}, {})
  BY DEF a1, Form, Signal, Await, Into, Do, Call, Tolerate, Returns, Acquire
<1>4. Form(c4, "release", "cleanupA", Result,
           {Ok("acquireA"), NotOk("releaseB")})
  BY DEF c4, a4, Form, When, Into, Call, Tolerate, Returns, Release
<1> QED BY <1>2, <1>3, <1>4

LEMMA MigrationBCalls ==
  LET s == MigrationB IN
  /\ IsScript(s, 3)
  /\ Form(s[1], "await", "acquired", {"S_OK"}, {})
  /\ Form(s[2], "release", "releaseB", Result, {Ok("acquireA")})
  /\ Form(s[3], "signal", "migrationAttempted", {"S_OK"}, {})
<1> DEFINE b2 == Into("releaseB", Tolerate(Release(FirstFromB, 1)))
           c2 == When(b2, Ok("acquireA"))
<1> HIDE DEF b2, c2
<1>1. MigrationB = <<Await("acquired")>> \o <<c2>>
                   \o <<Signal("migrationAttempted")>>
  <2>1. If("acquireA", <<b2>>) = <<c2>>
    BY IfUnless, OnlyOne DEF c2
  <2> QED BY <2>1 DEF MigrationB, b2
<1>2. /\ IsScript(MigrationB, 3) /\ MigrationB[1] = Await("acquired")
      /\ MigrationB[2] = c2 /\ MigrationB[3] = Signal("migrationAttempted")
  BY <1>1 DEF IsScript
<1>3. /\ Form(Await("acquired"), "await", "acquired", {"S_OK"}, {})
      /\ Form(Signal("migrationAttempted"), "signal", "migrationAttempted",
              {"S_OK"}, {})
  BY DEF Form, Signal, Await, Into, Do, Call
<1>4. Form(c2, "release", "releaseB", Result, {Ok("acquireA")})
  BY DEF c2, b2, Form, When, Into, Call, Tolerate, Returns, Release
<1> QED BY <1>2, <1>3, <1>4

LEMMA OwnershipMigrationCalls ==
  LET s == OwnershipMigration
      ok == {"S_OK"}
  IN /\ IsScript(s, 10)
     /\ s[1] = Do("start") /\ s[2] = Do("join")
     /\ Form(s[3], "acquire", "acquireAfter", Result, {})
     /\ Form(s[4], "release", "releaseAfter", Result, {Ok("acquireAfter")})
     /\ Form(s[5], "check", "acquireA", ok, {})
     /\ Form(s[6], "check", "releaseB", ok \cup Failure, {})
     /\ Form(s[7], "check", "cleanupA", {"E_UNEXPECTED"}, {Ok("releaseB")})
     /\ Form(s[8], "check", "cleanupA", ok, {NotOk("releaseB")})
     /\ Form(s[9], "check", "acquireAfter", ok, {})
     /\ Form(s[10], "check", "releaseAfter", ok, {})
<1> DEFINE c3 == Into("acquireAfter", Tolerate(Acquire(First, 1)))
           c4 == Into("releaseAfter", Tolerate(Release(First, 0)))
           c5 == Check("acquireA", {"S_OK"})
           c6 == Check("releaseB", {"S_OK"} \cup Failure)
           c7 == Expect(Check("cleanupA", {"E_UNEXPECTED"}))
           c8 == Expect(Check("cleanupA", {"S_OK"}))
           c9 == Expect(Check("acquireAfter", {"S_OK"}))
           c10 == Expect(Check("releaseAfter", {"S_OK"}))
           w4 == When(c4, Ok("acquireAfter"))
           w7 == When(c7, Ok("releaseB"))
           w8 == When(c8, NotOk("releaseB"))
<1> HIDE DEF c3, c4, c5, c6, c7, c8, c9, c10, w4, w7, w8
<1>1. OwnershipMigration =
        <<Do("start"), Do("join"), c3, w4, c5, c6, w7, w8>> \o <<c9, c10>>
  <2>1. /\ If("acquireAfter", <<c4>>) = <<w4>>
        /\ If("releaseB", <<c7>>) = <<w7>>
        /\ Unless("releaseB", <<c8>>) = <<w8>>
    BY IfUnless, OnlyOne DEF w4, w7, w8
  <2>2. OwnershipMigration = <<Do("start"), Do("join")>> \o <<c3>> \o <<w4>>
                             \o <<c5, c6>> \o <<w7>> \o <<w8>> \o <<c9, c10>>
    BY <2>1
    DEF OwnershipMigration, RunThreads, c3, c4, c5, c6, c7, c8, c9, c10
  <2>3. /\ <<Do("start"), Do("join")>> \o <<c3>> \o <<w4>> =
             <<Do("start"), Do("join"), c3, w4>>
        /\ <<Do("start"), Do("join"), c3, w4>> \o <<c5, c6>> =
             <<Do("start"), Do("join"), c3, w4, c5, c6>>
        /\ <<Do("start"), Do("join"), c3, w4, c5, c6>> \o <<w7>> \o <<w8>> =
             <<Do("start"), Do("join"), c3, w4, c5, c6, w7, w8>>
    BY JoinTwoOneOne, JoinFourTwo, JoinSixOneOne
  <2> QED BY <2>2, <2>3
<1>2. LET s == OwnershipMigration IN
      /\ IsScript(s, 10)
      /\ s[1] = Do("start") /\ s[2] = Do("join") /\ s[3] = c3 /\ s[4] = w4
      /\ s[5] = c5 /\ s[6] = c6 /\ s[7] = w7 /\ s[8] = w8 /\ s[9] = c9
      /\ s[10] = c10
  BY <1>1 DEF IsScript
<1>3. /\ Form(c3, "acquire", "acquireAfter", Result, {})
      /\ Form(w4, "release", "releaseAfter", Result, {Ok("acquireAfter")})
  BY DEF c3, c4, w4, Form, When, Into, Call, Tolerate, Returns, Acquire,
         Release
<1>4. /\ Form(c5, "check", "acquireA", {"S_OK"}, {})
      /\ Form(c6, "check", "releaseB", {"S_OK"} \cup Failure, {})
      /\ Form(w7, "check", "cleanupA", {"E_UNEXPECTED"}, {Ok("releaseB")})
      /\ Form(w8, "check", "cleanupA", {"S_OK"}, {NotOk("releaseB")})
      /\ Form(c9, "check", "acquireAfter", {"S_OK"}, {})
      /\ Form(c10, "check", "releaseAfter", {"S_OK"}, {})
  BY DEF c5, c6, c7, c8, c9, c10, w7, w8, Form, When, Expect, Check, Into,
         Returns, Do, Call
<1> QED BY <1>2, <1>3, <1>4

\* The threads of experiment 11 and the test that starts them.
LEMMA AttemptCalls ==
  ASSUME NEW me \in {"A", "B"}, NEW peer \in {"A", "B"}, NEW i
  PROVE  LET s == Attempt(me, peer, i)
             ok == {Ok(AcquireResult[me])}
         IN /\ IsScript(s, 8)
            /\ Form(s[1], "signal", StartGate[me], {"S_OK"}, {})
            /\ Form(s[2], "wait", StartGate[peer], {"S_OK"}, {})
            /\ Form(s[3], "acquire", AcquireResult[me], Result, {})
            /\ Form(s[4], "enter", "nothing", {"S_OK"}, ok)
            /\ Form(s[5], "signal", AttemptsFinished[me], {"S_OK"}, {})
            /\ Form(s[6], "wait", AttemptsFinished[peer], {"S_OK"}, {})
            /\ Form(s[7], "release", ReleaseResult[me], Result, ok)
            /\ Form(s[8], "leave", "nothing", {"S_OK"}, ok)
            /\ s[3].key = 0 /\ s[3].by = i /\ s[7].key = 0
<1> DEFINE a3 == Into(AcquireResult[me], Tolerate(Acquire(i, 0)))
           r7 == Into(ReleaseResult[me], Tolerate(Release(i, 0)))
           d4 == Do("enter")
           d8 == Do("leave")
           s1 == Signal(StartGate[me])
           s5 == Signal(AttemptsFinished[me])
           w2 == Wait(StartGate[peer])
           w6 == Wait(AttemptsFinished[peer])
           x == Ok(AcquireResult[me])
<1> HIDE DEF a3, r7, d4, d8, s1, s5, w2, w6, x
<1>1. Attempt(me, peer, i) = <<s1, w2, a3, When(d4, x), s5, w6>>
                             \o <<When(r7, x), When(d8, x)>>
  <2>1. /\ If(AcquireResult[me], <<d4>>) = <<When(d4, x)>>
        /\ If(AcquireResult[me], <<r7, d8>>) = <<When(r7, x), When(d8, x)>>
    BY IfUnless, OnlyOne, OnlyTwo DEF x
  <2>2. Attempt(me, peer, i) =
          <<s1, w2>> \o <<a3>> \o If(AcquireResult[me], <<d4>>)
          \o <<s5, w6>> \o If(AcquireResult[me], <<r7, d8>>)
    BY DEF Attempt, Barrier, a3, r7, d4, d8, s1, s5, w2, w6
  <2>3. /\ <<s1, w2>> \o <<a3>> \o <<When(d4, x)>> =
             <<s1, w2, a3, When(d4, x)>>
        /\ <<s1, w2, a3, When(d4, x)>> \o <<s5, w6>> =
             <<s1, w2, a3, When(d4, x), s5, w6>>
    BY JoinTwoOneOne, JoinFourTwo
  <2> QED BY <2>1, <2>2, <2>3
<1>2. LET s == Attempt(me, peer, i) IN
      /\ IsScript(s, 8) /\ s[1] = s1 /\ s[2] = w2 /\ s[3] = a3
      /\ s[4] = When(d4, x) /\ s[5] = s5 /\ s[6] = w6 /\ s[7] = When(r7, x)
      /\ s[8] = When(d8, x)
  BY <1>1 DEF IsScript
<1>3. /\ Form(s1, "signal", StartGate[me], {"S_OK"}, {})
      /\ Form(w2, "wait", StartGate[peer], {"S_OK"}, {})
      /\ Form(s5, "signal", AttemptsFinished[me], {"S_OK"}, {})
      /\ Form(w6, "wait", AttemptsFinished[peer], {"S_OK"}, {})
      /\ Form(When(d4, x), "enter", "nothing", {"S_OK"}, {x})
      /\ Form(When(d8, x), "leave", "nothing", {"S_OK"}, {x})
  BY DEF s1, w2, s5, w6, d4, d8, Form, When, Signal, Wait, Into, Do, Call
<1>4. /\ Form(a3, "acquire", AcquireResult[me], Result, {})
      /\ a3.key = 0 /\ a3.by = i
  BY DEF a3, Form, Into, Call, Tolerate, Returns, Acquire
<1>5. /\ Form(When(r7, x), "release", ReleaseResult[me], Result, {x})
      /\ When(r7, x).key = 0
  BY DEF r7, Form, When, Into, Call, Tolerate, Returns, Release
<1> QED BY <1>2, <1>3, <1>4, <1>5 DEF x, Form

LEMMA ConcurrentAcquireCalls ==
  LET s == ConcurrentAcquire IN
  /\ IsScript(s, 7)
  /\ s[1] = Do("start") /\ s[2] = Do("join")
  /\ Form(s[3], "check", "releaseA", {"S_OK"}, {Ok("acquireA")})
  /\ Form(s[4], "check", "releaseB", {"S_OK"}, {Ok("acquireB")})
  /\ Form(s[5], "check-owners", "nothing", {"S_OK"}, {})
  /\ Form(s[6], "acquire", "nothing", {"S_OK"}, {})
  /\ Form(s[7], "release", "nothing", {"S_OK"}, {}) /\ s[7].key = 0
<1> DEFINE c3 == Expect(Check("releaseA", {"S_OK"}))
           c4 == Expect(Check("releaseB", {"S_OK"}))
           c5 == Expect(Do("check-owners"))
           w3 == When(c3, Ok("acquireA"))
           w4 == When(c4, Ok("acquireB"))
<1> HIDE DEF c3, c4, c5, w3, w4
<1>1. ConcurrentAcquire =
        <<Do("start"), Do("join"), w3, w4>>
        \o <<c5, Acquire(First, 0), Expect(Release(First, 0))>>
  <2>1. /\ If("acquireA", <<c3>>) = <<w3>>
        /\ If("acquireB", <<c4>>) = <<w4>>
    BY IfUnless, OnlyOne DEF w3, w4
  <2>2. ConcurrentAcquire =
          <<Do("start"), Do("join")>> \o <<w3>> \o <<w4>>
          \o <<c5, Acquire(First, 0), Expect(Release(First, 0))>>
    BY <2>1 DEF ConcurrentAcquire, RunThreads, c3, c4, c5
  <2> QED BY <2>2, JoinTwoOneOne
<1>2. LET s == ConcurrentAcquire IN
      /\ IsScript(s, 7) /\ s[1] = Do("start") /\ s[2] = Do("join")
      /\ s[3] = w3 /\ s[4] = w4 /\ s[5] = c5 /\ s[6] = Acquire(First, 0)
      /\ s[7] = Expect(Release(First, 0))
  BY <1>1 DEF IsScript
<1>3. /\ Form(w3, "check", "releaseA", {"S_OK"}, {Ok("acquireA")})
      /\ Form(w4, "check", "releaseB", {"S_OK"}, {Ok("acquireB")})
      /\ Form(c5, "check-owners", "nothing", {"S_OK"}, {})
  BY DEF c3, c4, c5, w3, w4, Form, When, Expect, Check, Into, Returns, Do, Call
<1>4. /\ Form(Acquire(First, 0), "acquire", "nothing", {"S_OK"}, {})
      /\ Form(Expect(Release(First, 0)), "release", "nothing", {"S_OK"}, {})
      /\ Expect(Release(First, 0)).key = 0
  BY DEF Form, Expect, Acquire, Release, Call
<1> QED BY <1>2, <1>3, <1>4

\* The tests without threads or processes.
LEMMA KeyStateMachineCalls ==
  LET s == KeyStateMachine IN
  /\ IsScript(s, 10)
  /\ \A j \in 1 .. 10 : s[j].op \in {"acquire", "release"}
  /\ Form(s[1], "acquire", "nothing", {"WAIT_TIMEOUT"}, {})
  /\ s[1].by = Second
  /\ Form(s[6], "acquire", "nothing", {"S_OK"}, {}) /\ s[6].key = 42
  /\ Form(s[7], "release", "nothing", Failure, {})
  /\ Form(s[10], "release", "nothing", {"S_OK"}, {})
<1>1. LET s == KeyStateMachine IN
      /\ IsScript(s, 10)
      /\ s[1] = Expect(Returns(Acquire(Second, 7), {"WAIT_TIMEOUT"}))
      /\ s[2] = Acquire(First, 0)
      /\ s[3] = Expect(Returns(Acquire(Second, 1), {"WAIT_TIMEOUT"}))
      /\ s[4] = Release(First, 42)
      /\ s[5] = Expect(Returns(Acquire(Second, 1), {"WAIT_TIMEOUT"}))
      /\ s[6] = Acquire(Second, 42)
      /\ s[7] = Expect(Returns(Release(First, 0), Failure))
      /\ s[8] = Release(Second, 0)
      /\ s[9] = Acquire(First, 0)
      /\ s[10] = Expect(Release(First, 0))
  BY DEF KeyStateMachine, WrongKeys, IsScript
<1>2. \A i, k :
        /\ Acquire(i, k).op = "acquire" /\ Release(i, k).op = "release"
        /\ Expect(Release(i, k)).op = "release"
        /\ \A r : /\ Expect(Returns(Acquire(i, k), r)).op = "acquire"
                  /\ Expect(Returns(Release(i, k), r)).op = "release"
  BY DEF Expect, Returns, Acquire, Release, Call
<1>3. /\ Form(Expect(Returns(Acquire(Second, 7), {"WAIT_TIMEOUT"})), "acquire",
              "nothing", {"WAIT_TIMEOUT"}, {})
      /\ Expect(Returns(Acquire(Second, 7), {"WAIT_TIMEOUT"})).by = Second
      /\ Form(Acquire(Second, 42), "acquire", "nothing", {"S_OK"}, {})
      /\ Acquire(Second, 42).key = 42
      /\ Form(Expect(Returns(Release(First, 0), Failure)), "release", "nothing",
              Failure, {})
      /\ Form(Expect(Release(First, 0)), "release", "nothing", {"S_OK"}, {})
  BY DEF Form, Expect, Returns, Acquire, Release, Call
<1>4. \A j \in 1 .. 10 : KeyStateMachine[j].op \in {"acquire", "release"}
  <2> DEFINE s == KeyStateMachine
  <2> HIDE DEF s
  <2>1. /\ s[1].op = "acquire" /\ s[2].op = "acquire" /\ s[3].op = "acquire"
        /\ s[4].op = "release" /\ s[5].op = "acquire" /\ s[6].op = "acquire"
        /\ s[7].op = "release" /\ s[8].op = "release" /\ s[9].op = "acquire"
        /\ s[10].op = "release"
    BY <1>1, <1>2 DEF s
  <2>2. \A j \in 1 .. 10 : s[j].op \in {"acquire", "release"}
    BY <2>1
  <2> QED BY <2>2 DEF s
<1> QED BY <1>1, <1>3, <1>4

LEMMA IdentityCalls ==
  /\ IsScript(Identity, 2)
  /\ Form(Identity[2], "release", "nothing", {"S_OK"}, {})
<1>1. IsScript(Identity, 2) /\ Identity[2] = Expect(Release(First, 0))
  BY DEF Identity, IsScript
<1> QED BY <1>1 DEF Form, Expect, Release, Call

LEMMA CrossReleaseCalls ==
  /\ IsScript(CrossRelease, 5)
  /\ Form(CrossRelease[5], "release", "nothing", {"S_OK"}, {})
<1> DEFINE r == When(Release(First, 1), NotOk("crossRelease"))
<1> HIDE DEF r
<1>1. CrossRelease =
        <<Acquire(First, 0),
          Into("crossRelease", Tolerate(Release(SecondOpen, 1)))>>
        \o <<r>> \o <<Acquire(SecondOpen, 1), Expect(Release(SecondOpen, 0))>>
  BY IfUnless, OnlyOne DEF CrossRelease, r
<1>2. /\ IsScript(CrossRelease, 5)
      /\ CrossRelease[5] = Expect(Release(SecondOpen, 0))
  BY <1>1 DEF IsScript
<1> QED BY <1>2 DEF Form, Expect, Release, Call

LEMMA HandleClosedCalls ==
  LET s == HandleClosed IN
  /\ IsScript(s, 10)
  /\ Form(s[1], "close-handle", "nothing", {"S_OK"}, {})
  /\ Form(s[2], "acquire", "nothing", {"S_OK"}, {})
  /\ Form(s[10], "release", "nothing", {"S_OK"}, {})
<1>1. LET s == HandleClosed IN
      /\ IsScript(s, 10) /\ s[1] = Do("close-handle")
      /\ s[2] = Acquire(First, 0) /\ s[10] = Release(First, 1)
  BY DEF HandleClosed, Write, IsScript
<1> QED BY <1>1 DEF Form, Do, Acquire, Release, Call

LEMMA CreatorDestroyedCalls ==
  LET s == CreatorDestroyed IN
  /\ IsScript(s, 9)
  /\ Form(s[6], "drop", "creator", {"S_OK"}, {})
  /\ Form(s[7], "acquire", "nothing", {"S_OK"}, {})
  /\ Form(s[9], "release", "nothing", {"S_OK"}, {})
<1>1. LET s == CreatorDestroyed IN
      /\ IsScript(s, 9) /\ s[6] = Drop("creator")
      /\ s[7] = Acquire(Second, 1) /\ s[9] = Release(Second, 0)
  BY DEF CreatorDestroyed, Write, IsScript
<1> QED BY <1>1 DEF Form, Drop, Into, Do, Acquire, Release, Call

LEMMA LastReferenceCalls ==
  LET s == LastReference IN
  /\ IsScript(s, 11)
  /\ Form(s[8], "reopen", "nothing", Failure, {})
  /\ Form(s[11], "release", "nothing", {"S_OK"}, {})
<1>1. LET s == LastReference IN
      /\ IsScript(s, 11)
      /\ s[8] = Expect(Returns(Do("reopen"), Failure))
      /\ s[11] = Expect(Release(Second, 0))
  BY DEF LastReference, IsScript
<1> QED BY <1>1 DEF Form, Expect, Returns, Do, Release, Call

\* The parent of experiment 12.
LEMMA FailureInjectionCalls ==
  ASSUME NEW phase \in Phase
  PROVE  LET s == FailureInjection(phase)
             n == CASE phase = "before-acquire" -> 12
                    [] phase = "after-release" -> 5
                    [] OTHER -> 11
         IN /\ IsScript(s, n)
            /\ s[1] = Do("start") /\ s[2] = Do("wait-for-child")
            /\ \A j \in 3 .. n : s[j].op # "start"
            /\ Form(s[n], "release", "nothing", {"S_OK"}, {})
            /\ Form(s[3], "acquire", "nothing",
                    IF phase \in {"before-acquire", "after-release"}
                    THEN {"S_OK"} ELSE {"WAIT_ABANDONED"}, {})
            /\ s[3].fatal <=> phase \in {"before-acquire", "after-release"}
            /\ phase \notin {"before-acquire", "after-release"} =>
                 Form(s[4], "create", "nothing", {"S_OK"}, {})
<1>1. /\ Do("create").op = "create" /\ Do("update").op = "update"
      /\ Do("flush").op = "flush" /\ Do("read").op = "read"
      /\ Form(Do("create"), "create", "nothing", {"S_OK"}, {})
  BY DEF Do, Call, Form
<1>2. \A i, k :
        /\ Acquire(i, k).op = "acquire" /\ Release(i, k).op = "release"
        /\ Form(Release(i, k), "release", "nothing", {"S_OK"}, {})
        /\ Form(Acquire(i, k), "acquire", "nothing", {"S_OK"}, {})
        /\ Acquire(i, k).fatal = TRUE
        /\ \A r : /\ Form(Expect(Returns(Acquire(i, k), r)), "acquire",
                          "nothing", r, {})
                  /\ Expect(Returns(Acquire(i, k), r)).fatal = FALSE
  BY DEF Form, Expect, Returns, Acquire, Release, Call
<1>3. CASE phase = "before-acquire"
  <2> DEFINE s == FailureInjection(phase)
  <2> HIDE DEF s
  <2>1. /\ IsScript(s, 12)
        /\ s[1] = Do("start") /\ s[2] = Do("wait-for-child")
        /\ s[3] = Acquire(First, 0) /\ s[4] = Release(First, 0)
        /\ s[5] = Do("create") /\ s[6] = Acquire(First, 0)
        /\ s[7] = Do("update") /\ s[8] = Do("flush")
        /\ s[9] = Release(First, 1) /\ s[10] = Acquire(Second, 1)
        /\ s[11] = Do("read") /\ s[12] = Release(Second, 0)
    BY <1>3
    DEF s, FailureInjection, RunProcess, HealthyHandoff, Write, IsScript
  <2>2. \A j \in 3 .. 12 : s[j].op # "start"
    <3>1. /\ s[3].op # "start" /\ s[4].op # "start" /\ s[5].op # "start"
          /\ s[6].op # "start" /\ s[7].op # "start" /\ s[8].op # "start"
          /\ s[9].op # "start" /\ s[10].op # "start" /\ s[11].op # "start"
          /\ s[12].op # "start"
      BY <2>1, <1>1, <1>2
    <3> QED BY <3>1
  <2>3. /\ Form(s[12], "release", "nothing", {"S_OK"}, {})
        /\ Form(s[3], "acquire", "nothing", {"S_OK"}, {}) /\ s[3].fatal = TRUE
    BY <2>1, <1>2
  <2> QED BY <1>3, <2>1, <2>2, <2>3 DEF s
<1>4. CASE phase = "after-release"
  <2> DEFINE s == FailureInjection(phase)
  <2> HIDE DEF s
  <2>1. /\ IsScript(s, 5)
        /\ s[1] = Do("start") /\ s[2] = Do("wait-for-child")
        /\ s[3] = Acquire(First, 1) /\ s[4] = Do("read")
        /\ s[5] = Release(First, 0)
    BY <1>4 DEF s, FailureInjection, RunProcess, IsScript
  <2>2. \A j \in 3 .. 5 : s[j].op # "start"
    <3>1. s[3].op # "start" /\ s[4].op # "start" /\ s[5].op # "start"
      BY <2>1, <1>1, <1>2
    <3> QED BY <3>1
  <2>3. /\ Form(s[5], "release", "nothing", {"S_OK"}, {})
        /\ Form(s[3], "acquire", "nothing", {"S_OK"}, {}) /\ s[3].fatal = TRUE
    BY <2>1, <1>2
  <2> QED BY <1>4, <2>1, <2>2, <2>3 DEF s
<1>5. CASE phase \in {"after-acquire", "after-write", "after-flush"}
  <2> DEFINE s == FailureInjection(phase)
  <2> HIDE DEF s
  <2>1. /\ IsScript(s, 11)
        /\ s[1] = Do("start") /\ s[2] = Do("wait-for-child")
        /\ s[3] = Expect(Returns(Acquire(First, 0), {"WAIT_ABANDONED"}))
        /\ s[4] = Do("create") /\ s[5] = Acquire(First, 0)
        /\ s[6] = Do("update") /\ s[7] = Do("flush")
        /\ s[8] = Release(First, 1) /\ s[9] = Acquire(Second, 1)
        /\ s[10] = Do("read") /\ s[11] = Release(Second, 0)
    BY <1>5
    DEF s, FailureInjection, RunProcess, Recover, HealthyHandoff, Write,
        IsScript
  <2>2. \A j \in 3 .. 11 : s[j].op # "start"
    <3>1. /\ s[3].op # "start" /\ s[4].op # "start" /\ s[5].op # "start"
          /\ s[6].op # "start" /\ s[7].op # "start" /\ s[8].op # "start"
          /\ s[9].op # "start" /\ s[10].op # "start" /\ s[11].op # "start"
      BY <2>1, <1>1, <1>2 DEF Form
    <3> QED BY <3>1
  <2>3. /\ Form(s[11], "release", "nothing", {"S_OK"}, {})
        /\ Form(s[3], "acquire", "nothing", {"WAIT_ABANDONED"}, {})
        /\ s[3].fatal = FALSE
        /\ Form(s[4], "create", "nothing", {"S_OK"}, {})
    BY <2>1, <1>1, <1>2
  <2> QED BY <1>5, <2>1, <2>2, <2>3 DEF s
<1> QED BY <1>3, <1>4, <1>5 DEF Phase

\* The child of experiment 12: it ends at the first call that fails.
LEMMA FailingChildCalls ==
  /\ \A phase \in Phase :
       \E n \in 2 .. 5 : IsScript(FailingChild(phase), n)
  /\ LET s == FailingChild("before-acquire") IN
     /\ IsScript(s, 2)
     /\ Form(s[1], "set-up", "exit", {"S_OK"}, {}) /\ s[1].fatal
     /\ Form(s[2], "terminate", "exit", {"S_OK"}, {}) /\ s[2].fatal
  /\ LET s == FailingChild("after-release") IN
     /\ IsScript(s, 5)
     /\ Form(s[1], "set-up", "exit", {"S_OK"}, {}) /\ s[1].fatal
     /\ Form(s[2], "acquire", "exit", {"S_OK"}, {}) /\ s[2].fatal
     /\ Form(s[3], "update", "exit", {"S_OK"}, {}) /\ s[3].fatal
     /\ Form(s[4], "flush", "exit", {"S_OK"}, {}) /\ s[4].fatal
     /\ Form(s[5], "release", "exit", {"S_OK"}, {}) /\ s[5].fatal
<1>1. /\ IsScript(FailingChild("before-acquire"), 2)
      /\ IsScript(FailingChild("after-acquire"), 3)
      /\ IsScript(FailingChild("after-write"), 4)
      /\ IsScript(FailingChild("after-flush"), 5)
      /\ IsScript(FailingChild("after-release"), 5)
  BY DEF FailingChild, ChildCalls, Write, IsScript
<1>2. LET s == FailingChild("before-acquire") IN
      s[1] = Into("exit", Do("set-up")) /\ s[2] = Into("exit", Do("terminate"))
  BY DEF FailingChild, ChildCalls
<1>3. LET s == FailingChild("after-release") IN
      /\ s[1] = Into("exit", Do("set-up"))
      /\ s[2] = Into("exit", Acquire(InChild, 0))
      /\ s[3] = Into("exit", Do("update")) /\ s[4] = Into("exit", Do("flush"))
      /\ s[5] = Into("exit", Release(InChild, 1))
  BY DEF FailingChild, ChildCalls, Write
<1>4. /\ Form(Into("exit", Do("set-up")), "set-up", "exit", {"S_OK"}, {})
      /\ Form(Into("exit", Do("terminate")), "terminate", "exit", {"S_OK"}, {})
      /\ Form(Into("exit", Do("update")), "update", "exit", {"S_OK"}, {})
      /\ Form(Into("exit", Do("flush")), "flush", "exit", {"S_OK"}, {})
      /\ Into("exit", Do("set-up")).fatal = TRUE
      /\ Into("exit", Do("terminate")).fatal = TRUE
      /\ Into("exit", Do("update")).fatal = TRUE
      /\ Into("exit", Do("flush")).fatal = TRUE
  BY DEF Form, Into, Do, Call
<1>5. /\ Form(Into("exit", Acquire(InChild, 0)), "acquire", "exit", {"S_OK"},
              {})
      /\ Form(Into("exit", Release(InChild, 1)), "release", "exit", {"S_OK"},
              {})
      /\ Into("exit", Acquire(InChild, 0)).fatal = TRUE
      /\ Into("exit", Release(InChild, 1)).fatal = TRUE
  BY DEF Form, Into, Acquire, Release, Call
<1> QED BY <1>1, <1>2, <1>3, <1>4, <1>5 DEF Phase

\* Experiment 05: one round, as often as asked for, and the fresh resource.
LEMMA AbandonmentRoundCalls ==
  LET s == AbandonmentRound IN
  /\ IsScript(s, 6)
  /\ Form(s[1], "create", "nothing", {"S_OK"}, {})
  /\ s[2] = Do("start") /\ s[3] = Do("wait-for-child")
  /\ Form(s[4], "acquire", "acquire", Result, {})
  /\ Form(s[5], "release", "nothing", Result, {Ok("acquire")})
  /\ Form(s[6], "check", "acquire", {"WAIT_ABANDONED"}, {})
<1> DEFINE a4 == Into("acquire", Tolerate(Acquire(First, 0)))
           r5 == Tolerate(Release(First, 0))
           c6 == Check("acquire", {"WAIT_ABANDONED"})
           w5 == When(r5, Ok("acquire"))
<1> HIDE DEF a4, r5, c6, w5
<1>1. AbandonmentRound =
        <<Do("create"), Do("start"), Do("wait-for-child"), a4, w5, c6>>
  <2>1. If("acquire", <<r5>>) = <<w5>>
    BY IfUnless, OnlyOne DEF w5
  <2>2. AbandonmentRound =
          <<Do("create")>> \o <<Do("start"), Do("wait-for-child")>> \o <<a4>>
          \o <<w5>> \o <<c6>>
    BY <2>1 DEF AbandonmentRound, RunProcess, a4, r5, c6
  <2>3. <<Do("create")>> \o <<Do("start"), Do("wait-for-child")>> \o <<a4>> =
          <<Do("create"), Do("start"), Do("wait-for-child"), a4>>
    BY JoinOneTwoOne
  <2>4. <<Do("create"), Do("start"), Do("wait-for-child"), a4>>
          \o <<w5>> \o <<c6>> =
          <<Do("create"), Do("start"), Do("wait-for-child"), a4, w5, c6>>
    BY JoinFourOneOne
  <2> QED BY <2>2, <2>3, <2>4
<1>2. LET s == AbandonmentRound IN
      /\ IsScript(s, 6) /\ s[1] = Do("create") /\ s[2] = Do("start")
      /\ s[3] = Do("wait-for-child") /\ s[4] = a4 /\ s[5] = w5 /\ s[6] = c6
  BY <1>1 DEF IsScript
<1>3. /\ Form(Do("create"), "create", "nothing", {"S_OK"}, {})
      /\ Form(a4, "acquire", "acquire", Result, {})
  BY DEF a4, Form, Into, Do, Call, Tolerate, Returns, Acquire
<1>4. /\ Form(w5, "release", "nothing", Result, {Ok("acquire")})
      /\ Form(c6, "check", "acquire", {"WAIT_ABANDONED"}, {})
  BY DEF r5, w5, c6, Form, When, Into, Do, Call, Tolerate, Returns, Release,
         Check
<1> QED BY <1>2, <1>3, <1>4

\* The test goes on with a fresh resource after the last round.
LEMMA FreshResourceCalls ==
  LET s == FreshResource IN
  /\ s \in Seq({s[1], s[2], s[3], s[4], s[5]})
  /\ IsScript(s, 5)
  /\ Form(s[1], "create", "nothing", {"S_OK"}, {})
  /\ \A j \in 2 .. 5 : s[j].op \in {"acquire", "release"}
  /\ Form(s[5], "release", "nothing", {"S_OK"}, {})
<1>1. LET s == FreshResource IN
      /\ s \in Seq({s[1], s[2], s[3], s[4], s[5]})
      /\ IsScript(s, 5) /\ s[1] = Do("create") /\ s[2] = Acquire(First, 0)
      /\ s[3] = Release(First, 9) /\ s[4] = Acquire(Second, 9)
      /\ s[5] = Release(Second, 0)
  BY DEF FreshResource, IsScript
<1>2. /\ Form(Do("create"), "create", "nothing", {"S_OK"}, {})
      /\ \A i, k :
           /\ Acquire(i, k).op = "acquire" /\ Release(i, k).op = "release"
           /\ Form(Release(i, k), "release", "nothing", {"S_OK"}, {})
  BY DEF Form, Do, Acquire, Release, Call
<1>3. \A j \in 2 .. 5 : FreshResource[j].op \in {"acquire", "release"}
  <2> DEFINE s == FreshResource
  <2> HIDE DEF s
  <2>1. /\ s[2].op = "acquire" /\ s[3].op = "release"
        /\ s[4].op = "acquire" /\ s[5].op = "release"
    BY <1>1, <1>2 DEF s
  <2>2. \A j \in 2 .. 5 : s[j].op \in {"acquire", "release"}
    BY <2>1
  <2> QED BY <2>2 DEF s
<1> QED BY <1>1, <1>2, <1>3

\* The place of call j in its round.
InRound(j) == ((j - 1) % 6) + 1

\* The calls of the abandonment test: a call for every place in every round,
\* then those on the fresh resource; and those of its child.
LEMMA OwnerAbandonmentCalls ==
  LET s == OwnerAbandonment
      n == 6 * Iterations
  IN /\ n \in Nat /\ n >= 6
     /\ IsScript(s, n + 5)
     /\ \A j \in 1 .. n :
          InRound(j) \in 1 .. 6 /\ s[j] = AbandonmentRound[InRound(j)]
     /\ \A j \in 1 .. 5 : s[n + j] = FreshResource[j]
<1> DEFINE n == 6 * Iterations
           r == Repeat(Iterations, AbandonmentRound)
           S == {AbandonmentRound[i] : i \in 1 .. 6}
                \cup {FreshResource[i] : i \in 1 .. 5}
<1>1. n \in Nat /\ n >= 6 /\ Iterations * 6 = n
  BY IterationsAssumption
<1>2. r = [j \in 1 .. n |-> AbandonmentRound[InRound(j)]]
  BY <1>1, AbandonmentRoundCalls DEF Repeat, IsScript, InRound
<1> HIDE DEF n
<1>3. \A j \in 1 .. n : InRound(j) \in 1 .. 6
  BY <1>1 DEF InRound
<1>4. r \in Seq(S) /\ Len(r) = n
  BY <1>1, <1>2, <1>3
<1>5. FreshResource \in Seq(S) /\ Len(FreshResource) = 5
  BY FreshResourceCalls DEF IsScript
<1> HIDE DEF r, S
<1>6. OwnerAbandonment = r \o FreshResource
  BY DEF OwnerAbandonment, r
<1>7. /\ OwnerAbandonment \in Seq(S)
      /\ Len(OwnerAbandonment) = n + 5
      /\ \A j \in 1 .. n : OwnerAbandonment[j] = r[j]
      /\ \A j \in 1 .. 5 : OwnerAbandonment[n + j] = FreshResource[j]
  <2>1. /\ OwnerAbandonment \in Seq(S)
        /\ Len(OwnerAbandonment) = Len(r) + Len(FreshResource)
        /\ \A j \in 1 .. Len(r) + Len(FreshResource) :
             OwnerAbandonment[j] =
               IF j <= Len(r) THEN r[j] ELSE FreshResource[j - Len(r)]
    BY <1>4, <1>5, <1>6, ConcatProperties
  <2>2. \A j \in 1 .. n : j \in 1 .. n + 5 /\ j <= n
    BY <1>1
  <2>3. \A j \in 1 .. 5 : /\ n + j \in 1 .. n + 5 /\ ~(n + j <= n)
                          /\ (n + j) - n = j
    BY <1>1
  <2> QED BY <1>4, <1>5, <2>1, <2>2, <2>3
<1>8. \A j \in 1 .. n : OwnerAbandonment[j] = AbandonmentRound[InRound(j)]
  BY <1>2, <1>7
<1>9. IsScript(OwnerAbandonment, n + 5)
  BY <1>7 DEF IsScript
<1> QED BY <1>1, <1>3, <1>7, <1>8, <1>9 DEF n

LEMMA AbruptOwnerCalls ==
  /\ IsScript(AbruptOwner, 3)
  /\ \A j \in 1 .. 3 :
       AbruptOwner[j].op \in {"set-up", "acquire", "terminate"}
<1>1. /\ IsScript(AbruptOwner, 3)
      /\ AbruptOwner[1] = Into("exit", Do("set-up"))
      /\ AbruptOwner[2] = Into("exit", Acquire(InChild, 0))
      /\ AbruptOwner[3] = Into("exit", Do("terminate"))
  BY DEF AbruptOwner, ChildCalls, IsScript
<1>2. /\ AbruptOwner[1].op = "set-up" /\ AbruptOwner[2].op = "acquire"
      /\ AbruptOwner[3].op = "terminate"
  BY <1>1 DEF Into, Do, Acquire, Call
<1> QED BY <1>1, <1>2

-----------------------------------------------------------------------------
(* Which tests run what.                                                   *)

Alone == {"key-state-machine", "identity", "cross-release", "handle-closed",
          "creator-destroyed", "last-reference"}
Threaded == {"handoff", "migration", "concurrent-acquire"}
WithChild == {"abandonment"} \cup Phase

\* Which script the first thread runs in each test, and which the others.
LEMMA MainScripts ==
  /\ Script["key-state-machine"][Main] = KeyStateMachine
  /\ Script["abandonment"][Main] = OwnerAbandonment
  /\ Script["handoff"][Main] = CrossThreadHandoff
  /\ Script["migration"][Main] = OwnershipMigration
  /\ Script["identity"][Main] = Identity
  /\ Script["concurrent-acquire"][Main] = ConcurrentAcquire
  /\ Script["cross-release"][Main] = CrossRelease
  /\ Script["handle-closed"][Main] = HandleClosed
  /\ Script["creator-destroyed"][Main] = CreatorDestroyed
  /\ Script["last-reference"][Main] = LastReference
  /\ \A test \in Phase : Script[test][Main] = FailureInjection(test)
BY DEF Script, Test, Phase, Main, Child, Actor

LEMMA OtherScripts ==
  /\ Script["handoff"]["A"] = HandoffA
  /\ Script["handoff"]["B"] = HandoffB
  /\ Script["migration"]["A"] = MigrationA
  /\ Script["migration"]["B"] = MigrationB
  /\ Script["concurrent-acquire"]["A"] = Attempt("A", "B", First)
  /\ Script["concurrent-acquire"]["B"] = Attempt("B", "A", SecondOpen)
  /\ Script["abandonment"][Child] = AbruptOwner
  /\ \A test \in Phase : Script[test][Child] = FailingChild(test)
BY DEF Script, Test, Phase, Main, Child, Actor

\* An actor that a test has no use for has nothing to do.
LEMMA EmptyScripts ==
  /\ \A test \in Alone : \A a \in Actor \ {Main} : Script[test][a] = <<>>
  /\ \A test \in Threaded : Script[test][Child] = <<>>
  /\ \A test \in WithChild : /\ Script[test]["A"] = <<>>
                             /\ Script[test]["B"] = <<>>
BY DEF Script, Test, Phase, Main, Child, Actor, Alone, Threaded, WithChild

\* There is no other test.
LEMMA TestKinds == Test = Alone \cup Threaded \cup WithChild
BY DEF Test, Alone, Threaded, WithChild

\* Every script is a finite sequence of calls.
LEMMA ScriptsAreScripts ==
  \A test \in Test, a \in Actor : \E n \in Nat : IsScript(Script[test][a], n)
<1> SUFFICES ASSUME NEW test \in Test, NEW a \in Actor
             PROVE  \E n \in Nat : IsScript(Script[test][a], n)
  OBVIOUS
<1>0. IsScript(<<>>, 0)
  BY DEF IsScript
<1>1. CASE test \in Alone
  <2>1. CASE a # Main
    BY <1>0, <1>1, <2>1, EmptyScripts
  <2>2. CASE a = Main
    <3>1. /\ IsScript(Script["key-state-machine"][Main], 10)
          /\ IsScript(Script["identity"][Main], 2)
          /\ IsScript(Script["cross-release"][Main], 5)
          /\ IsScript(Script["handle-closed"][Main], 10)
          /\ IsScript(Script["creator-destroyed"][Main], 9)
          /\ IsScript(Script["last-reference"][Main], 11)
      BY MainScripts, KeyStateMachineCalls, IdentityCalls, CrossReleaseCalls,
         HandleClosedCalls, CreatorDestroyedCalls, LastReferenceCalls
    <3> QED BY <1>1, <2>2, <3>1 DEF Alone
  <2> QED BY <2>1, <2>2
<1>2. CASE test \in Threaded
  <2>1. /\ IsScript(Script["handoff"][Main], 8)
        /\ IsScript(Script["handoff"]["A"], 8)
        /\ IsScript(Script["handoff"]["B"], 6)
    BY MainScripts, OtherScripts, CrossThreadHandoffCalls, HandoffACalls,
       HandoffBCalls
  <2>2. /\ IsScript(Script["migration"][Main], 10)
        /\ IsScript(Script["migration"]["A"], 4)
        /\ IsScript(Script["migration"]["B"], 3)
    BY MainScripts, OtherScripts, OwnershipMigrationCalls, MigrationACalls,
       MigrationBCalls
  <2>3. /\ IsScript(Script["concurrent-acquire"][Main], 7)
        /\ IsScript(Script["concurrent-acquire"]["A"], 8)
        /\ IsScript(Script["concurrent-acquire"]["B"], 8)
    BY MainScripts, OtherScripts, ConcurrentAcquireCalls, AttemptCalls
  <2>4. IsScript(Script[test][Child], 0)
    BY <1>0, <1>2, EmptyScripts
  <2> QED BY <1>2, <2>1, <2>2, <2>3, <2>4 DEF Threaded, Actor
<1>3. CASE test \in WithChild
  <2>1. IsScript(Script[test]["A"], 0) /\ IsScript(Script[test]["B"], 0)
    BY <1>0, <1>3, EmptyScripts
  <2>2. CASE test = "abandonment"
    <3>1. 6 * Iterations + 5 \in Nat
      BY IterationsAssumption
    <3>2. /\ IsScript(Script["abandonment"][Main], 6 * Iterations + 5)
          /\ IsScript(Script["abandonment"][Child], 3)
      BY MainScripts, OtherScripts, OwnerAbandonmentCalls, AbruptOwnerCalls
    <3> QED BY <2>1, <2>2, <3>1, <3>2 DEF Actor
  <2>3. CASE test \in Phase
    <3>1. \E n \in Nat : IsScript(Script[test][Main], n)
      BY <2>3, MainScripts, FailureInjectionCalls
    <3>2. \E n \in Nat : IsScript(Script[test][Child], n)
      <4>1. \E n \in 2 .. 5 : IsScript(FailingChild(test), n)
        BY <2>3, FailingChildCalls
      <4> QED BY <2>3, <4>1, OtherScripts
    <3> QED BY <2>1, <3>1, <3>2 DEF Actor
  <2> QED BY <1>3, <2>2, <2>3 DEF WithChild
<1> QED BY <1>1, <1>2, <1>3, TestKinds

-----------------------------------------------------------------------------
(* The types the arguments need, and what a step may do.                   *)

\* A mutex; whether its last owner died is all that is asked of its type.
IsMutex(m) == m \in [owner : {m.owner}, key : {m.key}, abandoned : BOOLEAN]

\* The types of what the proofs look at; a script is never replaced.
TypeInv ==
  /\ setting \in Settings /\ script = Script[setting.test]
  /\ at \in [Actor -> Nat]
  /\ \A a \in Actor : at[a] <= Len(script[a]) + 1
  /\ at[Main] >= 1
  /\ results \in [Names -> Result]
  /\ failed \in BOOLEAN
  /\ IsMutex(mutex)

\* What the types say of the test and of the scripts.
LEMMA Shape ==
  ASSUME TypeInv
  PROVE  /\ setting.test \in Test
         /\ \A a \in Actor : /\ Len(script[a]) \in Nat
                             /\ DOMAIN script[a] = 1 .. Len(script[a])
<1>1. setting.test \in Test
  BY SettingsAssumption DEF TypeInv
<1>2. \A a \in Actor : \E n \in Nat : IsScript(script[a], n)
  BY <1>1, ScriptsAreScripts DEF TypeInv
<1> QED BY <1>1, <1>2 DEF IsScript

\* A call that returned; a and its caller's script decide what follows.
LEMMA JudgeMoves ==
  ASSUME TypeInv, NEW a \in Actor, ~Over(a), NEW r, Judge(a, r)
  PROVE  /\ at[a] \in 1 .. Len(script[a])
         /\ at' = [at EXCEPT ![a] = at'[a]]
         /\ \/ at'[a] = at[a] + 1
            \/ /\ at'[a] = Len(script[a]) + 1
               /\ r \notin Current(a).expect /\ Current(a).fatal
         /\ r \in Current(a).expect => at'[a] = at[a] + 1
         /\ failed' = (failed \/ (a # Child /\ r \notin Current(a).expect))
         /\ UNCHANGED fixed
<1>1. at[a] \in 1 .. Len(script[a])
  BY Shape DEF Over
<1> QED BY <1>1 DEF Judge, Unexpected, TypeInv

\* The forms a step of an actor takes.
LEMMA StepForms ==
  ASSUME NEW a \in Actor, Step(a)
  PROVE  \/ Skip(a)
         \/ Throw(a)
         \/ a = Main /\ Start(a)
         \/ a = Main /\ ChildTimesOut(a)
         \/ ~Over(a) /\ \E r : Judge(a, r)
<1>1. CASE AcquireSync(a)
  BY <1>1 DEF AcquireSync, Calls
<1>2. CASE ReleaseSync(a)
  BY <1>2 DEF ReleaseSync, Calls
<1>3. CASE Update(a) \/ Flush(a) \/ Read(a)
  BY <1>3 DEF Update, Flush, Read, Calls
<1>4. CASE Join(a) \/ ChildExited(a) \/ ChildWaitFails(a)
  BY <1>4 DEF Join, ChildExited, ChildWaitFails, Calls
<1>5. CASE SignalOther(a) \/ WaitForOther(a) \/ Enter(a) \/ LeaveOwner(a)
  BY <1>5 DEF SignalOther, WaitForOther, Enter, LeaveOwner, Calls
<1>6. CASE CheckResult(a) \/ CheckOwners(a) \/ SetUp(a) \/ Terminate(a)
  BY <1>6 DEF CheckResult, CheckOwners, SetUp, Terminate, Calls
<1>7. CASE CloseHandle(a) \/ DropReference(a) \/ Reopen(a) \/ CreateFresh(a)
  BY <1>7 DEF CloseHandle, DropReference, Reopen, CreateFresh, Calls
<1> QED BY <1>1, <1>2, <1>3, <1>4, <1>5, <1>6, <1>7 DEF Step

\* The operation of the call decides which action a step is.
LEMMA OpDecides ==
  ASSUME NEW a \in Actor, Step(a)
  PROVE  LET op == Current(a).op IN
         \/ Skip(a)
         \/ op = "acquire" /\ AcquireSync(a)
         \/ op = "release" /\ ReleaseSync(a)
         \/ op = "update" /\ Update(a)
         \/ op = "flush" /\ Flush(a)
         \/ op = "read" /\ (Read(a) \/ Throw(a))
         \/ op = "create" /\ (CreateFresh(a) \/ Throw(a))
         \/ op = "start" /\ (Throw(a) \/ (a = Main /\ Start(a)))
         \/ op = "join" /\ a = Main /\ Join(a)
         \/ /\ op = "wait-for-child" /\ a = Main
            /\ ChildExited(a) \/ ChildTimesOut(a) \/ ChildWaitFails(a)
         \/ op = "signal" /\ SignalOther(a)
         \/ op \in {"wait", "await"} /\ WaitForOther(a)
         \/ op = "enter" /\ Enter(a)
         \/ op = "leave" /\ LeaveOwner(a)
         \/ op = "check" /\ CheckResult(a)
         \/ op = "check-owners" /\ CheckOwners(a)
         \/ op = "set-up" /\ SetUp(a)
         \/ op = "terminate" /\ Terminate(a)
         \/ op = "close-handle" /\ CloseHandle(a)
         \/ op = "drop" /\ DropReference(a)
         \/ op = "reopen" /\ Reopen(a)
<1>1. CASE AcquireSync(a) \/ ReleaseSync(a) \/ Skip(a)
  BY <1>1 DEF AcquireSync, ReleaseSync, Calls
<1>2. CASE Update(a) \/ Flush(a) \/ Read(a) \/ Throw(a)
  BY <1>2 DEF Update, Flush, Read, Throw, Calls
<1>3. CASE /\ a = Main
           /\ \/ Start(a) \/ Join(a) \/ ChildExited(a) \/ ChildTimesOut(a)
              \/ ChildWaitFails(a)
  BY <1>3 DEF Start, Join, ChildExited, ChildTimesOut, ChildWaitFails, Calls
<1>4. CASE SignalOther(a) \/ WaitForOther(a) \/ Enter(a) \/ LeaveOwner(a)
  BY <1>4 DEF SignalOther, WaitForOther, Enter, LeaveOwner, Calls
<1>5. CASE CheckResult(a) \/ CheckOwners(a) \/ SetUp(a) \/ Terminate(a)
  BY <1>5 DEF CheckResult, CheckOwners, SetUp, Terminate, Calls
<1>6. CASE CloseHandle(a) \/ DropReference(a) \/ Reopen(a) \/ CreateFresh(a)
  BY <1>6 DEF CloseHandle, DropReference, Reopen, CreateFresh, Calls
<1> QED BY <1>1, <1>2, <1>3, <1>4, <1>5, <1>6 DEF Step

\* Only these actions touch the mutex.
LEMMA MutexTouched ==
  ASSUME NEW a \in Actor, Step(a)
  PROVE  \/ AcquireSync(a) \/ ReleaseSync(a) \/ CreateFresh(a)
         \/ SetUp(a) \/ Terminate(a)
         \/ a = Main /\ ChildTimesOut(a)
         \/ mutex' = mutex
<1>1. CASE Update(a) \/ Flush(a) \/ Read(a) \/ Throw(a) \/ Skip(a)
  BY <1>1 DEF Update, Flush, Read, Throw, Skip, resource
<1>2. CASE Start(a) \/ Join(a) \/ ChildExited(a) \/ ChildWaitFails(a)
  BY <1>2 DEF Start, Join, ChildExited, ChildWaitFails, resource
<1>3. CASE SignalOther(a) \/ WaitForOther(a) \/ Enter(a) \/ LeaveOwner(a)
  BY <1>3 DEF SignalOther, WaitForOther, Enter, LeaveOwner, resource
<1>4. CASE CheckResult(a) \/ CheckOwners(a) \/ CloseHandle(a)
           \/ DropReference(a) \/ Reopen(a)
  BY <1>4 DEF CheckResult, CheckOwners, CloseHandle, DropReference, Reopen,
              resource
<1> QED BY <1>1, <1>2, <1>3, <1>4 DEF Step

\* A result is one of the values its call can return.
LEMMA JudgeKeepsResults ==
  ASSUME NEW R, results \in [Names -> R], NEW a \in Actor, NEW r, Judge(a, r),
         Current(a).into \in Names => r \in R
  PROVE  results' \in [Names -> R]
BY DEF Judge

\* The results a step leaves: WAIT_ABANDONED comes only from an abandoned mutex.
LEMMA StepKeepsResults ==
  ASSUME NEW R, results \in [Names -> R],
         {"S_OK", "WAIT_TIMEOUT", "INVALID_CALL", "E_FAIL", "E_UNEXPECTED"}
           \subseteq R,
         mutex.abandoned => "WAIT_ABANDONED" \in R,
         NEW a \in Actor, Step(a)
  PROVE  results' \in [Names -> R]
<1>0. "exit" \in Names
  BY DEF Names
<1>1. CASE AcquireSync(a)
  <2>1. \/ Judge(a, "S_OK") \/ Judge(a, "WAIT_TIMEOUT")
        \/ Judge(a, "INVALID_CALL") \/ Judge(a, "E_FAIL")
        \/ mutex.abandoned /\ Judge(a, "WAIT_ABANDONED")
    BY <1>1 DEF AcquireSync
  <2> QED BY <2>1, JudgeKeepsResults
<1>2. CASE ReleaseSync(a)
  BY <1>0, <1>2, JudgeKeepsResults DEF ReleaseSync
<1>3. CASE Update(a) \/ Flush(a) \/ Read(a)
  BY <1>0, <1>3, JudgeKeepsResults DEF Update, Flush, Read
<1>4. CASE Join(a) \/ ChildExited(a) \/ ChildWaitFails(a)
  BY <1>0, <1>4, JudgeKeepsResults DEF Join, ChildExited, ChildWaitFails
<1>5. CASE SignalOther(a) \/ WaitForOther(a) \/ Enter(a) \/ LeaveOwner(a)
  BY <1>0, <1>5, JudgeKeepsResults
  DEF SignalOther, WaitForOther, Enter, LeaveOwner
<1>6. CASE CheckResult(a) \/ CheckOwners(a)
  BY <1>0, <1>6, JudgeKeepsResults DEF CheckResult, CheckOwners
<1>7. CASE SetUp(a) \/ Terminate(a)
  BY <1>0, <1>7, JudgeKeepsResults DEF SetUp, Terminate
<1>8. CASE CloseHandle(a) \/ DropReference(a) \/ Reopen(a) \/ CreateFresh(a)
  BY <1>0, <1>8, JudgeKeepsResults
  DEF CloseHandle, DropReference, Reopen, CreateFresh
<1>9. CASE Skip(a) \/ Throw(a) \/ Start(a) \/ ChildTimesOut(a)
  BY <1>0, <1>9 DEF Skip, Throw, Start, ChildTimesOut
<1> QED
  BY <1>1, <1>2, <1>3, <1>4, <1>5, <1>6, <1>7, <1>8, <1>9 DEF Step

LEMMA Mutated ==
  ASSUME NEW m, IsMutex(m), NEW i, NEW k
  PROVE  /\ IsMutex(AcquiredBy(m, i)) /\ AcquiredBy(m, i).owner = i
         /\ AcquiredBy(m, i).key = m.key
         /\ AcquiredBy(m, i).abandoned = m.abandoned
         /\ IsMutex(ReleasedWith(m, k)) /\ ReleasedWith(m, k).owner = NoOwner
         /\ ReleasedWith(m, k).key = k
         /\ ReleasedWith(m, k).abandoned = m.abandoned
         /\ IsMutex(AfterDeath(m)) /\ AfterDeath(m).key = m.key
         /\ IsMutex(FreshMutex)
<1>1. /\ IsMutex(AcquiredBy(m, i)) /\ AcquiredBy(m, i).owner = i
      /\ AcquiredBy(m, i).key = m.key
      /\ AcquiredBy(m, i).abandoned = m.abandoned
  BY DEF AcquiredBy, IsMutex
<1>3. /\ IsMutex(ReleasedWith(m, k)) /\ ReleasedWith(m, k).owner = NoOwner
      /\ ReleasedWith(m, k).key = k
      /\ ReleasedWith(m, k).abandoned = m.abandoned
  BY DEF ReleasedWith, IsMutex
<1>4. IsMutex(FreshMutex)
  BY DEF FreshMutex, IsMutex
<1>2. IsMutex(AfterDeath(m)) /\ AfterDeath(m).key = m.key
  <2>1. CASE m.owner = InChild /\ Driver = "forgets-the-dead"
    BY <2>1 DEF AfterDeath, IsMutex
  <2>2. CASE m.owner = InChild /\ Driver # "forgets-the-dead"
    BY <2>2 DEF AfterDeath, IsMutex
  <2>3. CASE m.owner # InChild
    BY <2>3 DEF AfterDeath, IsMutex
  <2> QED BY <2>1, <2>2, <2>3
<1> QED BY <1>1, <1>2, <1>3, <1>4

\* What an action does to the mutex before the process that did it may end.
LEMMA LeaveEffect ==
  ASSUME NEW a \in Actor, NEW m, Leave(a, m)
  PROVE  \/ mutex' = m
         \/ /\ a = Child /\ at'[Child] > Len(script[Child])
            /\ mutex' = AfterDeath(m)
BY DEF Leave

LEMMA MutexEffects ==
  ASSUME NEW a \in Actor, Step(a)
  PROVE  \E m :
           /\ \/ m = mutex
              \/ /\ AcquireSync(a) /\ Free(Current(a).key)
                 /\ Judge(a, "S_OK")
                 /\ m = AcquiredBy(mutex, Identified(Current(a).by))
              \/ /\ ReleaseSync(a) /\ Judge(a, "S_OK")
                 /\ m = ReleasedWith(mutex, IF Driver = "forgets-keys"
                                            THEN 0 ELSE Current(a).key)
              \/ CreateFresh(a) /\ m = FreshMutex
           /\ \/ mutex' = m
              \/ /\ a = Child /\ ~Over(Child)
                 /\ at'[Child] > Len(script[Child])
                 /\ mutex' = AfterDeath(m)
              \/ a = Main /\ ChildTimesOut(a) /\ mutex' = AfterDeath(m)
<1>1. CASE AcquireSync(a)
  <2>0. ~Over(a)
    BY <1>1 DEF AcquireSync, Calls
  <2>1. CASE /\ Free(Current(a).key) /\ Judge(a, "S_OK")
             /\ Leave(a, AcquiredBy(mutex, Identified(Current(a).by)))
    BY <1>1, <2>0, <2>1, LeaveEffect
  <2>2. CASE Leave(a, mutex)
    BY <2>0, <2>2, LeaveEffect
  <2> QED BY <1>1, <2>1, <2>2 DEF AcquireSync
<1>2. CASE ReleaseSync(a)
  <2>0. ~Over(a)
    BY <1>2 DEF ReleaseSync, Calls
  <2>1. CASE /\ Judge(a, "S_OK")
             /\ Leave(a, ReleasedWith(mutex, IF Driver = "forgets-keys"
                                             THEN 0 ELSE Current(a).key))
    BY <1>2, <2>0, <2>1, LeaveEffect
  <2>2. CASE Leave(a, mutex)
    BY <2>0, <2>2, LeaveEffect
  <2> QED BY <1>2, <2>1, <2>2 DEF ReleaseSync
<1>3. CASE SetUp(a) \/ Terminate(a)
  <2>1. Leave(a, mutex) /\ ~Over(a)
    BY <1>3 DEF SetUp, Terminate, Calls
  <2> QED BY <2>1, LeaveEffect
<1>4. CASE CreateFresh(a)
  BY <1>4 DEF CreateFresh
<1>5. CASE a = Main /\ ChildTimesOut(a)
  BY <1>5 DEF ChildTimesOut
<1> QED BY <1>1, <1>2, <1>3, <1>4, <1>5, MutexTouched

\* Every step keeps the types.
LEMMA StepKeepsTypes ==
  ASSUME TypeInv, NEW a \in Actor, Step(a)
  PROVE  TypeInv'
<1>1. IsMutex(mutex')
  <2>1. IsMutex(mutex)
    BY DEF TypeInv
  <2>2. PICK m :
          /\ \/ m = mutex
             \/ \E i : m = AcquiredBy(mutex, i)
             \/ \E k : m = ReleasedWith(mutex, k)
             \/ m = FreshMutex
          /\ mutex' \in {m, AfterDeath(m)}
    BY MutexEffects
  <2>3. IsMutex(m)
    BY <2>1, <2>2, Mutated
  <2> QED BY <2>2, <2>3, Mutated
<1>2. results' \in [Names -> Result]
  <2>1. {"S_OK", "WAIT_TIMEOUT", "WAIT_ABANDONED", "INVALID_CALL", "E_FAIL",
         "E_UNEXPECTED"} = Result
    BY DEF Result
  <2>2. results \in [Names -> Result]
    BY DEF TypeInv
  <2> QED BY <2>1, <2>2, StepKeepsResults
<1>3. /\ UNCHANGED fixed
      /\ at' \in [Actor -> Nat]
      /\ \A b \in Actor : at'[b] <= Len(script[b]) + 1
      /\ at'[Main] >= 1
      /\ failed' \in BOOLEAN
  <2>0. Main \in Actor
    BY DEF Actor
  <2>1. CASE Skip(a)
    BY <2>0, <2>1, Shape DEF Skip, TypeInv, Over
  <2>2. CASE Throw(a)
    BY <2>0, <2>2, Shape DEF Throw, TypeInv
  <2>3. CASE a = Main /\ Start(a)
    BY <2>0, <2>3, Shape DEF Start, TypeInv, Over, Calls
  <2>4. CASE ChildTimesOut(a)
    BY <2>0, <2>4, Shape DEF ChildTimesOut, TypeInv
  <2>5. CASE ~Over(a) /\ \E r : Judge(a, r)
    <3>1. PICK r : Judge(a, r)
      BY <2>5
    <3>2. /\ at[a] \in 1 .. Len(script[a])
          /\ at' = [at EXCEPT ![a] = at'[a]]
          /\ at'[a] \in {at[a] + 1, Len(script[a]) + 1}
          /\ UNCHANGED fixed /\ failed' \in BOOLEAN
      BY <2>5, <3>1, JudgeMoves DEF TypeInv
    <3>3. \A b \in Actor : at'[b] = IF b = a THEN at'[a] ELSE at[b]
      BY <3>2 DEF TypeInv
    <3> QED BY <2>0, <3>2, <3>3, Shape DEF TypeInv
  <2> QED BY <2>1, <2>2, <2>3, <2>4, <2>5, StepForms
<1> QED BY <1>1, <1>2, <1>3 DEF TypeInv, fixed

LEMMA InitTypes ==
  ASSUME Init
  PROVE  TypeInv
<1>1. setting.test \in Test /\ script = Script[setting.test]
  BY SettingsAssumption DEF Init
<1>2. \A a \in Actor : \E n \in Nat : IsScript(script[a], n)
  BY <1>1, ScriptsAreScripts
<1>3. \A a \in Actor : Len(script[a]) \in Nat
  BY <1>2 DEF IsScript
<1>4. Main \in Actor /\ "E_UNEXPECTED" \in Result
  BY DEF Actor, Result
<1>5. IsMutex(FreshMutex)
  BY DEF IsMutex, FreshMutex
<1>6. /\ at \in [Actor -> Nat] /\ at[Main] >= 1
      /\ \A a \in Actor : at[a] <= Len(script[a]) + 1
  BY <1>3, <1>4 DEF Init
<1>7. /\ results \in [Names -> Result] /\ failed \in BOOLEAN
      /\ IsMutex(mutex) /\ setting \in Settings
  BY <1>4, <1>5 DEF Init
<1> QED BY <1>1, <1>6, <1>7 DEF TypeInv

\* Who moves, and how far.
LEMMA StepMoves ==
  ASSUME TypeInv, NEW a \in Actor, Step(a)
  PROVE  /\ at[a] \in 1 .. Len(script[a])
         /\ at'[a] = at[a] + 1 \/ at'[a] = Len(script[a]) + 1
         /\ \/ \A b \in Actor \ {a} : at'[b] = at[b]
            \/ a = Main /\ (Start(a) \/ ChildTimesOut(a))
         /\ failed => failed'
         /\ UNCHANGED fixed
<1>1. CASE Skip(a)
  BY <1>1, Shape DEF Skip, TypeInv, Over
<1>2. CASE Throw(a)
  BY <1>2, Shape DEF Throw, TypeInv, Over, Calls
<1>3. CASE a = Main /\ Start(a)
  BY <1>3, Shape DEF Start, TypeInv, Over, Calls
<1>4. CASE a = Main /\ ChildTimesOut(a)
  BY <1>4, Shape DEF ChildTimesOut, TypeInv, Over, Calls
<1>5. CASE ~Over(a) /\ \E r : Judge(a, r)
  <2>1. PICK r : Judge(a, r)
    BY <1>5
  <2>2. /\ at[a] \in 1 .. Len(script[a])
        /\ at' = [at EXCEPT ![a] = at'[a]]
        /\ at'[a] \in {at[a] + 1, Len(script[a]) + 1}
        /\ UNCHANGED fixed /\ (failed => failed')
    BY <1>5, <2>1, JudgeMoves
  <2>3. \A b \in Actor \ {a} : at'[b] = at[b]
    BY <2>2 DEF TypeInv
  <2> QED BY <2>2, <2>3
<1> QED BY <1>1, <1>2, <1>3, <1>4, <1>5, StepForms

\* How Main goes on: one call further, or to the end with a failure.
LEMMA MainMoves ==
  ASSUME TypeInv, Step(Main)
  PROVE  \/ at'[Main] = at[Main] + 1
         \/ at'[Main] = Len(script[Main]) + 1 /\ failed'
<1>0. Main \in Actor /\ Main # Child
  BY DEF Actor, Main, Child
<1>1. CASE Skip(Main)
  BY <1>0, <1>1 DEF Skip, TypeInv
<1>2. CASE Throw(Main)
  BY <1>0, <1>2 DEF Throw, TypeInv
<1>3. CASE Start(Main)
  BY <1>0, <1>3 DEF Start, TypeInv
<1>4. CASE ChildTimesOut(Main)
  BY <1>0, <1>4 DEF ChildTimesOut, TypeInv
<1>5. CASE ~Over(Main) /\ \E r : Judge(Main, r)
  BY <1>0, <1>5, JudgeMoves
<1> QED BY <1>0, <1>1, <1>2, <1>3, <1>4, <1>5, StepForms

LEMMA ReuseKeepsTypes ==
  ASSUME TypeInv, ReuseHandleValue \/ UNCHANGED vars
  PROVE  TypeInv'
BY DEF ReuseHandleValue, TypeInv, vars, fixed

\* What a step of the system is.
LEMMA NextForms ==
  ASSUME [Next]_vars
  PROVE  \/ \E a \in Actor : Step(a)
         \/ /\ ReuseHandleValue \/ UNCHANGED vars
            /\ UNCHANGED <<setting, script, at, results, failed, signals,
                           active, overlap, mutex, texture, refs>>
BY DEF Next, Finished, Hang, vars, ReuseHandleValue, fixed, counts

-----------------------------------------------------------------------------
(* Nobody is left behind.                                                  *)

\* A test waits for those it started right after it has started them.
WaitFollowsStart(s) ==
  \A j \in 1 .. Len(s) :
    s[j].op = "start" =>
      /\ j + 1 <= Len(s)
      /\ s[j + 1] = Do("join") \/ s[j + 1] = Do("wait-for-child")

\* Threads are joined.
OnlyJoins(s) == \A j \in 1 .. Len(s) : s[j].op # "wait-for-child"

\* So do the scripts.
LEMMA TestsWait ==
  ASSUME NEW test \in Threaded \cup WithChild
  PROVE  /\ WaitFollowsStart(Script[test][Main])
         /\ test \in Threaded => OnlyJoins(Script[test][Main])
<1>0. Do("start").op = "start" /\ Do("join").op = "join"
      /\ Do("wait-for-child").op = "wait-for-child"
  BY DEF Do, Call
<1>1. CASE test \in {"handoff", "migration", "concurrent-acquire"}
  <2>2. WaitFollowsStart(CrossThreadHandoff) /\ OnlyJoins(CrossThreadHandoff)
    <3> DEFINE s == CrossThreadHandoff
    <3> HIDE DEF s
    <3>1. /\ Len(s) = 8 /\ s[1].op = "start" /\ s[2] = Do("join")
          /\ s[2].op = "join" /\ s[3].op = "check" /\ s[4].op = "check"
          /\ s[5].op = "check" /\ s[6].op = "check" /\ s[7].op = "check"
          /\ s[8].op = "check"
      BY <1>0, CrossThreadHandoffCalls DEF s, IsScript, Form
    <3>2. WaitFollowsStart(s) /\ OnlyJoins(s)
      BY <3>1 DEF WaitFollowsStart, OnlyJoins
    <3> QED BY <3>2 DEF s
  <2>3. WaitFollowsStart(OwnershipMigration) /\ OnlyJoins(OwnershipMigration)
    <3> DEFINE s == OwnershipMigration
    <3> HIDE DEF s
    <3>1. /\ Len(s) = 10 /\ s[1].op = "start" /\ s[2] = Do("join")
          /\ s[2].op = "join" /\ s[3].op = "acquire" /\ s[4].op = "release"
          /\ s[5].op = "check" /\ s[6].op = "check" /\ s[7].op = "check"
          /\ s[8].op = "check" /\ s[9].op = "check" /\ s[10].op = "check"
      BY <1>0, OwnershipMigrationCalls DEF s, IsScript, Form
    <3>2. WaitFollowsStart(s) /\ OnlyJoins(s)
      BY <3>1 DEF WaitFollowsStart, OnlyJoins
    <3> QED BY <3>2 DEF s
  <2>4. WaitFollowsStart(ConcurrentAcquire) /\ OnlyJoins(ConcurrentAcquire)
    <3> DEFINE s == ConcurrentAcquire
    <3> HIDE DEF s
    <3>1. /\ Len(s) = 7 /\ s[1].op = "start" /\ s[2] = Do("join")
          /\ s[2].op = "join" /\ s[3].op = "check" /\ s[4].op = "check"
          /\ s[5].op = "check-owners" /\ s[6].op = "acquire"
          /\ s[7].op = "release"
      BY <1>0, ConcurrentAcquireCalls DEF s, IsScript, Form
    <3>2. WaitFollowsStart(s) /\ OnlyJoins(s)
      BY <3>1 DEF WaitFollowsStart, OnlyJoins
    <3> QED BY <3>2 DEF s
  <2> QED BY <1>1, <2>2, <2>3, <2>4, MainScripts
<1>2. CASE test \in Phase
  <2> DEFINE s == FailureInjection(test)
  <2> HIDE DEF s
  <2>1. \E n \in {5, 11, 12} :
          /\ Len(s) = n /\ s[2] = Do("wait-for-child")
          /\ \A j \in 3 .. n : s[j].op # "start"
    BY <1>2, FailureInjectionCalls DEF s, IsScript
  <2>2. WaitFollowsStart(s)
    BY <1>0, <2>1 DEF WaitFollowsStart
  <2> QED BY <1>2, <2>2, MainScripts DEF s, Threaded, Phase
<1>3. CASE test = "abandonment"
  <2> DEFINE s == OwnerAbandonment
             r == AbandonmentRound
             n == 6 * Iterations
  <2>0. Iterations \in Nat /\ n \in Nat
    BY IterationsAssumption
  <2>1. /\ n >= 6 /\ Len(s) = n + 5
        /\ \A j \in 1 .. n : InRound(j) \in 1 .. 6 /\ s[j] = r[InRound(j)]
        /\ \A j \in 1 .. 5 : s[n + j] = FreshResource[j]
    BY OwnerAbandonmentCalls DEF IsScript
  <2>2. /\ r[1].op = "create" /\ r[3] = Do("wait-for-child")
        /\ r[3].op = "wait-for-child" /\ r[4].op = "acquire"
        /\ r[5].op = "release" /\ r[6].op = "check"
    BY <1>0, AbandonmentRoundCalls DEF Form
  <2>3. \A j \in 1 .. 5 : FreshResource[j].op # "start"
    <3>1. /\ FreshResource[1].op = "create"
          /\ \A j \in 2 .. 5 : FreshResource[j].op \in {"acquire", "release"}
      BY FreshResourceCalls DEF Form
    <3> QED BY <3>1
  <2> HIDE DEF s, r
  <2>4. ASSUME NEW j \in 1 .. Len(s), s[j].op = "start"
        PROVE  j + 1 <= Len(s) /\ s[j + 1] = Do("wait-for-child")
    <3>1. CASE j > n
      <4>1. j - n \in 1 .. 5 /\ n + (j - n) = j
        BY <2>0, <2>1, <3>1
      <4> QED BY <2>1, <2>3, <2>4, <4>1
    <3>2. CASE j <= n
      <4>1. j \in 1 .. n /\ s[j] = r[InRound(j)] /\ InRound(j) \in 1 .. 6
        BY <2>0, <2>1, <3>2
      <4>2. InRound(j) = 2
        BY <2>2, <2>4, <4>1
      <4>3. j + 1 \in 1 .. n /\ InRound(j + 1) = 3
        BY <2>0, <4>1, <4>2 DEF InRound
      <4> QED BY <2>0, <2>1, <2>2, <4>3
    <3> QED BY <2>0, <2>1, <3>1, <3>2
  <2>5. WaitFollowsStart(s)
    BY <2>4 DEF WaitFollowsStart
  <2> QED BY <1>3, <2>5, MainScripts DEF s, Threaded
<1> QED BY <1>1, <1>2, <1>3 DEF Threaded, WithChild

\* Main has started the others and is to wait for them.
Waiting ==
  /\ at[Main] - 1 \in 1 .. Len(script[Main])
  /\ script[Main][at[Main] - 1].op = "start"

\* Others run only while Main waits for them, or once it has given up.
NobodyLeft == OthersOver \/ Waiting \/ (Ended /\ failed)

LEMMA InitNobodyLeft ==
  ASSUME Init, TypeInv
  PROVE  NobodyLeft
<1>1. \A a \in Actor \ {Main} : at[a] = 0
  BY DEF Init
<1> QED BY <1>1, Shape DEF NobodyLeft, OthersOver, Over

\* Nobody else runs in a single-threaded test.
LEMMA AloneOthersOver ==
  ASSUME TypeInv, setting.test \in Alone
  PROVE  OthersOver
BY EmptyScripts DEF TypeInv, OthersOver, Over

\* By the next call of Main: a start is followed by a wait, and a wait is over
\* only when the others are, or when the test has failed.
LEMMA StepKeepsNobodyLeft ==
  ASSUME TypeInv, TypeInv', NobodyLeft, NEW a \in Actor, Step(a)
  PROVE  NobodyLeft'
<1>0. Main \in Actor /\ Main # Child /\ script' = script /\ setting' = setting
  BY StepMoves DEF Actor, Main, Child, fixed
<1>1. CASE setting.test \in Alone
  BY <1>0, <1>1, AloneOthersOver, EmptyScripts
  DEF TypeInv, NobodyLeft, OthersOver, Over
<1>2. CASE a # Main
  <2>1. at'[Main] = at[Main] /\ (failed => failed') /\ ~Over(a)
    BY <1>0, <1>2, StepMoves, Shape DEF Over
  <2>2. ~OthersOver
    BY <1>2, <2>1 DEF OthersOver
  <2> QED BY <1>0, <2>1, <2>2 DEF NobodyLeft, Waiting, Ended, Over
<1>3. CASE a = Main /\ setting.test \notin Alone
  <2>1. /\ at[Main] \in 1 .. Len(script[Main])
        /\ WaitFollowsStart(script[Main]) /\ ~Ended
    <3>1. setting.test \in Threaded \cup WithChild
      BY <1>3, Shape, TestKinds
    <3> QED BY <1>3, <3>1, StepMoves, TestsWait, Shape
            DEF TypeInv, Ended, Over
  <2>2. CASE Start(Main)
    <3>1. script[Main][at[Main]].op = "start" /\ at'[Main] = at[Main] + 1
      BY <1>0, <2>2 DEF Start, Calls, Current
    <3>2. at'[Main] - 1 = at[Main]
      BY <2>1, <3>1
    <3> QED BY <1>0, <2>1, <3>1, <3>2 DEF NobodyLeft, Waiting
  <2>3. CASE ChildTimesOut(Main) \/ Throw(Main)
    <3>1. at'[Main] = Len(script[Main]) + 1 /\ failed'
      BY <1>0, <2>3 DEF ChildTimesOut, Throw, TypeInv
    <3> QED BY <1>0, <3>1, Shape DEF NobodyLeft, Ended, Over
  <2>4. CASE OthersOver /\ ~Start(Main) /\ ~ChildTimesOut(Main)
    <3>1. \A b \in Actor \ {Main} : at'[b] = at[b]
      BY <1>0, <1>3, <2>4, StepMoves
    <3> QED BY <1>0, <2>4, <3>1 DEF NobodyLeft, OthersOver, Over
  <2>5. CASE Waiting /\ ~OthersOver
    <3>1. /\ Current(Main) = Do("join") \/ Current(Main) = Do("wait-for-child")
      <4>1. /\ at[Main] - 1 \in 1 .. Len(script[Main])
            /\ script[Main][at[Main] - 1].op = "start"
            /\ at[Main] - 1 + 1 = at[Main]
        BY <2>1, <2>5 DEF Waiting
      <4> QED BY <2>1, <4>1 DEF WaitFollowsStart, Current
    <3>2. /\ Current(Main).op \in {"join", "wait-for-child"}
          /\ Current(Main).when = {} /\ Current(Main).expect = {"S_OK"}
          /\ Current(Main).fatal = TRUE
      BY <3>1 DEF Do, Call
    <3>3. ~Skip(Main)
      BY <3>2 DEF Skip
    <3>4. ChildTimesOut(Main) \/ ChildWaitFails(Main)
      <4>1. \/ Join(Main) \/ ChildExited(Main) \/ ChildTimesOut(Main)
            \/ ChildWaitFails(Main)
        BY <1>3, <3>2, <3>3, OpDecides
      <4> QED BY <2>5, <4>1 DEF Join, ChildExited
    <3>5. CASE ChildWaitFails(Main)
      <4>1. at'[Main] = Len(script[Main]) + 1 /\ failed'
        BY <1>0, <3>2, <3>5 DEF ChildWaitFails, Judge, Unexpected, TypeInv
      <4> QED BY <1>0, <4>1, Shape DEF NobodyLeft, Ended, Over
    <3> QED BY <2>3, <3>4, <3>5
  <2> QED BY <2>1, <2>2, <2>3, <2>4, <2>5 DEF NobodyLeft
<1> QED BY <1>1, <1>2, <1>3

-----------------------------------------------------------------------------
(* What a dead owner left behind is discarded.                             *)

\* The call after which Main never meets an abandoned mutex again: the fresh
\* resource, or an acquisition that has to succeed.
DiscardAt(test) ==
  CASE test = "abandonment" -> 6 * Iterations + 1
    [] test \in {"before-acquire", "after-release"} -> 3
    [] OTHER -> 4

\* The calls that look at the shared texture or change it.
Data == {"update", "flush", "read"}

\* What the scripts say of that call: it has no condition, it discards the
\* abandoned resource or accepts nothing but S_OK, and no data is touched
\* before it.
LEMMA TestsDiscard ==
  ASSUME NEW test \in WithChild
  PROVE  LET s == Script[test][Main]
             d == DiscardAt(test)
         IN /\ d \in 1 .. Len(s)
            /\ s[d].when = {}
            /\ \/ s[d].op = "create"
               \/ s[d].op = "acquire" /\ s[d].expect = {"S_OK"} /\ s[d].fatal
            /\ \A j \in 1 .. d : s[j].op \notin Data
            /\ \A j \in 1 .. Len(s) : s[j].op = "start" => j < d
            /\ test \in Phase =>
                 \A j \in 1 .. Len(s) : s[j].op = "start" => j = 1
<1>0. /\ Do("start").op = "start" /\ Do("join").op = "join"
      /\ Do("wait-for-child").op = "wait-for-child"
  BY DEF Do, Call
<1>1. CASE test = "abandonment"
  <2> DEFINE s == OwnerAbandonment
             r == AbandonmentRound
             n == 6 * Iterations
  <2>0. Iterations \in Nat /\ n \in Nat
    BY IterationsAssumption
  <2>1. /\ n >= 6 /\ Len(s) = n + 5
        /\ \A j \in 1 .. n : InRound(j) \in 1 .. 6 /\ s[j] = r[InRound(j)]
        /\ \A j \in 1 .. 5 : s[n + j] = FreshResource[j]
    BY OwnerAbandonmentCalls DEF IsScript
  <2>2. \A i \in 1 .. 6 : r[i].op \notin Data
    <3>1. /\ r[1].op = "create" /\ r[2].op = "start"
          /\ r[3].op = "wait-for-child" /\ r[4].op = "acquire"
          /\ r[5].op = "release" /\ r[6].op = "check"
      BY <1>0, AbandonmentRoundCalls DEF Form
    <3> HIDE DEF r
    <3> QED BY <3>1 DEF Data
  <2>3. /\ FreshResource[1].op = "create" /\ FreshResource[1].when = {}
        /\ \A j \in 2 .. 5 : FreshResource[j].op \in {"acquire", "release"}
    BY FreshResourceCalls DEF Form
  <2> HIDE DEF s, r
  <2>4. s[n + 1] = FreshResource[1] /\ n + 1 \in 1 .. Len(s)
    BY <2>0, <2>1
  <2>5. \A j \in 1 .. n + 1 : s[j].op \notin Data
    <3> SUFFICES ASSUME NEW j \in 1 .. n + 1 PROVE s[j].op \notin Data
      OBVIOUS
    <3>1. CASE j = n + 1
      BY <2>3, <2>4, <3>1 DEF Data
    <3>2. CASE j # n + 1
      <4>1. j \in 1 .. n
        BY <2>0, <3>2
      <4> QED BY <2>1, <2>2, <4>1
    <3> QED BY <3>1, <3>2
  <2>6. \A j \in 1 .. Len(s) : s[j].op = "start" => j < n + 1
    <3> SUFFICES ASSUME NEW j \in 1 .. Len(s), ~(j < n + 1)
                 PROVE  s[j].op # "start"
      OBVIOUS
    <3>1. j - n \in 1 .. 5 /\ n + (j - n) = j
      BY <2>0, <2>1
    <3>2. s[j] = FreshResource[j - n]
      BY <2>1, <3>1
    <3>3. j - n = 1 \/ j - n \in 2 .. 5
      BY <3>1
    <3> QED BY <2>3, <3>2, <3>3
  <2>7. DiscardAt(test) = n + 1 /\ Script[test][Main] = s /\ test \notin Phase
    BY <1>1, MainScripts DEF DiscardAt, s, Phase
  <2> HIDE DEF n
  <2> QED BY <2>3, <2>4, <2>5, <2>6, <2>7
<1>2. CASE test \in {"before-acquire", "after-release"}
  <2> DEFINE s == FailureInjection(test)
  <2> HIDE DEF s
  <2>1. /\ test \in Phase
        /\ Len(s) \in Nat /\ Len(s) >= 5
        /\ s[1].op = "start" /\ s[2].op = "wait-for-child"
        /\ s[3].op = "acquire" /\ s[3].expect = {"S_OK"}
        /\ s[3].when = {} /\ s[3].fatal
        /\ \A j \in 3 .. Len(s) : s[j].op # "start"
    <3>1. test \in Phase
      BY <1>2 DEF Phase
    <3>2. s[3].op = "acquire" /\ s[3].expect = {"S_OK"} /\ s[3].when = {}
      BY <1>2, <3>1, FailureInjectionCalls DEF s, Form
    <3>3. s[1].op = "start" /\ s[2].op = "wait-for-child" /\ s[3].fatal
      BY <1>0, <1>2, <3>1, FailureInjectionCalls DEF s
    <3>4. \E n \in {5, 11, 12} :
            Len(s) = n /\ \A j \in 3 .. n : s[j].op # "start"
      BY <3>1, FailureInjectionCalls DEF s, IsScript
    <3> QED BY <3>1, <3>2, <3>3, <3>4
  <2>2. DiscardAt(test) = 3 /\ Script[test][Main] = s
    BY <1>2, <2>1, MainScripts DEF DiscardAt, s
  <2>3. \A j \in 1 .. 3 : s[j].op \notin Data
    BY <2>1 DEF Data
  <2>4. \A j \in 1 .. Len(s) : s[j].op = "start" => j = 1
    BY <2>1
  <2> QED BY <2>1, <2>2, <2>3, <2>4
<1>3. CASE test \in {"after-acquire", "after-write", "after-flush"}
  <2> DEFINE s == FailureInjection(test)
  <2> HIDE DEF s
  <2>1. /\ test \in Phase
        /\ Len(s) = 11
        /\ s[1].op = "start" /\ s[2].op = "wait-for-child"
        /\ s[3].op = "acquire" /\ s[4].op = "create" /\ s[4].when = {}
        /\ \A j \in 3 .. 11 : s[j].op # "start"
    <3>1. /\ test \in Phase
          /\ test # "before-acquire" /\ test # "after-release"
      BY <1>3 DEF Phase
    <3>2. s[3].op = "acquire" /\ s[4].op = "create" /\ s[4].when = {}
      BY <3>1, FailureInjectionCalls DEF s, Form
    <3>3. s[1].op = "start" /\ s[2].op = "wait-for-child"
      BY <1>0, <3>1, FailureInjectionCalls DEF s
    <3>4. Len(s) = 11 /\ \A j \in 3 .. 11 : s[j].op # "start"
      BY <3>1, FailureInjectionCalls DEF s, IsScript
    <3> QED BY <3>1, <3>2, <3>3, <3>4
  <2>2. DiscardAt(test) = 4 /\ Script[test][Main] = s
    BY <1>3, <2>1, MainScripts DEF DiscardAt, s
  <2>3. \A j \in 1 .. 4 : s[j].op \notin Data
    BY <2>1 DEF Data
  <2>4. \A j \in 1 .. Len(s) : s[j].op = "start" => j = 1
    BY <2>1
  <2>5. \A j \in 1 .. Len(s) : s[j].op = "start" => j < 4
    BY <2>4
  <2>6. 4 \in 1 .. Len(s) /\ s[4].when = {} /\ s[4].op = "create"
    BY <2>1
  <2> HIDE DEF DiscardAt
  <2> QED BY <2>2, <2>3, <2>4, <2>5, <2>6
<1> QED BY <1>1, <1>2, <1>3 DEF WithChild, Phase

\* Before its first call a test has a fresh resource and is alone.
FirstInv ==
  at[Main] = 1 =>
    OthersOver /\ mutex = FreshMutex /\ refs = References /\ ~failed

LEMMA InitFirst ==
  ASSUME Init, TypeInv
  PROVE  FirstInv
<1>1. \A a \in Actor \ {Main} : at[a] = 0
  BY DEF Init
<1> QED BY <1>1, Shape DEF FirstInv, OthersOver, Over, Init

\* Nothing returns to the first call.
LEMMA StepKeepsFirst ==
  ASSUME TypeInv, FirstInv, NEW a \in Actor, Step(a)
  PROVE  FirstInv'
<1>0. Main \in Actor
  BY DEF Actor
<1>1. at[a] \in 1 .. Len(script[a]) /\ ~Over(a)
  BY StepMoves, Shape DEF Over
<1>2. CASE a = Main
  BY <1>1, <1>2, StepMoves, Shape DEF FirstInv
<1>3. CASE a # Main
  <2>1. ~OthersOver
    BY <1>1, <1>3 DEF OthersOver
  <2>2. at'[Main] = at[Main]
    BY <1>0, <1>3, StepMoves
  <2> QED BY <2>1, <2>2 DEF FirstInv
<1> QED BY <1>2, <1>3

\* A mutex is abandoned only in the tests with a child, and only until Main
\* discards it; in a failure injection the child is dead by then.
AbandonInv ==
  mutex.abandoned =>
    /\ setting.test \in WithChild
    /\ at[Main] <= DiscardAt(setting.test) \/ (Ended /\ failed)
    /\ setting.test \in Phase => OthersOver

\* An abandoned mutex is never acquired with S_OK.
LEMMA AcquireAbandoned ==
  ASSUME NEW a \in Actor, AcquireSync(a), mutex.abandoned
  PROVE  \E r \in Result \ {"S_OK"} : Judge(a, r)
BY DEF AcquireSync, Free, CanAcquire, Result

\* Only the death of a child abandons the mutex, and Main is then before the
\* call that discards it.
LEMMA StepKeepsAbandon ==
  ASSUME TypeInv, TypeInv', NobodyLeft, FirstInv, AbandonInv,
         NEW a \in Actor, Step(a)
  PROVE  AbandonInv'
<1> SUFFICES ASSUME mutex'.abandoned
             PROVE  /\ setting.test \in WithChild
                    /\ \/ at'[Main] <= DiscardAt(setting.test)
                       \/ Ended' /\ failed'
                    /\ setting.test \in Phase => OthersOver'
  BY StepMoves DEF AbandonInv, fixed
<1>0. /\ Main \in Actor /\ Main # Child /\ Child \in Actor
      /\ script' = script /\ setting' = setting
      /\ script = Script[setting.test] /\ setting.test \in Test
  BY StepMoves, Shape DEF Actor, Main, Child, fixed, TypeInv
<1>1. PICK m :
        /\ \/ m.abandoned = mutex.abandoned
           \/ CreateFresh(a) /\ ~m.abandoned
        /\ \/ mutex' = m
           \/ /\ a = Child /\ ~Over(Child)
              /\ at'[Child] > Len(script[Child])
           \/ a = Main /\ ChildTimesOut(a)
  <2>1. PICK m : 
           /\ \/ m = mutex
              \/ \E i : m = AcquiredBy(mutex, i)
              \/ \E k : m = ReleasedWith(mutex, k)
              \/ CreateFresh(a) /\ m = FreshMutex
           /\ \/ mutex' = m
              \/ /\ a = Child /\ ~Over(Child)
                 /\ at'[Child] > Len(script[Child])
              \/ a = Main /\ ChildTimesOut(a)
    BY MutexEffects
  <2>2. m.abandoned = mutex.abandoned \/ (CreateFresh(a) /\ ~m.abandoned)
    <3>1. IsMutex(mutex) /\ ~FreshMutex.abandoned
      BY DEF TypeInv, FreshMutex
    <3> QED BY <2>1, <3>1, Mutated
  <2> QED BY <2>1, <2>2
<1>2. \A test \in WithChild :
        /\ Script[test]["A"] = <<>> /\ Script[test]["B"] = <<>>
  BY EmptyScripts
<1>3. CASE a = Child /\ ~Over(Child) /\ at'[Child] > Len(script[Child])
  <2>1. setting.test \in WithChild
    BY <1>0, <1>3, EmptyScripts, TestKinds DEF Over, Main
  <2>2. at'[Main] = at[Main] /\ (failed => failed')
    BY <1>0, <1>3, StepMoves
  <2>3. Waiting \/ (Ended /\ failed)
    BY <1>0, <1>3 DEF NobodyLeft, OthersOver
  <2>4. CASE Waiting
    <3>1. /\ at[Main] - 1 < DiscardAt(setting.test)
          /\ DiscardAt(setting.test) \in Nat
      BY <1>0, <2>1, <2>4, TestsDiscard, Shape DEF Waiting
    <3>2. at'[Main] <= DiscardAt(setting.test)
      BY <1>0, <2>2, <3>1 DEF TypeInv
    <3>3. OthersOver'
      BY <1>0, <1>2, <1>3, <2>1, Shape DEF OthersOver, Over, Actor, Main, Child
    <3> QED BY <2>1, <3>2, <3>3
  <2>5. CASE Ended /\ failed
    <3>1. Ended' /\ failed'
      BY <1>0, <2>2, <2>5 DEF Ended, Over
    <3>2. OthersOver'
      BY <1>0, <1>2, <1>3, <2>1, Shape DEF OthersOver, Over, Actor, Main, Child
    <3> QED BY <2>1, <3>1, <3>2
  <2> QED BY <2>3, <2>4, <2>5
<1>4. CASE a = Main /\ ChildTimesOut(a)
  <2>1. \A b \in Actor : at'[b] = Len(script[b]) + 1
    BY <1>4 DEF ChildTimesOut
  <2>2. failed' /\ OthersOver' /\ Ended'
    BY <1>0, <1>4, <2>1, Shape DEF ChildTimesOut, OthersOver, Ended, Over
  <2>3. setting.test \in WithChild
    <3>1. ~OthersOver /\ Current(Main).op = "wait-for-child"
      BY <1>4 DEF ChildTimesOut, Calls
    <3>2. at[Main] \in 1 .. Len(script[Main])
      BY <1>4, StepMoves
    <3>3. setting.test \notin Alone
      BY <3>1, AloneOthersOver
    <3>4. setting.test \notin Threaded
      BY <1>0, <3>1, <3>2, TestsWait DEF OnlyJoins, Current
    <3> QED BY <1>0, <3>3, <3>4, TestKinds
  <2> QED BY <2>2, <2>3
<1>5. CASE /\ mutex' = m /\ ~(a = Main /\ ChildTimesOut(a))
           /\ ~(a = Child /\ at'[Child] > Len(script[Child]))
  <2>1. /\ mutex.abandoned /\ ~CreateFresh(a)
        /\ setting.test \in WithChild
        /\ at[Main] <= DiscardAt(setting.test) \/ (Ended /\ failed)
        /\ setting.test \in Phase => OthersOver
    <3>1. CASE m.abandoned = mutex.abandoned
      <4>1. ~CreateFresh(a)
        BY <1>5 DEF CreateFresh, FreshMutex
      <4> QED BY <1>5, <3>1, <4>1 DEF AbandonInv
    <3>2. CASE CreateFresh(a) /\ ~m.abandoned
      BY <1>5, <3>2
    <3> QED BY <1>1, <3>1, <3>2
  <2>2. CASE a # Main
    <3>1. at'[Main] = at[Main] /\ (failed => failed') /\ ~Over(a)
      BY <1>0, <2>2, StepMoves, Shape DEF Over
    <3>2. setting.test \notin Phase
      BY <2>1, <2>2, <3>1 DEF OthersOver
    <3> QED BY <1>0, <2>1, <3>1, <3>2 DEF Ended, Over
  <2>3. CASE a = Main
    <3> DEFINE d == DiscardAt(setting.test)
               s == script[Main]
    <3>1. /\ at[Main] \in 1 .. Len(s) /\ ~Ended /\ at[Main] <= d
          /\ d \in 1 .. Len(s) /\ s[d].when = {}
          /\ \/ s[d].op = "create"
             \/ s[d].op = "acquire" /\ s[d].expect = {"S_OK"} /\ s[d].fatal
      <4>1. at[Main] \in 1 .. Len(s) /\ ~Ended
        BY <1>0, <2>3, StepMoves, Shape DEF Ended, Over
      <4> QED BY <1>0, <2>1, <4>1, TestsDiscard
    <3>2. at'[Main] = at[Main] + 1 \/ (Ended' /\ failed')
      BY <1>0, <2>3, MainMoves, Shape DEF Ended, Over
    <3>5. setting.test \in Phase => OthersOver'
      <4> SUFFICES ASSUME setting.test \in Phase PROVE OthersOver'
        OBVIOUS
      <4>1. ~Start(Main)
        <5> SUFFICES ASSUME Start(Main) PROVE FALSE
          OBVIOUS
        <5>1. at[Main] = 1
          BY <1>0, <2>1, <3>1, TestsDiscard DEF Start, Calls, Current
        <5>2. ~mutex.abandoned
          BY <5>1 DEF FirstInv, FreshMutex
        <5> QED BY <2>1, <5>2
      <4>2. \A b \in Actor \ {Main} : at'[b] = at[b]
        BY <1>0, <1>5, <2>3, <4>1, StepMoves
      <4> QED BY <1>0, <2>1, <4>2 DEF OthersOver, Over
    <3>3. CASE at[Main] = d
      <4>1. Current(Main) = s[d]
        BY <3>3 DEF Current
      <4>2. ~Skip(Main)
        BY <3>1, <4>1 DEF Skip
      <4>3. CASE s[d].op = "create"
        <5>1. Throw(Main)
          BY <2>1, <2>3, <4>1, <4>2, <4>3, OpDecides
        <5>2. at'[Main] = Len(s) + 1 /\ failed'
          BY <1>0, <5>1 DEF Throw, TypeInv
        <5> QED BY <1>0, <2>1, <3>5, <5>2, Shape DEF Ended, Over
      <4>4. CASE s[d].op = "acquire" /\ s[d].expect = {"S_OK"} /\ s[d].fatal
        <5>1. AcquireSync(Main)
          BY <2>3, <4>1, <4>2, <4>4, OpDecides
        <5>2. PICK r \in Result \ {"S_OK"} : Judge(Main, r)
          BY <1>0, <2>1, <5>1, AcquireAbandoned
        <5>3. at'[Main] = Len(s) + 1 /\ failed'
          BY <1>0, <4>1, <4>4, <5>2 DEF Judge, Unexpected, TypeInv
        <5> QED BY <1>0, <2>1, <3>5, <5>3, Shape DEF Ended, Over
      <4> QED BY <3>1, <4>3, <4>4
    <3>4. CASE at[Main] # d
      <4>1. at[Main] \in Nat /\ d \in Nat
        BY <1>0, <3>1, Shape
      <4> HIDE DEF d
      <4>2. at'[Main] <= d \/ (Ended' /\ failed')
        BY <3>1, <3>2, <3>4, <4>1
      <4> QED BY <2>1, <3>5, <4>2 DEF d
    <3> QED BY <3>3, <3>4
  <2> QED BY <2>2, <2>3
<1>6. CASE a = Child /\ at'[Child] > Len(script[Child])
  BY <1>3, <1>6, StepMoves, Shape DEF Over
<1> QED BY <1>1, <1>3, <1>4, <1>5, <1>6

\* What every argument below starts from.
Core == TypeInv /\ NobodyLeft /\ FirstInv /\ AbandonInv

LEMMA InitCore ==
  ASSUME Init
  PROVE  Core
<1>1. TypeInv /\ NobodyLeft /\ FirstInv
  BY InitTypes, InitNobodyLeft, InitFirst
<1>2. AbandonInv
  BY DEF Init, AbandonInv, FreshMutex
<1> QED BY <1>1, <1>2 DEF Core

LEMMA StepKeepsCore ==
  ASSUME Core, NEW a \in Actor, Step(a)
  PROVE  Core'
<1>1. TypeInv'
  BY StepKeepsTypes DEF Core
<1> QED BY <1>1, StepKeepsNobodyLeft, StepKeepsFirst, StepKeepsAbandon DEF Core

\* A step that is nobody's.
LEMMA IdleKeepsCore ==
  ASSUME Core, ReuseHandleValue \/ UNCHANGED vars,
         UNCHANGED <<setting, script, at, results, failed, signals, active,
                     overlap, mutex, texture, refs>>
  PROVE  Core'
<1>1. TypeInv' /\ script' = script
  BY ReuseKeepsTypes DEF Core
<1>2. (OthersOver <=> OthersOver') /\ (Ended <=> Ended')
  BY DEF OthersOver, Ended, Over
<1> QED BY <1>1, <1>2 DEF Core, NobodyLeft, Waiting, FirstInv, AbandonInv

\* A test with a child or with threads waits for them before it goes on, and
\* an abandoned mutex is one that its test has not discarded yet: what the
\* tests of experiments 05, 07, 11 and 12 do after their waits is done alone.
THEOREM CoreSafe == Spec => []Core
<1>1. Core /\ [Next]_vars => Core'
  <2> SUFFICES ASSUME Core, [Next]_vars PROVE Core'
    OBVIOUS
  <2> QED BY NextForms, StepKeepsCore, IdleKeepsCore
<1> QED BY InitCore, <1>1, PTL DEF Spec

\* No call on the data is made on an abandoned mutex.
LEMMA NobodyTouches ==
  ASSUME Core, mutex.abandoned, NEW a \in Actor, ~Over(a)
  PROVE  Current(a).op \notin Data
<1>1. /\ setting.test \in WithChild
      /\ at[Main] <= DiscardAt(setting.test) \/ (Ended /\ failed)
      /\ setting.test \in Phase => OthersOver
      /\ script = Script[setting.test]
  BY DEF Core, AbandonInv, TypeInv
<1>2. at[a] \in 1 .. Len(script[a])
  BY Shape DEF Over, Core
<1>3. CASE a = Main
  <2>1. at[Main] <= DiscardAt(setting.test)
    BY <1>1, <1>3 DEF Ended
  <2> QED BY <1>1, <1>2, <1>3, <2>1, TestsDiscard DEF Current
<1>4. CASE a = Child
  <2>1. a # Main
    BY <1>4 DEF Child, Main
  <2>2. setting.test = "abandonment"
    BY <1>1, <2>1 DEF OthersOver, WithChild
  <2>3. script[a] = AbruptOwner
    BY <1>1, <1>4, <2>2, OtherScripts
  <2> QED BY <1>2, <2>3, AbruptOwnerCalls DEF IsScript, Current, Data
<1>5. CASE a \in {"A", "B"}
  BY <1>1, <1>2, <1>5, EmptyScripts
<1> QED BY <1>3, <1>4, <1>5 DEF Actor

\* Whoever holds a resource whose owner died makes no use of what is in it: the
\* abandonment test and the failure injections look at an abandoned result, ask
\* for a fresh resource and only then update, flush or read.
THEOREM AbandonedIsDiscardedAlways == Spec => []AbandonedIsDiscarded
<1>1. Core => AbandonedIsDiscarded
  BY NobodyTouches DEF AbandonedIsDiscarded, Calls, Data
<1> QED BY CoreSafe, <1>1, PTL

-----------------------------------------------------------------------------
(* What a step leaves of results, signals and owner.                       *)

\* The call whose result goes into name returned S_OK.
Succeeded(name) == results[name] = "S_OK"

\* The conditions of the call a is at hold.
Applies(a) == \A condition \in Current(a).when : Holds(condition)

\* The two kinds of condition of a call.
LEMMA ConditionsHold ==
  ASSUME NEW n
  PROVE  /\ Holds(Ok(n)) <=> Succeeded(n)
         /\ Holds(NotOk(n)) <=> ~Succeeded(n)
<1>1. Ok(n).name = n /\ Ok(n).ok = TRUE
  BY DEF Ok
<1>2. NotOk(n).name = n /\ NotOk(n).ok = FALSE
  BY DEF NotOk
<1> HIDE DEF Ok, NotOk
<1>3. (results[n] = "S_OK") \in BOOLEAN
  OBVIOUS
<1> QED BY <1>1, <1>2, <1>3 DEF Holds, Succeeded

\* A call whose conditions do not hold is skipped.
LEMMA SkipOrApplies ==
  ASSUME NEW a \in Actor, Step(a)
  PROVE  Skip(a) \/ Applies(a)
<1>1. CASE AcquireSync(a) \/ ReleaseSync(a) \/ Skip(a)
  BY <1>1 DEF AcquireSync, ReleaseSync, Calls, Applies
<1>2. CASE Update(a) \/ Flush(a) \/ Read(a) \/ Throw(a)
  BY <1>2 DEF Update, Flush, Read, Throw, Calls, Applies
<1>3. CASE Start(a) \/ Join(a) \/ ChildExited(a) \/ ChildTimesOut(a)
           \/ ChildWaitFails(a)
  BY <1>3 DEF Start, Join, ChildExited, ChildTimesOut, ChildWaitFails, Calls,
              Applies
<1>4. CASE SignalOther(a) \/ WaitForOther(a) \/ Enter(a) \/ LeaveOwner(a)
  BY <1>4 DEF SignalOther, WaitForOther, Enter, LeaveOwner, Calls, Applies
<1>5. CASE CheckResult(a) \/ CheckOwners(a) \/ SetUp(a) \/ Terminate(a)
  BY <1>5 DEF CheckResult, CheckOwners, SetUp, Terminate, Calls, Applies
<1>6. CASE CloseHandle(a) \/ DropReference(a) \/ Reopen(a) \/ CreateFresh(a)
  BY <1>6 DEF CloseHandle, DropReference, Reopen, CreateFresh, Calls, Applies
<1> QED BY <1>1, <1>2, <1>3, <1>4, <1>5, <1>6 DEF Step

\* A result variable changes only by the call that goes into it.
LEMMA ResultsChange ==
  ASSUME TypeInv, NEW a \in Actor, Step(a), NEW n \in Names
  PROVE  \/ results'[n] = results[n]
         \/ Current(a).into = n /\ Current(a).op # "check" /\ Applies(a)
<1>1. CASE Skip(a) \/ Throw(a) \/ Start(a) \/ ChildTimesOut(a)
  BY <1>1 DEF Skip, Throw, Start, ChildTimesOut
<1>2. CASE CheckResult(a)
  <2>1. Judge(a, results[Current(a).into])
    BY <1>2 DEF CheckResult
  <2> QED BY <2>1 DEF Judge, TypeInv
<1>3. CASE ~Skip(a) /\ ~CheckResult(a) /\ \E r : Judge(a, r)
  <2>1. Applies(a)
    BY <1>3, SkipOrApplies
  <2>2. CASE Current(a).op # "check"
    BY <1>3, <2>1, <2>2 DEF Judge, TypeInv
  <2>3. CASE Current(a).op = "check"
    BY <1>3, <2>3, OpDecides
  <2> QED BY <2>2, <2>3
<1> QED BY <1>1, <1>2, <1>3, StepForms

\* The two calls of the keyed mutex, made by the test or one of its threads.
LEMMA AcquireEffect ==
  ASSUME TypeInv, NEW a \in Actor \ {Child}, AcquireSync(a)
  PROVE  \E r \in Result :
           /\ Judge(a, r)
           /\ \/ /\ r = "S_OK" /\ Free(Current(a).key)
                 /\ mutex' = AcquiredBy(mutex, Identified(Current(a).by))
              \/ r # "S_OK" /\ mutex' = mutex
BY DEF AcquireSync, Leave, Result

LEMMA ReleaseEffect ==
  ASSUME TypeInv, NEW a \in Actor \ {Child}, ReleaseSync(a)
  PROVE  \E r \in Result :
           /\ Judge(a, r)
           /\ \/ /\ r = "S_OK"
                 /\ mutex' = ReleasedWith(mutex, IF Driver = "forgets-keys"
                                                 THEN 0 ELSE Current(a).key)
              \/ r # "S_OK" /\ mutex' = mutex
BY DEF ReleaseSync, Leave, Result

\* Who owns the mutex afterwards, and what the result says about it.
LEMMA OwnerChange ==
  ASSUME TypeInv, NEW a \in Actor \ {Child}, Step(a),
         Current(a).op
           \notin {"create", "wait-for-child", "set-up", "terminate"}
  PROVE  LET c == Current(a) IN
         \/ /\ mutex' = mutex
            /\ c.op \in {"acquire", "release"} =>
                 \A n \in Names : results'[n] = "S_OK" => Succeeded(n)
         \/ /\ c.op = "acquire" /\ Applies(a)
            /\ c.into \in Names => results'[c.into] = "S_OK"
         \/ c.op = "release" /\ Applies(a) /\ mutex'.owner = NoOwner
<1>0. a \in Actor
  OBVIOUS
<1>1. CASE Skip(a)
  BY <1>1 DEF Skip, resource, Succeeded
<1>2. CASE AcquireSync(a)
  <2>1. Applies(a) /\ Current(a).op = "acquire"
    BY <1>2 DEF AcquireSync, Calls, Applies
  <2>2. PICK r \in Result :
          /\ Judge(a, r)
          /\ r = "S_OK" \/ mutex' = mutex
          /\ r = "S_OK" \/ r # "S_OK"
    BY <1>2, AcquireEffect
  <2>3. CASE r = "S_OK"
    BY <2>1, <2>2, <2>3 DEF Judge, TypeInv
  <2>4. CASE r # "S_OK"
    BY <2>1, <2>2, <2>4 DEF Judge, TypeInv, Succeeded
  <2> QED BY <2>3, <2>4
<1>3. CASE ReleaseSync(a)
  <2>1. Applies(a) /\ Current(a).op = "release"
    BY <1>3 DEF ReleaseSync, Calls, Applies
  <2>2. IsMutex(mutex)
    BY DEF TypeInv
  <2>3. \A k : ReleasedWith(mutex, k).owner = NoOwner
    BY <2>2, Mutated
  <2>4. PICK r \in Result :
          /\ Judge(a, r)
          /\ \/ mutex'.owner = NoOwner
             \/ r # "S_OK" /\ mutex' = mutex
    BY <1>3, <2>3, ReleaseEffect
  <2>5. CASE mutex'.owner = NoOwner
    BY <2>1, <2>5
  <2>6. CASE r # "S_OK" /\ mutex' = mutex
    BY <2>1, <2>4, <2>6 DEF Judge, TypeInv, Succeeded
  <2> QED BY <2>4, <2>5, <2>6
<1>4. CASE ~Skip(a) /\ ~AcquireSync(a) /\ ~ReleaseSync(a)
  <2>1. Current(a).op \notin {"acquire", "release"}
    BY <1>0, <1>4, OpDecides
  <2>2. mutex' = mutex
    <3>1. /\ ~CreateFresh(a) /\ ~SetUp(a) /\ ~Terminate(a)
          /\ ~ChildTimesOut(a)
      BY DEF CreateFresh, SetUp, Terminate, ChildTimesOut, Calls
    <3> QED BY <1>0, <1>4, <3>1, MutexTouched
  <2> QED BY <2>1, <2>2
<1> QED BY <1>1, <1>2, <1>3, <1>4

\* The last call of a test that ends with a release.
LEMMA ReleasesLast ==
  ASSUME NEW test \in Test \ {"handoff", "migration"}
  PROVE  LET s == Script[test][Main]
             c == s[Len(s)]
         IN /\ Len(s) \in Nat \ {0}
            /\ c.op = "release" /\ c.expect = {"S_OK"} /\ c.when = {}
<1>6. CASE test = "key-state-machine"
  BY <1>6, MainScripts, KeyStateMachineCalls DEF IsScript, Form
<1>7. CASE test = "identity"
  BY <1>7, MainScripts, IdentityCalls DEF IsScript, Form
<1>8. CASE test = "cross-release"
  BY <1>8, MainScripts, CrossReleaseCalls DEF IsScript, Form
<1>9. CASE test = "handle-closed"
  BY <1>9, MainScripts, HandleClosedCalls DEF IsScript, Form
<1>10. CASE test = "creator-destroyed"
  BY <1>10, MainScripts, CreatorDestroyedCalls DEF IsScript, Form
<1>11. CASE test = "last-reference"
  BY <1>11, MainScripts, LastReferenceCalls DEF IsScript, Form
<1>3. CASE test = "concurrent-acquire"
  BY <1>3, MainScripts, ConcurrentAcquireCalls DEF IsScript, Form
<1>4. CASE test = "abandonment"
  <2>1. /\ Script[test][Main] = OwnerAbandonment
        /\ 6 * Iterations \in Nat /\ 6 * Iterations >= 6
        /\ Len(OwnerAbandonment) = 6 * Iterations + 5
        /\ OwnerAbandonment[6 * Iterations + 5] = FreshResource[5]
    BY <1>4, MainScripts, OwnerAbandonmentCalls DEF IsScript
  <2>2. /\ FreshResource[5].op = "release" /\ FreshResource[5].expect = {"S_OK"}
        /\ FreshResource[5].when = {}
    BY FreshResourceCalls DEF Form
  <2> QED BY <2>1, <2>2
<1>5. CASE test \in Phase
  <2> DEFINE s == FailureInjection(test)
  <2> HIDE DEF s
  <2>1. \E n \in {5, 11, 12} :
          Len(s) = n /\ Form(s[n], "release", "nothing", {"S_OK"}, {})
    BY <1>5, FailureInjectionCalls DEF s, IsScript
  <2>2. Script[test][Main] = s
    BY <1>5, MainScripts DEF s
  <2> QED BY <2>1, <2>2 DEF Form
<1> QED
  BY <1>3, <1>4, <1>5, <1>6, <1>7, <1>8, <1>9, <1>10, <1>11 DEF Test

\* Those tests end with a release that succeeded.
ReleasedAtEnd ==
  setting.test \notin {"handoff", "migration"} /\ Passed =>
    mutex.owner = NoOwner

\* The last step of a test is that release.
LEMMA StepKeepsReleased ==
  ASSUME Core, ReleasedAtEnd, NEW a \in Actor, Step(a)
  PROVE  ReleasedAtEnd'
<1> USE DEF Core
<1>0. /\ Main \in Actor \ {Child} /\ setting' = setting /\ script' = script
      /\ setting.test \in Test /\ script = Script[setting.test]
  BY StepMoves, Shape DEF Actor, Main, Child, fixed, TypeInv
<1> SUFFICES ASSUME setting.test \notin {"handoff", "migration"},
                    at'[Main] \notin DOMAIN script[Main], ~failed'
             PROVE  mutex'.owner = NoOwner
  BY <1>0 DEF ReleasedAtEnd, Passed, Ended, Over
<1>1. CASE a # Main
  <2>1. ~Over(a) /\ at'[Main] = at[Main] /\ ~failed
    BY <1>0, <1>1, StepMoves, Shape DEF Over
  <2>2. Ended /\ ~OthersOver
    BY <1>0, <1>1, <2>1 DEF Ended, Over, OthersOver
  <2>3. setting.test \notin Alone
    BY <2>2, AloneOthersOver
  <2>4. Waiting
    BY <2>1, <2>2 DEF NobodyLeft
  <2>5. WaitFollowsStart(script[Main])
    BY <1>0, <2>3, TestKinds, TestsWait
  <2> QED BY <1>0, <2>2, <2>4, <2>5, Shape
          DEF Waiting, WaitFollowsStart, Ended, Over, TypeInv
<1>2. CASE a = Main
  <2>1. at[Main] \in 1 .. Len(script[Main]) /\ at'[Main] = at[Main] + 1
    BY <1>0, <1>2, StepMoves, MainMoves
  <2>2. at[Main] = Len(script[Main])
    BY <1>0, <2>1, Shape
  <2>3. /\ Current(Main).op = "release" /\ Current(Main).expect = {"S_OK"}
        /\ Current(Main).when = {}
    BY <1>0, <2>2, ReleasesLast DEF Current
  <2>4. ReleaseSync(Main)
    BY <1>0, <1>2, <2>3, OpDecides DEF Skip
  <2>5. PICK r \in Result :
          /\ Judge(Main, r)
          /\ \/ r = "S_OK" /\ \E k : mutex' = ReleasedWith(mutex, k)
             \/ r # "S_OK"
    BY <1>0, <2>4, ReleaseEffect
  <2>6. r = "S_OK"
    BY <1>0, <2>3, <2>5 DEF Judge, Unexpected
  <2>7. IsMutex(mutex)
    BY DEF TypeInv
  <2> QED BY <2>5, <2>6, <2>7, Mutated
<1> QED BY <1>1, <1>2

-----------------------------------------------------------------------------
(* The tests with threads.                                                 *)

\* What the first thread does in a test with threads: it starts them, joins
\* them, and looks at their results.
LEMMA ThreadedMain ==
  ASSUME NEW test \in Threaded
  PROVE  LET s == Script[test][Main] IN
         /\ \E n \in {7, 8, 10} : IsScript(s, n)
         /\ s[1] = Do("start") /\ s[2] = Do("join")
         /\ s[1].op = "start" /\ s[2].op = "join"
         /\ \A j \in 3 .. Len(s) :
              s[j].op \in {"check", "acquire", "release", "check-owners"}
<1>0. Do("start").op = "start" /\ Do("join").op = "join"
  BY DEF Do, Call
<1>1. CASE test = "handoff"
  <2> DEFINE s == CrossThreadHandoff
  <2> HIDE DEF s
  <2>1. /\ IsScript(s, 8) /\ s[1] = Do("start") /\ s[2] = Do("join")
        /\ s[3].op = "check" /\ s[4].op = "check" /\ s[5].op = "check"
        /\ s[6].op = "check" /\ s[7].op = "check" /\ s[8].op = "check"
    BY CrossThreadHandoffCalls DEF s, Form
  <2>2. \A j \in 3 .. 8 : s[j].op = "check"
    BY <2>1
  <2>3. Len(s) = 8 /\ Script[test][Main] = s
    BY <1>1, <2>1, MainScripts DEF s, IsScript
  <2> QED BY <1>0, <2>1, <2>2, <2>3
<1>2. CASE test = "migration"
  <2> DEFINE s == OwnershipMigration
  <2> HIDE DEF s
  <2>1. /\ IsScript(s, 10) /\ s[1] = Do("start") /\ s[2] = Do("join")
        /\ s[3].op = "acquire" /\ s[4].op = "release" /\ s[5].op = "check"
        /\ s[6].op = "check" /\ s[7].op = "check" /\ s[8].op = "check"
        /\ s[9].op = "check" /\ s[10].op = "check"
    BY OwnershipMigrationCalls DEF s, Form
  <2>2. \A j \in 3 .. 10 : s[j].op \in {"check", "acquire", "release"}
    BY <2>1
  <2>3. Len(s) = 10 /\ Script[test][Main] = s
    BY <1>2, <2>1, MainScripts DEF s, IsScript
  <2> QED BY <1>0, <2>1, <2>2, <2>3
<1>3. CASE test = "concurrent-acquire"
  <2> DEFINE s == ConcurrentAcquire
  <2> HIDE DEF s
  <2>1. /\ IsScript(s, 7) /\ s[1] = Do("start") /\ s[2] = Do("join")
        /\ s[3].op = "check" /\ s[4].op = "check" /\ s[5].op = "check-owners"
        /\ s[6].op = "acquire" /\ s[7].op = "release"
    BY ConcurrentAcquireCalls DEF s, Form
  <2>2. \A j \in 3 .. 7 :
          s[j].op \in {"check", "acquire", "release", "check-owners"}
    BY <2>1
  <2>3. Len(s) = 7 /\ Script[test][Main] = s
    BY <1>3, <2>1, MainScripts DEF s, IsScript
  <2> QED BY <1>0, <2>1, <2>2, <2>3
<1> QED BY <1>1, <1>2, <1>3 DEF Threaded

\* Once they are joined the threads are over.
LEMMA Joined ==
  ASSUME Core, setting.test \in Threaded, at[Main] >= 3, ~failed
  PROVE  OthersOver
<1>1. /\ at[Main] \in Nat /\ script[Main] = Script[setting.test][Main]
      /\ Len(script[Main]) \in Nat
  BY Shape DEF Core, TypeInv, Actor
<1>2. \A j \in 3 .. Len(script[Main]) : script[Main][j].op # "start"
  BY <1>1, ThreadedMain
<1>3. script[Main][2].op = "join"
  BY <1>1, ThreadedMain
<1>4. ~Waiting
  <2> SUFFICES ASSUME Waiting PROVE FALSE
    OBVIOUS
  <2>1. at[Main] - 1 = 2 \/ at[Main] - 1 \in 3 .. Len(script[Main])
    BY <1>1 DEF Waiting
  <2> QED BY <1>2, <1>3, <2>1 DEF Waiting
<1> QED BY <1>4 DEF Core, NobodyLeft

\* A check changes nothing but what the test has recorded.
LEMMA CheckEffect ==
  ASSUME TypeInv, NEW a \in Actor \ {Child}, Step(a), Current(a).op = "check"
  PROVE  /\ UNCHANGED <<results, mutex, signals, refs>>
         /\ \/ Skip(a)
            \/ /\ Applies(a)
               /\ failed' \/ results[Current(a).into] \in Current(a).expect
<1>1. Skip(a) \/ CheckResult(a)
  BY OpDecides
<1>2. CASE Skip(a)
  BY <1>2 DEF Skip, resource
<1>3. CASE CheckResult(a)
  <2>1. Judge(a, results[Current(a).into]) /\ Applies(a)
    BY <1>3 DEF CheckResult, Calls, Applies
  <2>2. UNCHANGED <<mutex, signals, refs>>
    BY <1>3 DEF CheckResult, resource
  <2>3. results' = results
    BY <2>1 DEF Judge, TypeInv
  <2> QED BY <2>1, <2>2, <2>3 DEF Judge, Unexpected
<1> QED BY <1>1, <1>2, <1>3

\* Starting and joining threads changes nothing else.
LEMMA StartJoinEffect ==
  ASSUME TypeInv, NEW a \in Actor, Step(a),
         Current(a) = Do("start") \/ Current(a) = Do("join")
  PROVE  UNCHANGED <<results, mutex, signals, refs>>
<1>1. /\ Current(a).op \in {"start", "join"} /\ Current(a).into \notin Names
      /\ Current(a).when = {}
  BY DEF Do, Call, Names
<1>2. Throw(a) \/ Start(a) \/ Join(a)
  BY <1>1, OpDecides DEF Skip
<1>3. CASE Throw(a) \/ Start(a)
  BY <1>3 DEF Throw, Start, resource
<1>4. CASE Join(a)
  BY <1>1, <1>4 DEF Join, Judge, resource
<1> QED BY <1>2, <1>3, <1>4

-----------------------------------------------------------------------------
(* The migration of ownership.                                             *)

\* The migration test gives the resource back by its last release, which has
\* its own result; no thread writes that result.
MigrationInv ==
  setting.test = "migration" =>
    /\ at[Main] <= 4 => ~Succeeded("releaseAfter")
    /\ at[Main] >= 5 /\ ~failed /\ Succeeded("releaseAfter") =>
         mutex.owner = NoOwner
    /\ Passed => Succeeded("releaseAfter")

\* No call of the threads goes into releaseAfter.
LEMMA MigrationNames ==
  /\ \A j \in 1 .. 4 : MigrationA[j].into # "releaseAfter"
  /\ \A j \in 1 .. 3 : MigrationB[j].into # "releaseAfter"
<1>1. /\ MigrationA[1].into = "acquireA" /\ MigrationA[2].into = "acquired"
      /\ MigrationA[3].into = "migrationAttempted"
      /\ MigrationA[4].into = "cleanupA"
  BY MigrationACalls DEF Form
<1>2. /\ MigrationB[1].into = "acquired" /\ MigrationB[2].into = "releaseB"
      /\ MigrationB[3].into = "migrationAttempted"
  BY MigrationBCalls DEF Form
<1>3. \A j \in 1 .. 4 : j = 1 \/ j = 2 \/ j = 3 \/ j = 4
  OBVIOUS
<1>4. \A j \in 1 .. 3 : j = 1 \/ j = 2 \/ j = 3
  OBVIOUS
<1> QED BY <1>1, <1>2, <1>3, <1>4

\* Every step keeps that.
LEMMA StepKeepsMigration ==
  ASSUME Core, MigrationInv, NEW a \in Actor, Step(a)
  PROVE  MigrationInv'
<1> USE DEF Core
<1>0. /\ Main \in Actor \ {Child} /\ setting' = setting /\ script' = script
      /\ script = Script[setting.test] /\ "releaseAfter" \in Names
      /\ at[a] \in 1 .. Len(script[a]) /\ at[Main] \in Nat
  BY StepMoves DEF Actor, Main, Child, fixed, TypeInv, Names
<1> SUFFICES ASSUME setting.test = "migration" PROVE MigrationInv'
  BY <1>0 DEF MigrationInv
<1> DEFINE s == OwnershipMigration
<1>1. script[Main] = s /\ Len(s) = 10 /\ DOMAIN s = 1 .. 10
  BY <1>0, MainScripts, OwnershipMigrationCalls DEF IsScript
<1>2. /\ s[1] = Do("start") /\ s[2] = Do("join")
      /\ s[1].op = "start" /\ s[2].op = "join"
      /\ s[3].op = "acquire" /\ s[3].into = "acquireAfter"
      /\ s[4].op = "release" /\ s[4].into = "releaseAfter"
      /\ \A j \in 5 .. 10 : s[j].op = "check"
      /\ s[10].into = "releaseAfter" /\ s[10].expect = {"S_OK"}
      /\ s[10].when = {}
  <2>0. /\ s[5].op = "check" /\ s[6].op = "check" /\ s[7].op = "check"
        /\ s[8].op = "check" /\ s[9].op = "check" /\ s[10].op = "check"
    BY OwnershipMigrationCalls DEF Form
  <2>1. /\ s[1] = Do("start") /\ s[2] = Do("join")
        /\ s[3].op = "acquire" /\ s[3].into = "acquireAfter"
        /\ s[4].op = "release" /\ s[4].into = "releaseAfter"
        /\ s[10].into = "releaseAfter" /\ s[10].expect = {"S_OK"}
        /\ s[10].when = {}
    BY OwnershipMigrationCalls DEF Form
  <2>2. Do("start").op = "start" /\ Do("join").op = "join"
    BY DEF Do, Call
  <2> HIDE DEF s
  <2> QED BY <2>0, <2>1, <2>2
<1> HIDE DEF s
<1>3. CASE a # Main
  <2>1. /\ at'[Main] = at[Main] /\ (failed => failed') /\ ~OthersOver
        /\ results'["releaseAfter"] = results["releaseAfter"]
    <3>1. at'[Main] = at[Main] /\ (failed => failed') /\ ~OthersOver
      BY <1>0, <1>3, StepMoves, Shape DEF OthersOver, Over
    <3>2. a \in {"A", "B"}
      <4>1. a # Child
        BY <1>0, EmptyScripts DEF Threaded
      <4> QED BY <1>3, <4>1 DEF Actor
    <3>3. Current(a).into # "releaseAfter"
      <4>1. CASE a = "A"
        <5>1. script[a] = MigrationA /\ Len(MigrationA) = 4
          BY <1>0, <4>1, OtherScripts, MigrationACalls DEF IsScript
        <5> QED BY <1>0, <5>1, MigrationNames DEF Current
      <4>2. CASE a = "B"
        <5>1. script[a] = MigrationB /\ Len(MigrationB) = 3
          BY <1>0, <4>2, OtherScripts, MigrationBCalls DEF IsScript
        <5> QED BY <1>0, <5>1, MigrationNames DEF Current
      <4> QED BY <3>2, <4>1, <4>2
    <3> QED BY <1>0, <3>1, <3>3, ResultsChange
  <2>2. at[Main] < 3 \/ failed
    BY <1>0, <2>1, Joined DEF Threaded
  <2> QED BY <1>0, <1>1, <2>1, <2>2
          DEF MigrationInv, Succeeded, Passed, Ended, Over
<1>4. CASE a = Main
  <2>0. /\ at[Main] \in 1 .. 10 /\ Current(Main) = s[at[Main]]
        /\ at'[Main] = at[Main] + 1 \/ (at'[Main] = 11 /\ failed')
        /\ failed => failed'
    <3>1. at[Main] \in 1 .. 10 /\ Current(Main) = s[at[Main]]
      BY <1>0, <1>1, <1>4 DEF Current
    <3>2. TypeInv /\ Step(Main)
      BY <1>4
    <3>3. \/ at'[Main] = at[Main] + 1
          \/ at'[Main] = Len(script[Main]) + 1 /\ failed'
      BY <3>2, MainMoves
    <3>4. failed => failed'
      BY <1>0, <3>2, StepMoves
    <3> QED BY <1>1, <3>1, <3>3, <3>4
  <2>1. CASE failed'
    <3>1. at'[Main] <= 4 => ~Succeeded("releaseAfter")'
      <4> SUFFICES ASSUME at'[Main] <= 4 PROVE ~Succeeded("releaseAfter")'
        OBVIOUS
      <4>1. at[Main] \in 1 .. 3
        BY <2>0
      <4>2. Current(Main).into # "releaseAfter" \/ at[Main] \in 1 .. 2
        BY <1>2, <2>0, <4>1
      <4>3. results'["releaseAfter"] = results["releaseAfter"]
        <5>1. CASE at[Main] \in 1 .. 2
          BY <1>0, <1>2, <1>4, <2>0, <5>1, StartJoinEffect
        <5> QED BY <1>0, <1>4, <4>2, <5>1, ResultsChange
      <4> QED BY <4>1, <4>3 DEF MigrationInv, Succeeded
    <3> QED BY <2>1, <3>1 DEF MigrationInv, Passed
  <2>2. CASE ~failed' /\ at[Main] \in 1 .. 2
    <3>1. results' = results /\ at'[Main] = at[Main] + 1
      BY <1>0, <1>2, <1>4, <2>0, <2>2, StartJoinEffect
    <3> QED BY <1>0, <1>1, <2>2, <3>1
            DEF MigrationInv, Succeeded, Passed, Ended, Over
  <2>3. CASE ~failed' /\ at[Main] = 3
    <3>1. results'["releaseAfter"] = results["releaseAfter"]
      BY <1>0, <1>2, <1>4, <2>0, <2>3, ResultsChange
    <3>2. at'[Main] = 4
      BY <2>0, <2>3
    <3> QED BY <1>0, <1>1, <2>3, <3>1, <3>2
            DEF MigrationInv, Succeeded, Passed, Ended, Over
  <2>4. CASE ~failed' /\ at[Main] = 4
    <3>1. at'[Main] = 5 /\ ~Succeeded("releaseAfter")
      BY <2>0, <2>4 DEF MigrationInv
    <3>2. results'["releaseAfter"] = "S_OK" => mutex'.owner = NoOwner
      BY <1>0, <1>2, <1>4, <2>0, <2>4, <3>1, OwnerChange
    <3> QED BY <1>0, <1>1, <3>1, <3>2
            DEF MigrationInv, Succeeded, Passed, Ended, Over
  <2>5. CASE ~failed' /\ at[Main] \in 5 .. 10
    <3>1. Current(Main).op = "check" /\ at'[Main] = at[Main] + 1
      BY <1>2, <2>0, <2>5
    <3>2. results' = results /\ mutex' = mutex
      BY <1>0, <1>4, <3>1, CheckEffect
    <3>3. at[Main] = 10 => Succeeded("releaseAfter")
      <4> SUFFICES ASSUME at[Main] = 10 PROVE Succeeded("releaseAfter")
        OBVIOUS
      <4>1. /\ Current(Main).into = "releaseAfter" /\ Current(Main).when = {}
            /\ Current(Main).expect = {"S_OK"}
        BY <1>2, <2>0
      <4>2. ~Skip(Main)
        BY <4>1 DEF Skip
      <4> QED BY <1>0, <1>4, <2>5, <3>1, <4>1, <4>2, CheckEffect DEF Succeeded
    <3>4. ~failed
      BY <2>0, <2>5
    <3> QED BY <1>0, <1>1, <2>5, <3>1, <3>2, <3>3, <3>4
            DEF MigrationInv, Succeeded, Passed, Ended, Over
  <2>6. at[Main] \in 1 .. 2 \/ at[Main] = 3 \/ at[Main] = 4
        \/ at[Main] \in 5 .. 10
    BY <2>0
  <2> QED BY <2>1, <2>2, <2>3, <2>4, <2>5, <2>6
<1> QED BY <1>3, <1>4

-----------------------------------------------------------------------------
(* The hand-off between two threads.                                       *)

\* The threads take whatever result they get and go on.
Goes(c) ==
  \/ c.op \in {"acquire", "release"} /\ c.expect = Result
  \/ /\ c.op \in {"signal", "wait", "await", "enter", "leave"}
     /\ c.expect = {"S_OK"} /\ c.into \notin Names

\* What a step of such a thread does.
LEMMA ThreadStep ==
  ASSUME TypeInv, NEW a \in {"A", "B"}, Step(a), Goes(Current(a))
  PROVE  LET c == Current(a) IN
         /\ at' = [at EXCEPT ![a] = @ + 1]
         /\ UNCHANGED fixed
         /\ c.op \notin {"acquire", "release"} => UNCHANGED <<results, mutex>>
         /\ c.op \in {"acquire", "release"} => UNCHANGED signals
         /\ signals' \subseteq
              signals \cup (IF c.op = "signal" THEN {c.into} ELSE {})
         /\ c.op \in {"wait", "await"} /\ Applies(a) => c.into \in signals
<1> DEFINE c == Current(a)
<1>0. a \in Actor /\ a # Main /\ a # Child
  BY DEF Actor, Main, Child
<1>1. CASE Skip(a)
  BY <1>1 DEF Skip, resource, Applies
<1>2. CASE AcquireSync(a) /\ c.op = "acquire"
  <2>1. PICK r \in Result : Judge(a, r)
    BY <1>0, <1>2, AcquireEffect
  <2>2. c.expect = Result
    BY <1>2 DEF Goes
  <2> QED BY <1>2, <2>1, <2>2 DEF Judge, Unexpected, AcquireSync
<1>3. CASE ReleaseSync(a) /\ c.op = "release"
  <2>1. PICK r \in Result : Judge(a, r)
    BY <1>0, <1>3, ReleaseEffect
  <2>2. c.expect = Result
    BY <1>3 DEF Goes
  <2> QED BY <1>3, <2>1, <2>2 DEF Judge, Unexpected, ReleaseSync
<1>4. CASE SignalOther(a) /\ c.op = "signal"
  BY <1>4 DEF Goes, SignalOther, Judge, Unexpected, resource
<1>5. CASE WaitForOther(a) /\ c.op \in {"wait", "await"}
  BY <1>5 DEF Goes, WaitForOther, Judge, Unexpected, resource
<1>6. CASE (Enter(a) /\ c.op = "enter") \/ (LeaveOwner(a) /\ c.op = "leave")
  BY <1>6 DEF Goes, Enter, LeaveOwner, Judge, Unexpected, resource
<1>7. c.op \in {"acquire", "release", "signal", "wait", "await", "enter",
                "leave"}
  BY DEF Goes
<1> QED
  BY <1>0, <1>1, <1>2, <1>3, <1>4, <1>5, <1>6, <1>7, OpDecides

\* A result is taken for a success only after the call that returns it.
Fresh ==
  /\ at["A"] <= 1 => ~Succeeded("acquireA")
  /\ at["A"] <= 5 => ~Succeeded("releaseA")
  /\ at["A"] <= 7 => ~Succeeded("recoveryAcquireA")
  /\ at["A"] <= 8 => ~Succeeded("recoveryReleaseA")
  /\ at["B"] <= 4 => ~Succeeded("acquireB")
  /\ at["B"] <= 5 => ~Succeeded("releaseB")

\* Thread A looks at what B did only once B is done.
AAfterB ==
  /\ "attemptFinished" \in signals => at["B"] = 7
  /\ at["A"] >= 7 /\ Succeeded("acquireA") => at["B"] = 7
  /\ Succeeded("recoveryAcquireA") => ~Succeeded("acquireB") /\ at["B"] = 7

\* Whoever owns the mutex has noted it.
Owed ==
  mutex.owner # NoOwner =>
    \/ Succeeded("acquireA") /\ ~Succeeded("releaseA")
    \/ Succeeded("acquireB") /\ ~Succeeded("releaseB")
    \/ Succeeded("recoveryAcquireA") /\ ~Succeeded("recoveryReleaseA")

\* Before Main has started them the threads are at nothing.
NotStarted == at[Main] = 1 => at["A"] = 0 /\ at["B"] = 0

\* What the hand-off knows of its two threads.
HandoffInv ==
  setting.test = "handoff" => NotStarted /\ Fresh /\ AAfterB /\ Owed

\* The results that say who owes a release.
HandoffNames ==
  {"acquireA", "acquireB", "releaseA", "releaseB", "recoveryAcquireA",
   "recoveryReleaseA"}

\* Thread A: it acquires, lets B try, and cleans up once B is done.
LEMMA StepOfAKeepsHandoff ==
  ASSUME Core, NotStarted, Fresh, AAfterB, Owed, setting.test = "handoff",
         Step("A")
  PROVE  NotStarted' /\ Fresh' /\ AAfterB' /\ Owed'
<1> DEFINE s == HandoffA
           c == Current("A")
           j == at["A"]
<1>0. /\ TypeInv /\ "A" \in {"A", "B"} /\ "A" \in Actor \ {Child}
      /\ "A" # Main /\ Main \in Actor /\ "B" \in Actor
      /\ HandoffNames \subseteq Names
  BY DEF Core, Actor, Main, Child, HandoffNames, Names
<1>1. j \in 1 .. 8 /\ c = s[j]
  BY <1>0, StepMoves, OtherScripts, HandoffACalls
  DEF TypeInv, IsScript, Current
<1>2. /\ s[1].op = "acquire" /\ s[1].into = "acquireA" /\ s[1].expect = Result
      /\ s[2].op = "signal" /\ s[2].into = "acquired" /\ s[2].expect = {"S_OK"}
      /\ s[3].op = "wait" /\ s[3].into = "readyForAcquire"
      /\ s[3].expect = {"S_OK"}
      /\ s[4].op = "wait" /\ s[4].into = "allowRelease"
      /\ s[4].expect = {"S_OK"}
      /\ s[5].op = "release" /\ s[5].into = "releaseA" /\ s[5].expect = Result
      /\ s[6].op = "wait" /\ s[6].into = "attemptFinished"
      /\ s[6].expect = {"S_OK"} /\ s[6].when = {Ok("acquireA")}
      /\ s[7].op = "acquire" /\ s[7].into = "recoveryAcquireA"
      /\ s[7].expect = Result
      /\ s[7].when = {Ok("acquireA")} \cup {NotOk("acquireB")}
      /\ s[8].op = "release" /\ s[8].into = "recoveryReleaseA"
      /\ s[8].expect = Result
  BY HandoffACalls DEF Form
<1> HIDE DEF s, c
<1>3. Goes(c)
  <2>1. j = 1 \/ j = 2 \/ j = 3 \/ j = 4 \/ j = 5 \/ j = 6 \/ j = 7 \/ j = 8
    BY <1>1
  <2>2. CASE j \in {1, 5, 7, 8}
    BY <1>1, <1>2, <2>2 DEF Goes
  <2>3. CASE j \in {2, 3, 4, 6}
    BY <1>1, <1>2, <2>3 DEF Goes, Names
  <2> QED BY <2>1, <2>2, <2>3
<1>4. /\ at'["A"] = j + 1 /\ at'["B"] = at["B"] /\ at'[Main] = at[Main]
      /\ c.op \notin {"acquire", "release"} => UNCHANGED <<results, mutex>>
      /\ c.op # "signal" => signals' \subseteq signals
      /\ c.op = "signal" => signals' \subseteq signals \cup {c.into}
      /\ c.op = "wait" /\ Applies("A") => c.into \in signals
      /\ at["A"] \in Nat /\ at["B"] \in Nat
  BY <1>0, <1>3, ThreadStep DEF c, TypeInv
<1>5. \A n \in HandoffNames :
        results'[n] = results[n] \/ (c.into = n /\ Applies("A"))
  BY <1>0, ResultsChange DEF c
<1>6. c.op \in {"acquire", "release"} =>
        \/ /\ mutex' = mutex
           /\ \A n \in HandoffNames : results'[n] = "S_OK" => Succeeded(n)
        \/ c.op = "acquire" /\ (c.into \in Names => results'[c.into] = "S_OK")
        \/ c.op = "release" /\ mutex'.owner = NoOwner
  BY <1>0, OwnerChange DEF c
<1>7. NotStarted'
  BY <1>1, <1>4 DEF NotStarted
<1>8. CASE j \in {2, 3, 4}
  <2>1. UNCHANGED <<results, mutex>>
    BY <1>1, <1>2, <1>4, <1>8
  <2>2. "attemptFinished" \in signals' => "attemptFinished" \in signals
    BY <1>1, <1>2, <1>4, <1>8
  <2> QED BY <1>4, <1>7, <1>8, <2>1, <2>2 DEF Fresh, AAfterB, Owed, Succeeded
<1>9. CASE j = 6
  <2>1. UNCHANGED <<results, mutex>> /\ signals' \subseteq signals
    BY <1>1, <1>2, <1>4, <1>9
  <2>2. Succeeded("acquireA") => "attemptFinished" \in signals
    <3>1. Succeeded("acquireA") => Applies("A")
      <4>1. c.when = {Ok("acquireA")}
        BY <1>1, <1>2, <1>9
      <4> QED BY <4>1, ConditionsHold DEF Applies, c
    <3> QED BY <1>1, <1>2, <1>4, <1>9, <3>1
  <2> QED BY <1>4, <1>7, <1>9, <2>1, <2>2 DEF Fresh, AAfterB, Owed, Succeeded
<1>10. CASE j = 1
  <2>1. c.op = "acquire" /\ c.into = "acquireA"
    BY <1>1, <1>2, <1>10
  <2>2. /\ signals' \subseteq signals
        /\ \A n \in HandoffNames \ {"acquireA"} : results'[n] = results[n]
        /\ mutex' = mutex \/ results'["acquireA"] = "S_OK"
    BY <1>0, <1>4, <1>5, <1>6, <2>1 DEF HandoffNames
  <2> QED BY <1>4, <1>7, <1>10, <2>2
          DEF Fresh, AAfterB, Owed, Succeeded, HandoffNames
<1>11. CASE j = 5
  <2>1. c.op = "release" /\ c.into = "releaseA"
    BY <1>1, <1>2, <1>11
  <2>2. /\ signals' \subseteq signals
        /\ \A n \in HandoffNames \ {"releaseA"} : results'[n] = results[n]
        /\ \/ mutex' = mutex /\ results'["releaseA"] # "S_OK"
           \/ mutex'.owner = NoOwner
    BY <1>4, <1>5, <1>6, <1>11, <2>1 DEF HandoffNames, Fresh
  <2> QED BY <1>4, <1>7, <1>11, <2>2
          DEF Fresh, AAfterB, Owed, Succeeded, HandoffNames
<1>12. CASE j = 7
  <2>1. c.op = "acquire" /\ c.into = "recoveryAcquireA"
    BY <1>1, <1>2, <1>12
  <2>2. Applies("A") => Succeeded("acquireA") /\ ~Succeeded("acquireB")
    <3>1. c.when = {Ok("acquireA")} \cup {NotOk("acquireB")}
      BY <1>1, <1>2, <1>12
    <3> QED BY <3>1, ConditionsHold DEF Applies, c
  <2>3. /\ signals' \subseteq signals
        /\ \A n \in HandoffNames \ {"recoveryAcquireA"} :
             results'[n] = results[n]
        /\ mutex' = mutex \/ results'["recoveryAcquireA"] = "S_OK"
        /\ results'["recoveryAcquireA"] = "S_OK" =>
             Succeeded("acquireA") /\ ~Succeeded("acquireB")
    BY <1>0, <1>4, <1>5, <1>6, <1>12, <2>1, <2>2
    DEF HandoffNames, Fresh, Succeeded
  <2> QED BY <1>4, <1>7, <1>12, <2>3
          DEF Fresh, AAfterB, Owed, Succeeded, HandoffNames
<1>13. CASE j = 8
  <2>1. c.op = "release" /\ c.into = "recoveryReleaseA"
    BY <1>1, <1>2, <1>13
  <2>2. /\ signals' \subseteq signals
        /\ \A n \in HandoffNames \ {"recoveryReleaseA"} :
             results'[n] = results[n]
        /\ \/ mutex' = mutex /\ results'["recoveryReleaseA"] # "S_OK"
           \/ mutex'.owner = NoOwner
    BY <1>4, <1>5, <1>6, <1>13, <2>1 DEF HandoffNames, Fresh
  <2> QED BY <1>4, <1>7, <1>13, <2>2
          DEF Fresh, AAfterB, Owed, Succeeded, HandoffNames
<1>14. j \in {2, 3, 4} \/ j = 6 \/ j = 1 \/ j = 5 \/ j = 7 \/ j = 8
  BY <1>1
<1> QED BY <1>8, <1>9, <1>10, <1>11, <1>12, <1>13, <1>14

\* Thread B: one attempt, and a release if it acquired.
LEMMA StepOfBKeepsHandoff ==
  ASSUME Core, NotStarted, Fresh, AAfterB, Owed, setting.test = "handoff",
         Step("B")
  PROVE  NotStarted' /\ Fresh' /\ AAfterB' /\ Owed'
<1> DEFINE s == HandoffB
           c == Current("B")
           j == at["B"]
<1>0. /\ TypeInv /\ "B" \in {"A", "B"} /\ "B" \in Actor \ {Child}
      /\ "B" # Main /\ Main \in Actor /\ "A" \in Actor
      /\ HandoffNames \subseteq Names
  BY DEF Core, Actor, Main, Child, HandoffNames, Names
<1>1. j \in 1 .. 6 /\ c = s[j]
  BY <1>0, StepMoves, OtherScripts, HandoffBCalls
  DEF TypeInv, IsScript, Current
<1>2. /\ s[1].op = "wait" /\ s[1].into = "acquired" /\ s[1].expect = {"S_OK"}
      /\ s[2].op = "signal" /\ s[2].into = "readyForAcquire"
      /\ s[2].expect = {"S_OK"}
      /\ s[3].op = "signal" /\ s[3].into = "allowRelease"
      /\ s[3].expect = {"S_OK"}
      /\ s[4].op = "acquire" /\ s[4].into = "acquireB" /\ s[4].expect = Result
      /\ s[5].op = "release" /\ s[5].into = "releaseB" /\ s[5].expect = Result
      /\ s[6].op = "signal" /\ s[6].into = "attemptFinished"
      /\ s[6].expect = {"S_OK"}
  BY HandoffBCalls DEF Form
<1> HIDE DEF s, c
<1>3. Goes(c)
  <2>1. j = 1 \/ j = 2 \/ j = 3 \/ j = 4 \/ j = 5 \/ j = 6
    BY <1>1
  <2>2. CASE j \in {4, 5}
    BY <1>1, <1>2, <2>2 DEF Goes
  <2>3. CASE j \in {1, 2, 3, 6}
    BY <1>1, <1>2, <2>3 DEF Goes, Names
  <2> QED BY <2>1, <2>2, <2>3
<1>4. /\ at'["B"] = j + 1 /\ at'["A"] = at["A"] /\ at'[Main] = at[Main]
      /\ c.op \notin {"acquire", "release"} => UNCHANGED <<results, mutex>>
      /\ c.op # "signal" => signals' \subseteq signals
      /\ c.op = "signal" => signals' \subseteq signals \cup {c.into}
      /\ at["A"] \in Nat /\ at["B"] \in Nat
  BY <1>0, <1>3, ThreadStep DEF c, TypeInv
<1>5. \A n \in HandoffNames : results'[n] = results[n] \/ c.into = n
  BY <1>0, ResultsChange DEF c
<1>6. c.op \in {"acquire", "release"} =>
        \/ /\ mutex' = mutex
           /\ \A n \in HandoffNames : results'[n] = "S_OK" => Succeeded(n)
        \/ c.op = "acquire" /\ (c.into \in Names => results'[c.into] = "S_OK")
        \/ c.op = "release" /\ mutex'.owner = NoOwner
  BY <1>0, OwnerChange DEF c
<1>7. /\ NotStarted' /\ "attemptFinished" \notin signals
      /\ ~(at["A"] >= 7 /\ Succeeded("acquireA"))
      /\ ~Succeeded("recoveryAcquireA")
  BY <1>1, <1>4 DEF NotStarted, AAfterB
<1>8. CASE j \in {1, 2, 3}
  <2>1. UNCHANGED <<results, mutex>> /\ "attemptFinished" \notin signals'
    BY <1>1, <1>2, <1>4, <1>7, <1>8
  <2> QED BY <1>4, <1>7, <1>8, <2>1 DEF Fresh, AAfterB, Owed, Succeeded
<1>9. CASE j = 6
  <2>1. UNCHANGED <<results, mutex>> /\ at'["B"] = 7
    BY <1>1, <1>2, <1>4, <1>9
  <2> QED BY <1>4, <1>7, <1>9, <2>1 DEF Fresh, AAfterB, Owed, Succeeded
<1>10. CASE j = 4
  <2>1. c.op = "acquire" /\ c.into = "acquireB"
    BY <1>1, <1>2, <1>10
  <2>2. /\ signals' \subseteq signals
        /\ \A n \in HandoffNames \ {"acquireB"} : results'[n] = results[n]
        /\ mutex' = mutex \/ results'["acquireB"] = "S_OK"
    BY <1>0, <1>4, <1>5, <1>6, <2>1 DEF HandoffNames
  <2> QED BY <1>4, <1>7, <1>10, <2>2
          DEF Fresh, AAfterB, Owed, Succeeded, HandoffNames
<1>11. CASE j = 5
  <2>1. c.op = "release" /\ c.into = "releaseB"
    BY <1>1, <1>2, <1>11
  <2>2. /\ signals' \subseteq signals
        /\ \A n \in HandoffNames \ {"releaseB"} : results'[n] = results[n]
        /\ \/ mutex' = mutex /\ results'["releaseB"] # "S_OK"
           \/ mutex'.owner = NoOwner
    BY <1>4, <1>5, <1>6, <1>11, <2>1 DEF HandoffNames, Fresh
  <2> QED BY <1>4, <1>7, <1>11, <2>2
          DEF Fresh, AAfterB, Owed, Succeeded, HandoffNames
<1>12. j \in {1, 2, 3} \/ j = 6 \/ j = 4 \/ j = 5
  BY <1>1
<1> QED BY <1>8, <1>9, <1>10, <1>11, <1>12

\* What the test has checked of the hand-off when it comes so far.
HandoffChecked ==
  setting.test = "handoff" /\ ~failed =>
    /\ at[Main] >= 5 => Succeeded("releaseA")
    /\ at[Main] >= 7 => (Succeeded("acquireB") => Succeeded("releaseB"))
    /\ at[Main] >= 9 => Succeeded("acquireB") \/ Succeeded("recoveryReleaseA")

\* The test looks at the results when both threads are done.
LEMMA StepOfMainKeepsHandoff ==
  ASSUME Core, NotStarted, Fresh, AAfterB, Owed, HandoffChecked,
         setting.test = "handoff", Step(Main)
  PROVE  NotStarted' /\ Fresh' /\ AAfterB' /\ Owed' /\ HandoffChecked'
<1> DEFINE s == CrossThreadHandoff
           c == Current(Main)
           j == at[Main]
<1>0. /\ TypeInv /\ Main \in Actor \ {Child} /\ Main \in Actor
      /\ "A" \in Actor \ {Main} /\ "B" \in Actor \ {Main}
      /\ {"releaseA", "releaseB", "recoveryReleaseA"} \subseteq Names
  BY DEF Core, Actor, Main, Child, Names
<1>1. j \in 1 .. 8 /\ c = s[j] /\ Len(script[Main]) = 8
  BY <1>0, StepMoves, MainScripts, CrossThreadHandoffCalls
  DEF TypeInv, IsScript, Current
<1>2. /\ s[1] = Do("start") /\ s[2] = Do("join")
      /\ \A k \in 3 .. 8 : s[k].op = "check"
      /\ s[4].into = "releaseA" /\ s[4].expect = {"S_OK"} /\ s[4].when = {}
      /\ s[6].into = "releaseB" /\ s[6].expect = {"S_OK"}
      /\ s[6].when = {Ok("acquireB")}
      /\ s[8].into = "recoveryReleaseA" /\ s[8].expect = {"S_OK"}
      /\ s[8].when = {NotOk("acquireB")}
      /\ s[1].op = "start" /\ s[2].op = "join"
  <2>1. /\ s[3].op = "check" /\ s[4].op = "check" /\ s[5].op = "check"
        /\ s[6].op = "check" /\ s[7].op = "check" /\ s[8].op = "check"
    BY CrossThreadHandoffCalls DEF Form
  <2>2. /\ s[1] = Do("start") /\ s[2] = Do("join")
        /\ s[4].into = "releaseA" /\ s[4].expect = {"S_OK"} /\ s[4].when = {}
        /\ s[6].into = "releaseB" /\ s[6].expect = {"S_OK"}
        /\ s[6].when = {Ok("acquireB")}
        /\ s[8].into = "recoveryReleaseA" /\ s[8].expect = {"S_OK"}
        /\ s[8].when = {NotOk("acquireB")}
    BY CrossThreadHandoffCalls DEF Form
  <2>3. Do("start").op = "start" /\ Do("join").op = "join"
    BY DEF Do, Call
  <2> HIDE DEF s
  <2> QED BY <2>1, <2>2, <2>3
<1> HIDE DEF s, c
<1>3. UNCHANGED <<results, mutex, signals>> /\ UNCHANGED fixed
  <2>1. CASE j \in {1, 2}
    BY <1>0, <1>1, <1>2, <2>1, StartJoinEffect, StepMoves DEF c
  <2>2. CASE j \in 3 .. 8
    BY <1>0, <1>1, <1>2, <2>2, CheckEffect, StepMoves DEF c
  <2> QED BY <1>1, <2>1, <2>2
<1>4. /\ j >= 2 => at'["A"] = at["A"] /\ at'["B"] = at["B"]
      /\ j = 1 => at'["A"] \in {0, 1} /\ at'["B"] \in {0, 1}
      /\ at'[Main] # 1
      /\ at'[Main] = j + 1 \/ failed'
      /\ failed => failed'
  <2>1. /\ at'[Main] = j + 1 \/ at'[Main] = Len(script[Main]) + 1
        /\ at'[Main] = j + 1 \/ failed'
        /\ failed => failed'
    BY <1>0, StepMoves, MainMoves
  <2>2. ~ChildTimesOut(Main)
    <3>1. c.op # "wait-for-child"
      BY <1>1, <1>2
    <3> QED BY <3>1 DEF ChildTimesOut, Calls, c
  <2>3. CASE ~Start(Main)
    <3>1. at'["A"] = at["A"] /\ at'["B"] = at["B"]
      BY <1>0, <2>2, <2>3, StepMoves
    <3> QED BY <1>1, <2>1, <3>1 DEF NotStarted
  <2>4. CASE Start(Main)
    <3>1. c.op = "start"
      BY <2>4 DEF Start, Calls, c
    <3>2. j = 1
      BY <1>1, <1>2, <3>1
    <3>3. at'["A"] = 1 /\ at'["B"] = 1
      BY <1>0, <2>4 DEF Start
    <3> QED BY <1>1, <2>1, <3>2, <3>3
  <2> QED BY <2>3, <2>4
<1>5. NotStarted' /\ Fresh' /\ AAfterB' /\ Owed'
  <2>1. CASE j = 1
    BY <1>3, <1>4, <2>1 DEF NotStarted, Fresh, AAfterB, Owed, Succeeded
  <2>2. CASE j >= 2
    BY <1>3, <1>4, <2>2 DEF NotStarted, Fresh, AAfterB, Owed, Succeeded
  <2> QED BY <1>1, <2>1, <2>2
<1>6. HandoffChecked'
  <2> SUFFICES ASSUME ~failed' PROVE HandoffChecked'
    BY DEF HandoffChecked
  <2>1. at'[Main] = j + 1 /\ ~failed
    BY <1>4
  <2>2. c.op = "check" /\ Applies(Main) => results[c.into] \in c.expect
    BY <1>0, CheckEffect DEF c, Skip, Applies
  <2>3. /\ j = 4 => Succeeded("releaseA")
        /\ j = 6 => (Succeeded("acquireB") => Succeeded("releaseB"))
        /\ j = 8 => Succeeded("acquireB") \/ Succeeded("recoveryReleaseA")
    <3>1. ASSUME j = 4 PROVE Succeeded("releaseA")
      <4>1. c.op = "check" /\ Applies(Main) /\ c.into = "releaseA"
        BY <1>1, <1>2, <3>1 DEF Applies, c
      <4> QED BY <1>1, <1>2, <2>2, <3>1, <4>1 DEF Succeeded
    <3>2. ASSUME j = 6, Succeeded("acquireB") PROVE Succeeded("releaseB")
      <4>1. c.op = "check" /\ c.when = {Ok("acquireB")} /\ c.into = "releaseB"
        BY <1>1, <1>2, <3>2
      <4>2. Applies(Main)
        BY <3>2, <4>1, ConditionsHold DEF Applies, c
      <4> QED BY <1>1, <1>2, <2>2, <3>2, <4>1, <4>2 DEF Succeeded
    <3>3. ASSUME j = 8, ~Succeeded("acquireB")
          PROVE  Succeeded("recoveryReleaseA")
      <4>1. /\ c.op = "check" /\ c.when = {NotOk("acquireB")}
            /\ c.into = "recoveryReleaseA"
        BY <1>1, <1>2, <3>3
      <4>2. Applies(Main)
        BY <3>3, <4>1, ConditionsHold DEF Applies, c
      <4> QED BY <1>1, <1>2, <2>2, <3>3, <4>1, <4>2 DEF Succeeded
    <3> QED BY <3>1, <3>2, <3>3
  <2> QED BY <1>1, <1>3, <2>1, <2>3 DEF HandoffChecked, Succeeded
<1> QED BY <1>5, <1>6

\* Whoever takes the step.
LEMMA StepKeepsHandoff ==
  ASSUME Core, HandoffInv, HandoffChecked, NEW a \in Actor, Step(a)
  PROVE  HandoffInv' /\ HandoffChecked'
<1>0. /\ setting' = setting /\ script = Script[setting.test] /\ TypeInv
      /\ Main \in Actor
  BY StepMoves DEF Core, TypeInv, fixed, Actor
<1> SUFFICES ASSUME setting.test = "handoff"
             PROVE  HandoffInv' /\ HandoffChecked'
  BY <1>0 DEF HandoffInv, HandoffChecked
<1>1. CASE a = Main
  BY <1>1, StepOfMainKeepsHandoff DEF HandoffInv
<1>2. CASE a \in {"A", "B"}
  <2>1. HandoffInv'
    BY <1>2, StepOfAKeepsHandoff, StepOfBKeepsHandoff DEF HandoffInv
  <2>2. /\ at'[Main] = at[Main] /\ (failed => failed') /\ ~OthersOver
        /\ at[Main] \in Nat
    <3>1. a # Main
      BY <1>2 DEF Main
    <3> QED BY <1>0, <3>1, StepMoves, Shape DEF OthersOver, Over, TypeInv
  <2>3. at[Main] < 3 \/ failed
    BY <1>0, <2>2, Joined DEF Threaded
  <2>4. HandoffChecked'
    BY <2>2, <2>3 DEF HandoffChecked
  <2> QED BY <2>1, <2>4
<1>3. CASE a = Child
  BY <1>0, <1>3, StepMoves, EmptyScripts DEF Threaded
<1> QED BY <1>1, <1>2, <1>3 DEF Actor

-----------------------------------------------------------------------------
(* A test that passes has given the resource back.                         *)

\* All that is needed at the end of a test.
BackInv ==
  /\ Core
  /\ ReleasedAtEnd /\ MigrationInv /\ HandoffInv /\ HandoffChecked

\* It holds when a test starts.
LEMMA InitBack ==
  ASSUME Init
  PROVE  BackInv
<1>0. Core /\ TypeInv
  BY InitCore DEF Core
<1>1. Main \in Actor /\ "A" \in Actor \ {Main} /\ "B" \in Actor \ {Main}
  BY DEF Actor, Main
<1>2. at[Main] = 1 /\ at["A"] = 0 /\ at["B"] = 0
  BY <1>1 DEF Init
<1>3. /\ \A n \in Names : ~Succeeded(n)
      /\ HandoffNames \cup {"releaseAfter"} \subseteq Names
  BY DEF Init, Succeeded, HandoffNames, Names
<1>4. ~Ended
  <2>1. Len(script[Main]) >= 1
    BY <1>0, <1>1, EmptyScripts, TestKinds, Shape, ThreadedMain, TestsDiscard,
       ReleasesLast
    DEF TypeInv, IsScript, Threaded
  <2> QED BY <1>0, <1>1, <1>2, <2>1, Shape DEF Ended, Over
<1>5. signals = {} /\ mutex.owner = NoOwner
  BY DEF Init, FreshMutex
<1> QED BY <1>0, <1>2, <1>3, <1>4, <1>5
        DEF BackInv, ReleasedAtEnd, MigrationInv, HandoffInv, HandoffChecked,
            NotStarted, Fresh, AAfterB, Owed, Passed, HandoffNames

\* No step breaks it.
LEMMA NextKeepsBack ==
  ASSUME BackInv, [Next]_vars
  PROVE  BackInv'
<1>1. CASE \E a \in Actor : Step(a)
  BY <1>1, StepKeepsCore, StepKeepsReleased, StepKeepsMigration,
     StepKeepsHandoff DEF BackInv
<1>2. CASE /\ ReuseHandleValue \/ UNCHANGED vars
           /\ UNCHANGED <<setting, script, at, results, failed, signals, active,
                          overlap, mutex, texture, refs>>
  <2>1. Core'
    BY <1>2, IdleKeepsCore DEF BackInv
  <2>2. Passed <=> Passed'
    BY <1>2 DEF Passed, Ended, Over
  <2> QED BY <1>2, <2>1, <2>2
          DEF BackInv, ReleasedAtEnd, MigrationInv, HandoffInv, HandoffChecked,
              NotStarted, Fresh, AAfterB, Owed, Succeeded
<1> QED BY <1>1, <1>2, NextForms

\* By the test: the last call was a release, or the results say that every
\* acquisition was released.
LEMMA BackMeansGivenBack ==
  ASSUME BackInv
  PROVE  PassMeansGivenBack
<1> SUFFICES ASSUME Passed
             PROVE  OthersOver /\ mutex.owner = NoOwner /\ ~mutex.abandoned
  BY DEF PassMeansGivenBack
<1>0. /\ TypeInv /\ Core /\ script = Script[setting.test] /\ Main \in Actor
      /\ setting.test \in Test /\ Ended /\ ~failed
  BY Shape DEF BackInv, Core, TypeInv, Actor, Passed
<1>1. /\ at[Main] \in Nat /\ at[Main] = Len(script[Main]) + 1
      /\ Len(script[Main]) \in Nat
  BY <1>0, Shape DEF Ended, Over, TypeInv
<1>2. OthersOver
  <2>1. CASE setting.test \in Alone
    BY <1>0, <2>1, AloneOthersOver
  <2>2. CASE setting.test \in Threaded \cup WithChild
    <3>1. WaitFollowsStart(script[Main])
      BY <1>0, <2>2, TestsWait
    <3>2. ~Waiting
      BY <1>1, <3>1 DEF Waiting, WaitFollowsStart
    <3> QED BY <1>0, <3>2 DEF Core, NobodyLeft
  <2> QED BY <1>0, <2>1, <2>2, TestKinds
<1>3. ~mutex.abandoned
  <2> SUFFICES ASSUME mutex.abandoned PROVE FALSE
    OBVIOUS
  <2>1. setting.test \in WithChild /\ at[Main] <= DiscardAt(setting.test)
    BY <1>0 DEF Core, AbandonInv
  <2> QED BY <1>0, <1>1, <2>1, TestsDiscard
<1>4. mutex.owner = NoOwner
  <2>1. CASE setting.test \notin {"handoff", "migration"}
    BY <2>1 DEF BackInv, ReleasedAtEnd
  <2>2. CASE setting.test = "migration"
    <3>1. Len(script[Main]) = 10
      BY <1>0, <2>2, MainScripts, OwnershipMigrationCalls DEF IsScript
    <3> QED BY <1>0, <1>1, <2>2, <3>1 DEF BackInv, MigrationInv
  <2>3. CASE setting.test = "handoff"
    <3>1. Len(script[Main]) = 8
      BY <1>0, <2>3, MainScripts, CrossThreadHandoffCalls DEF IsScript
    <3>2. at[Main] = 9 /\ HandoffChecked
      BY <1>1, <3>1 DEF BackInv
    <3>3. /\ Succeeded("releaseA")
          /\ Succeeded("acquireB") => Succeeded("releaseB")
          /\ Succeeded("acquireB") \/ Succeeded("recoveryReleaseA")
      BY <1>0, <2>3, <3>2 DEF HandoffChecked
    <3> QED BY <2>3, <3>3 DEF BackInv, HandoffInv, AAfterB, Owed
  <2> QED BY <2>1, <2>2, <2>3
<1> QED BY <1>2, <1>3, <1>4

\* A test that passes has joined its threads, waited for its child and released
\* what it acquired: whatever the time-out, the number of iterations and the
\* failure injected, no passing test leaves the keyed mutex owned or abandoned.
THEOREM PassMeansGivenBackAlways == Spec => []PassMeansGivenBack
<1>1. BackInv /\ [Next]_vars => BackInv'
  BY NextKeepsBack
<1>2. BackInv => PassMeansGivenBack
  BY BackMeansGivenBack
<1> QED BY InitBack, <1>1, <1>2, PTL DEF Spec

-----------------------------------------------------------------------------
(* What a test is there to notice makes one of its calls return what the   *)
(* test does not accept: the trip wire.                                    *)

\* The call at which each test notices each driver.
Wire ==
  CASE Driver = "ignores-keys" -> 1
    [] Driver = "forgets-keys" -> 6
    [] Driver = "anyone-releases" -> 7
    [] Driver = "forgets-the-dead" ->
         IF setting.test = "abandonment" THEN 6 ELSE 3
    [] Driver = "abandons-the-released" -> 3
    [] Driver = "ignores-owner" -> 5
    [] Driver = "dies-with-handle" -> 2
    [] Driver = "dies-with-creator" -> 7
    [] Driver = "outlives-references" -> 8

\* The test is there to notice this driver, and no call of it fails.
OnTheWatch(driver) ==
  Driver = driver /\ driver \in Notices /\ ~setting.callsFail

\* Past the wire a test that is there to notice the driver has failed.
Tripped ==
  \A driver \in Deviation : OnTheWatch(driver) /\ at[Main] > Wire => failed

\* What a test watches for does not change.
LEMMA StillOnTheWatch ==
  ASSUME setting' = setting, NEW driver
  PROVE  /\ OnTheWatch(driver)' <=> OnTheWatch(driver)
         /\ Wire' = Wire
BY DEF OnTheWatch, Notices, Driver, Wire

\* Which tests watch for which driver.
LEMMA Watches ==
  ASSUME TypeInv
  PROVE  /\ OnTheWatch("ignores-keys") \/ OnTheWatch("forgets-keys")
              \/ OnTheWatch("anyone-releases") =>
                setting.test = "key-state-machine"
         /\ OnTheWatch("forgets-the-dead") =>
              setting.test \in {"abandonment", "after-acquire", "after-write",
                                "after-flush"}
         /\ OnTheWatch("abandons-the-released") =>
              setting.test \in {"before-acquire", "after-release"}
         /\ OnTheWatch("ignores-owner") => setting.test = "concurrent-acquire"
         /\ OnTheWatch("dies-with-handle") => setting.test = "handle-closed"
         /\ OnTheWatch("dies-with-creator") =>
              setting.test = "creator-destroyed"
         /\ OnTheWatch("outlives-references") => setting.test = "last-reference"
         /\ Driver \in Notices => Driver \in Deviation
<1>1. CASE setting.test = "key-state-machine"
  BY <1>1 DEF OnTheWatch, Notices, Deviation
<1>2. CASE setting.test \in {"abandonment", "after-acquire", "after-write",
                             "after-flush"}
  BY <1>2 DEF OnTheWatch, Notices, Deviation
<1>3. CASE setting.test \in {"before-acquire", "after-release"}
  BY <1>3 DEF OnTheWatch, Notices, Deviation
<1>4. CASE setting.test = "concurrent-acquire"
  BY <1>4 DEF OnTheWatch, Notices, Deviation
<1>5. CASE setting.test = "handle-closed"
  BY <1>5 DEF OnTheWatch, Notices, Deviation
<1>6. CASE setting.test = "creator-destroyed"
  BY <1>6 DEF OnTheWatch, Notices, Deviation
<1>7. CASE setting.test = "last-reference"
  BY <1>7 DEF OnTheWatch, Notices, Deviation
<1>8. CASE setting.test \in {"handoff", "migration", "identity", "cross-release"}
  BY <1>8 DEF OnTheWatch, Notices, Deviation
<1> QED BY <1>1, <1>2, <1>3, <1>4, <1>5, <1>6, <1>7, <1>8, Shape
        DEF Test, Phase

\* A wire that fails the test when Main passes it stays behind a failed test.
LEMMA TripWire ==
  ASSUME TypeInv, NEW a \in Actor, Step(a), NEW w \in Nat,
         at[Main] > w => failed,
         a = Main /\ at[Main] = w => failed'
  PROVE  at'[Main] > w => failed'
<1>0. Main \in Actor /\ at[Main] \in Nat
  BY DEF Actor, TypeInv
<1>1. CASE a # Main
  BY <1>0, <1>1, StepMoves
<1>2. CASE a = Main
  <2>1. Step(Main)
    BY <1>2
  <2>2. (at'[Main] = at[Main] + 1 \/ failed') /\ (failed => failed')
    BY <1>0, <2>1, StepMoves, MainMoves
  <2> QED BY <1>0, <1>2, <2>2
<1> QED BY <1>1, <1>2

\* An unexpected result fails the test.
LEMMA UnexpectedFails ==
  ASSUME NEW r, Judge(Main, r), r \notin Current(Main).expect
  PROVE  failed'
BY DEF Judge, Unexpected, Main, Child

\* When AcquireSync returns S_OK, and when nothing else.
LEMMA AcquireJudged ==
  ASSUME NEW a \in Actor, AcquireSync(a), ~setting.callsFail
  PROVE  LET c == Current(a) IN
         \E r \in Result :
           /\ Judge(a, r)
           /\ r = "S_OK" => Alive /\ Free(c.key)
           /\ Alive /\ ~Rejected(c.by) /\ Free(c.key) => r = "S_OK"
           /\ r = "WAIT_ABANDONED" => mutex.abandoned
           /\ r # "E_FAIL" => Alive
<1>1. \A k : Free(k) => ~mutex.abandoned
  BY DEF Free, CanAcquire
<1> DEFINE c == Current(a)
           Right(r) ==
             /\ Judge(a, r)
             /\ r = "S_OK" => Alive /\ Free(c.key)
             /\ Alive /\ ~Rejected(c.by) /\ Free(c.key) => r = "S_OK"
             /\ r = "WAIT_ABANDONED" => mutex.abandoned
             /\ r # "E_FAIL" => Alive
<1>2. CASE Alive /\ Free(c.key) /\ Judge(a, "S_OK")
  <2>1. Right("S_OK")
    BY <1>2
  <2> QED BY <2>1 DEF Result
<1>3. CASE Blocked(a) /\ Judge(a, "WAIT_TIMEOUT")
  <2>1. Alive /\ ~Free(c.key)
    BY <1>3 DEF Blocked, AcquireSync, Calls
  <2>2. Right("WAIT_TIMEOUT")
    BY <1>3, <2>1
  <2> QED BY <2>2 DEF Result
<1>4. CASE Alive /\ mutex.abandoned /\ Judge(a, "WAIT_ABANDONED")
  <2>1. Right("WAIT_ABANDONED")
    BY <1>1, <1>4
  <2> QED BY <2>1 DEF Result
<1>5. CASE Alive /\ Rejected(c.by) /\ Judge(a, "INVALID_CALL")
  <2>1. Right("INVALID_CALL")
    BY <1>5
  <2> QED BY <2>1 DEF Result
<1>6. CASE ~Alive /\ Judge(a, "E_FAIL")
  <2>1. Right("E_FAIL")
    BY <1>6
  <2> QED BY <2>1 DEF Result
<1> QED BY <1>2, <1>3, <1>4, <1>5, <1>6 DEF AcquireSync

LEMMA ReleaseJudged ==
  ASSUME NEW a \in Actor, ReleaseSync(a), ~setting.callsFail
  PROVE  \E r \in Result :
           /\ Judge(a, r)
           /\ r = "S_OK" => Alive /\ MayRelease(Current(a).by)
           /\ Alive /\ MayRelease(Current(a).by) => r = "S_OK"
BY DEF ReleaseSync, Result

\* Only these calls change what keeps the resource alive.
LEMMA RefsChange ==
  ASSUME NEW a \in Actor, Step(a)
  PROVE  \/ refs' = refs
         \/ Current(a).op = "close-handle" /\ refs' = refs \ {"handle"}
         \/ Current(a).op = "drop" /\ refs' = refs \ {Current(a).into}
         \/ Current(a).op = "create" /\ refs' = References
<1>1. CASE AcquireSync(a) \/ ReleaseSync(a) \/ Skip(a)
  BY <1>1 DEF AcquireSync, ReleaseSync, Skip, resource
<1>2. CASE Update(a) \/ Flush(a) \/ Read(a) \/ Throw(a)
  BY <1>2 DEF Update, Flush, Read, Throw, resource
<1>3. CASE Start(a) \/ Join(a) \/ ChildExited(a) \/ ChildTimesOut(a)
           \/ ChildWaitFails(a)
  BY <1>3 DEF Start, Join, ChildExited, ChildTimesOut, ChildWaitFails, resource
<1>4. CASE SignalOther(a) \/ WaitForOther(a) \/ Enter(a) \/ LeaveOwner(a)
  BY <1>4 DEF SignalOther, WaitForOther, Enter, LeaveOwner, resource
<1>5. CASE CheckResult(a) \/ CheckOwners(a) \/ SetUp(a) \/ Terminate(a)
  BY <1>5 DEF CheckResult, CheckOwners, SetUp, Terminate, resource
<1>6. CASE CloseHandle(a) \/ DropReference(a) \/ Reopen(a) \/ CreateFresh(a)
  BY <1>6 DEF CloseHandle, DropReference, Reopen, CreateFresh, Calls, resource
<1> QED BY <1>1, <1>2, <1>3, <1>4, <1>5, <1>6 DEF Step

\* Which key a step can leave.
LEMMA KeyChange ==
  ASSUME TypeInv, NEW a \in Actor, Step(a)
  PROVE  \/ mutex'.key = mutex.key
         \/ mutex'.key = 0
         \/ /\ Current(a).op = "release" /\ Driver # "forgets-keys"
            /\ mutex'.key = Current(a).key
<1>1. PICK m :
        /\ \/ m = mutex
           \/ \E i : m = AcquiredBy(mutex, i)
           \/ /\ ReleaseSync(a)
              /\ m = ReleasedWith(mutex, IF Driver = "forgets-keys"
                                         THEN 0 ELSE Current(a).key)
           \/ m = FreshMutex
        /\ mutex' \in {m, AfterDeath(m)}
  BY MutexEffects
<1>2. IsMutex(mutex) /\ FreshMutex.key = 0
  BY DEF TypeInv, FreshMutex
<1>3. IsMutex(m)
  BY <1>1, <1>2, Mutated
<1>4. mutex'.key = m.key
  BY <1>1, <1>3, Mutated
<1>5. \/ m.key = mutex.key \/ m.key = 0
      \/ ReleaseSync(a) /\ Driver # "forgets-keys" /\ m.key = Current(a).key
  BY <1>1, <1>2, Mutated
<1> QED BY <1>4, <1>5 DEF ReleaseSync, Calls

-----------------------------------------------------------------------------
(* The tests of one actor.                                                 *)

\* In a single-threaded test every step is the first thread's.
LEMMA AloneMoves ==
  ASSUME TypeInv, setting.test \in Alone, NEW a \in Actor, Step(a)
  PROVE  a = Main
BY EmptyScripts, StepMoves DEF TypeInv

\* What leads up to the wires: the key a driver forgets is the one of a new
\* resource, nothing is dropped where the test drops nothing, and what it
\* closes or drops is gone.
AloneClues ==
  /\ OnTheWatch("forgets-keys") => mutex.key = 0
  /\ setting.test = "key-state-machine" => refs = References
  /\ setting.test = "handle-closed" /\ at[Main] = 2 => "handle" \notin refs
  /\ setting.test = "creator-destroyed" /\ at[Main] = 7 => "creator" \notin refs

\* Every step keeps that.
LEMMA StepKeepsAloneClues ==
  ASSUME TypeInv, AloneClues, NEW a \in Actor, Step(a)
  PROVE  AloneClues'
<1>0. /\ setting' = setting /\ script' = script /\ Main \in Actor
      /\ script = Script[setting.test]
  BY StepMoves DEF fixed, Actor, TypeInv
<1>1. OnTheWatch("forgets-keys") => mutex'.key = 0
  BY KeyChange DEF AloneClues, OnTheWatch
<1>2. setting.test = "key-state-machine" => refs' = refs
  <2> SUFFICES ASSUME setting.test = "key-state-machine" PROVE refs' = refs
    OBVIOUS
  <2>1. a = Main
    BY AloneMoves DEF Alone
  <2>2. Current(Main).op \in {"acquire", "release"}
    BY <1>0, <2>1, StepMoves, MainScripts, KeyStateMachineCalls
    DEF IsScript, Current
  <2> QED BY <2>1, <2>2, RefsChange
<1>3. ASSUME setting.test = "handle-closed", at'[Main] = 2
      PROVE  "handle" \notin refs'
  <2>1. a = Main
    BY <1>3, AloneMoves DEF Alone
  <2>2. at[Main] = 1 /\ at[Main] \in 1 .. 10
    BY <1>0, <1>3, <2>1, StepMoves, MainScripts, HandleClosedCalls DEF IsScript
  <2>3. Current(Main).op = "close-handle" /\ Current(Main).when = {}
    BY <1>0, <1>3, <2>2, MainScripts, HandleClosedCalls DEF Form, Current
  <2>4. CloseHandle(Main)
    BY <2>1, <2>3, OpDecides DEF Skip
  <2> QED BY <2>4 DEF CloseHandle
<1>4. ASSUME setting.test = "creator-destroyed", at'[Main] = 7
      PROVE  "creator" \notin refs'
  <2>1. a = Main
    BY <1>4, AloneMoves DEF Alone
  <2>2. at[Main] = 6 /\ at[Main] \in 1 .. 9
    <3>1. Len(script[Main]) = 9
      BY <1>0, <1>4, MainScripts, CreatorDestroyedCalls DEF IsScript
    <3>2. /\ at[Main] \in 1 .. Len(script[Main])
          /\ \/ at'[Main] = at[Main] + 1
             \/ at'[Main] = Len(script[Main]) + 1
      BY <2>1, StepMoves
    <3> QED BY <1>4, <3>1, <3>2
  <2>3. /\ Current(Main).op = "drop" /\ Current(Main).when = {}
        /\ Current(Main).into = "creator"
    BY <1>0, <1>4, <2>2, MainScripts, CreatorDestroyedCalls DEF Form, Current
  <2>4. DropReference(Main)
    BY <2>1, <2>3, OpDecides DEF Skip
  <2> QED BY <2>3, <2>4 DEF DropReference
<1>5. OnTheWatch("forgets-keys")' <=> OnTheWatch("forgets-keys")
  BY <1>0, StillOnTheWatch
<1> QED BY <1>0, <1>1, <1>2, <1>3, <1>4, <1>5 DEF AloneClues

\* The key state machine of 02 notices a driver that ignores keys, that
\* forgets them, or that lets anyone release.
LEMMA KeyStateMachineTrips ==
  ASSUME Core, AloneClues, Step(Main), at[Main] = Wire,
         OnTheWatch("ignores-keys") \/ OnTheWatch("forgets-keys")
           \/ OnTheWatch("anyone-releases")
  PROVE  failed'
<1> DEFINE s == KeyStateMachine
           c == Current(Main)
<1>0. /\ TypeInv /\ Main \in Actor /\ setting.test = "key-state-machine"
      /\ script[Main] = s /\ ~setting.callsFail /\ refs = References
  BY Watches, MainScripts DEF Core, Actor, TypeInv, OnTheWatch, AloneClues
<1>1. Alive
  BY <1>0 DEF Alive, References, OnTheWatch
<1>2. CASE OnTheWatch("ignores-keys")
  <2>1. Driver = "ignores-keys" /\ at[Main] = 1 /\ c = s[1]
    BY <1>0, <1>2 DEF OnTheWatch, Wire, Current
  <2>2. /\ c.op = "acquire" /\ c.expect = {"WAIT_TIMEOUT"} /\ c.when = {}
        /\ c.by = Second
    BY <2>1, KeyStateMachineCalls DEF Form
  <2>3. AcquireSync(Main)
    BY <1>0, <2>2, OpDecides DEF Skip
  <2>4. Free(c.key) /\ ~Rejected(c.by)
    BY <2>1, <2>2
    DEF Core, FirstInv, FreshMutex, Free, Rejected, Second, FirstFromB
  <2>5. Judge(Main, "S_OK")
    BY <1>0, <1>1, <2>3, <2>4, AcquireJudged
  <2> QED BY <2>2, <2>5, UnexpectedFails
<1>3. CASE OnTheWatch("forgets-keys")
  <2>1. Driver = "forgets-keys" /\ at[Main] = 6 /\ c = s[6]
    BY <1>0, <1>3 DEF OnTheWatch, Wire, Current
  <2>2. /\ c.op = "acquire" /\ c.expect = {"S_OK"} /\ c.when = {}
        /\ c.key = 42
    BY <2>1, KeyStateMachineCalls DEF Form
  <2>3. AcquireSync(Main)
    BY <1>0, <2>2, OpDecides DEF Skip
  <2>4. ~Free(c.key)
    BY <1>3, <2>1, <2>2 DEF AloneClues, Free, CanAcquire
  <2>5. PICK r \in Result : Judge(Main, r) /\ r # "S_OK"
    BY <1>0, <2>3, <2>4, AcquireJudged
  <2> QED BY <2>2, <2>5, UnexpectedFails
<1>4. CASE OnTheWatch("anyone-releases")
  <2>1. Driver = "anyone-releases" /\ at[Main] = 7 /\ c = s[7]
    BY <1>0, <1>4 DEF OnTheWatch, Wire, Current
  <2>2. c.op = "release" /\ c.expect = Failure /\ c.when = {}
    BY <2>1, KeyStateMachineCalls DEF Form
  <2>3. ReleaseSync(Main)
    BY <1>0, <2>2, OpDecides DEF Skip
  <2>4. MayRelease(c.by)
    BY <2>1 DEF MayRelease
  <2>5. Judge(Main, "S_OK")
    BY <1>0, <1>1, <2>3, <2>4, ReleaseJudged
  <2>6. "S_OK" \notin Failure
    BY DEF Failure
  <2> QED BY <2>2, <2>5, <2>6, UnexpectedFails
<1> QED BY <1>2, <1>3, <1>4

\* The lifetime tests notice a resource that dies too early or too late.
LEMMA LifetimeTrips ==
  ASSUME Core, AloneClues, Step(Main), at[Main] = Wire,
         OnTheWatch("dies-with-handle") \/ OnTheWatch("dies-with-creator")
           \/ OnTheWatch("outlives-references")
  PROVE  failed'
<1> DEFINE c == Current(Main)
<1>0. TypeInv /\ Main \in Actor /\ ~setting.callsFail
  BY DEF Core, Actor, OnTheWatch
<1>1. CASE OnTheWatch("dies-with-handle")
  <2>1. Driver = "dies-with-handle" /\ at[Main] = 2 /\ c = HandleClosed[2]
    BY <1>0, <1>1, Watches, MainScripts DEF OnTheWatch, Wire, Current, TypeInv
  <2>2. c.op = "acquire" /\ c.expect = {"S_OK"} /\ c.when = {}
    BY <2>1, HandleClosedCalls DEF Form
  <2>3. AcquireSync(Main)
    BY <1>0, <2>2, OpDecides DEF Skip
  <2>4. ~Alive
    BY <1>0, <1>1, <2>1, Watches DEF AloneClues, Alive
  <2>5. PICK r \in Result : Judge(Main, r) /\ r # "S_OK"
    BY <1>0, <2>3, <2>4, AcquireJudged
  <2> QED BY <2>2, <2>5, UnexpectedFails
<1>2. CASE OnTheWatch("dies-with-creator")
  <2>1. Driver = "dies-with-creator" /\ at[Main] = 7 /\ c = CreatorDestroyed[7]
    BY <1>0, <1>2, Watches, MainScripts DEF OnTheWatch, Wire, Current, TypeInv
  <2>2. c.op = "acquire" /\ c.expect = {"S_OK"} /\ c.when = {}
    BY <2>1, CreatorDestroyedCalls DEF Form
  <2>3. AcquireSync(Main)
    BY <1>0, <2>2, OpDecides DEF Skip
  <2>4. ~Alive
    BY <1>0, <1>2, <2>1, Watches DEF AloneClues, Alive
  <2>5. PICK r \in Result : Judge(Main, r) /\ r # "S_OK"
    BY <1>0, <2>3, <2>4, AcquireJudged
  <2> QED BY <2>2, <2>5, UnexpectedFails
<1>3. CASE OnTheWatch("outlives-references")
  <2>1. /\ Driver = "outlives-references" /\ at[Main] = 8
        /\ c = LastReference[8]
    BY <1>0, <1>3, Watches, MainScripts DEF OnTheWatch, Wire, Current, TypeInv
  <2>2. c.op = "reopen" /\ c.expect = Failure /\ c.when = {}
    BY <2>1, LastReferenceCalls DEF Form
  <2>3. Reopen(Main)
    BY <1>0, <2>2, OpDecides DEF Skip
  <2>4. Judge(Main, "S_OK")
    BY <2>1, <2>3 DEF Reopen
  <2>5. "S_OK" \notin Failure
    BY DEF Failure
  <2> QED BY <2>2, <2>4, <2>5, UnexpectedFails
<1> QED BY <1>1, <1>2, <1>3

-----------------------------------------------------------------------------
(* The tests with a child.                                                 *)

\* A driver that forgets the dead abandons nothing, so nobody is told.
NeverAbandoned ==
  OnTheWatch("forgets-the-dead") =>
    ~mutex.abandoned /\ \A n \in Names : results[n] # "WAIT_ABANDONED"

\* Every step keeps that.
LEMMA StepKeepsNeverAbandoned ==
  ASSUME TypeInv, NeverAbandoned, NEW a \in Actor, Step(a)
  PROVE  NeverAbandoned'
<1>0. setting' = setting
  BY StepMoves DEF fixed
<1>1. OnTheWatch("forgets-the-dead")' <=> OnTheWatch("forgets-the-dead")
  BY <1>0, StillOnTheWatch
<1> SUFFICES ASSUME OnTheWatch("forgets-the-dead") PROVE NeverAbandoned'
  BY <1>1 DEF NeverAbandoned
<1>2. ~mutex'.abandoned
  <2>1. PICK m :
          /\ \/ m = mutex
             \/ \E i : m = AcquiredBy(mutex, i)
             \/ \E k : m = ReleasedWith(mutex, k)
             \/ m = FreshMutex
          /\ mutex' \in {m, AfterDeath(m)}
    BY MutexEffects
  <2>2. IsMutex(mutex) /\ ~FreshMutex.abandoned
    BY DEF TypeInv, FreshMutex
  <2>3. IsMutex(m) /\ ~m.abandoned
    BY <2>1, <2>2, Mutated DEF NeverAbandoned
  <2>4. ~AfterDeath(m).abandoned
    <3>1. CASE m.owner = InChild
      BY <2>3, <3>1 DEF AfterDeath, IsMutex, OnTheWatch
    <3>2. CASE m.owner # InChild
      BY <2>3, <3>2 DEF AfterDeath, IsMutex, OnTheWatch
    <3> QED BY <3>1, <3>2
  <2> QED BY <2>1, <2>3, <2>4
<1>3. results' \in [Names -> Result \ {"WAIT_ABANDONED"}]
  <2>1. results \in [Names -> Result \ {"WAIT_ABANDONED"}]
    BY DEF TypeInv, NeverAbandoned
  <2>2. {"S_OK", "WAIT_TIMEOUT", "INVALID_CALL", "E_FAIL", "E_UNEXPECTED"}
          \subseteq Result \ {"WAIT_ABANDONED"}
    BY DEF Result
  <2> HIDE DEF NeverAbandoned
  <2> QED BY <2>1, <2>2, StepKeepsResults DEF NeverAbandoned
<1> QED BY <1>2, <1>3 DEF NeverAbandoned

\* A survivor that is not told of the death gets a result it does not accept.
LEMMA ForgottenDeathTrips ==
  ASSUME TypeInv, NeverAbandoned, Step(Main), at[Main] = Wire,
         OnTheWatch("forgets-the-dead")
  PROVE  failed'
<1> DEFINE c == Current(Main)
<1>0. /\ Main \in Actor \ {Child} /\ ~setting.callsFail /\ ~mutex.abandoned
      /\ \A n \in Names : results[n] # "WAIT_ABANDONED"
      /\ script = Script[setting.test]
  BY DEF Actor, Main, Child, OnTheWatch, NeverAbandoned, TypeInv
<1>1. CASE setting.test = "abandonment"
  <2>1. c = OwnerAbandonment[6]
    BY <1>0, <1>1, MainScripts DEF OnTheWatch, Wire, Current
  <2>2. c = AbandonmentRound[6]
    <3>1. InRound(6) = 6
      BY DEF InRound
    <3>2. 6 \in 1 .. 6 * Iterations
      BY OwnerAbandonmentCalls
    <3> QED BY <2>1, <3>1, <3>2, OwnerAbandonmentCalls
  <2>3. /\ c.op = "check" /\ c.into = "acquire" /\ c.when = {}
        /\ c.expect = {"WAIT_ABANDONED"}
    BY <2>2, AbandonmentRoundCalls DEF Form
  <2>4. "acquire" \in Names /\ ~Skip(Main)
    BY <2>3 DEF Names, Skip
  <2> HIDE DEF c
  <2> QED BY <1>0, <2>3, <2>4, CheckEffect DEF c
<1>2. CASE setting.test # "abandonment"
  <2>0. setting.test \in {"after-acquire", "after-write", "after-flush"}
    BY <1>2, Watches
  <2>1. c = FailureInjection(setting.test)[3]
    BY <1>0, <2>0, MainScripts DEF OnTheWatch, Wire, Current, Phase
  <2>2. c.op = "acquire" /\ c.when = {} /\ c.expect = {"WAIT_ABANDONED"}
    BY <2>0, <2>1, FailureInjectionCalls DEF Form, Phase
  <2>3. AcquireSync(Main)
    BY <1>0, <2>2, OpDecides DEF Skip
  <2>4. PICK r \in Result : Judge(Main, r) /\ r # "WAIT_ABANDONED"
    BY <1>0, <2>3, AcquireJudged
  <2> QED BY <2>2, <2>4, UnexpectedFails
<1> QED BY <1>1, <1>2

\* A driver that takes every dead process for an owner: when the child that
\* owns nothing has exited as it should, the mutex is abandoned, and it still is
\* when the test acquires.
ReleasedClues ==
  OnTheWatch("abandons-the-released") =>
    /\ at[Main] = 2 => at[Child] >= 1
    /\ setting.test = "before-acquire" /\ at[Main] <= 2 =>
         mutex.owner = NoOwner
    /\ at[Main] = 2 /\ Over(Child) /\ Succeeded("exit") => mutex.abandoned
    /\ at[Main] = 3 /\ ~failed => mutex.abandoned

\* The child returned from its last call, with exit code 0 or another one.
LEMMA ChildEnds ==
  ASSUME TypeInv, NEW r, Judge(Child, r), ~Over(Child),
         Current(Child).into = "exit", Current(Child).expect = {"S_OK"}
  PROVE  /\ results'["exit"] = r
         /\ r = "S_OK" => at'[Child] = at[Child] + 1
<1>1. Child \in Actor /\ "exit" \in Names
  BY DEF Actor, Names
<1>2. at[Child] \in 1 .. Len(script[Child])
  BY <1>1, Shape DEF Over
<1> QED BY <1>1, <1>2 DEF Judge, Unexpected, TypeInv

\* What the child is killed or ends with.
LEMMA DeathAbandons ==
  ASSUME NEW m, IsMutex(m), m.owner # InChild,
         OnTheWatch("abandons-the-released")
  PROVE  AfterDeath(m).abandoned /\ AfterDeath(m).owner = m.owner
BY DEF AfterDeath, IsMutex, OnTheWatch

\* Steps of the child, of Main, and of whoever.
LEMMA ChildKeepsReleasedClues ==
  ASSUME Core, ReleasedClues, Step(Child), OnTheWatch("abandons-the-released")
  PROVE  ReleasedClues'
<1> DEFINE c == Current(Child)
<1>0. /\ TypeInv /\ Child \in Actor /\ Main \in Actor /\ Child # Main
      /\ setting.test \in {"before-acquire", "after-release"}
      /\ setting.test \in WithChild /\ setting.test \in Phase
      /\ ~setting.callsFail /\ script = Script[setting.test]
      /\ setting' = setting /\ script' = script
  BY Watches, StepMoves
  DEF Core, Actor, Main, Child, OnTheWatch, TypeInv, WithChild, Phase, fixed
<1>1. /\ at[Child] \in 1 .. Len(script[Child]) /\ ~Over(Child)
      /\ at'[Main] = at[Main] /\ (failed => failed')
      /\ at'[Child] \in Nat /\ at'[Child] >= 1
  BY <1>0, StepMoves, Shape DEF Over
<1>2. ~mutex.abandoned /\ IsMutex(mutex)
  BY <1>0, <1>1 DEF Core, AbandonInv, OthersOver, TypeInv
<1>3. CASE setting.test = "before-acquire"
  <2>0. script[Child] = FailingChild("before-acquire")
    BY <1>0, <1>3, OtherScripts
  <2>10. Len(script[Child]) = 2 /\ DOMAIN script[Child] = 1 .. 2
    BY <2>0, FailingChildCalls DEF IsScript
  <2>11. at[Child] \in 1 .. 2
    BY <1>1, <2>10
  <2>1. /\ c.op \in {"set-up", "terminate"} /\ c.into = "exit"
        /\ c.expect = {"S_OK"} /\ c.when = {}
    <3>1. at[Child] = 1 \/ at[Child] = 2
      BY <2>11
    <3> QED BY <2>0, <3>1, FailingChildCalls DEF Form, Current
  <2>2. SetUp(Child) \/ Terminate(Child)
    BY <1>0, <2>1, OpDecides DEF Skip
  <2>3. Judge(Child, "S_OK") /\ Leave(Child, mutex)
    BY <1>0, <2>2 DEF SetUp, Terminate
  <2>4. mutex' = mutex \/ mutex' = AfterDeath(mutex)
    BY <2>3 DEF Leave
  <2>5. at[Main] <= 2 => mutex.owner = NoOwner /\ mutex.owner # InChild
    BY <1>3 DEF ReleasedClues, NoOwner, InChild
  <2>6. at[Main] <= 2 => mutex'.owner = NoOwner
    BY <1>2, <2>4, <2>5, DeathAbandons
  <2>7. at[Main] = 2 /\ at'[Child] > 2 => mutex'.abandoned
    BY <1>0, <1>2, <2>10, <2>3, <2>5, DeathAbandons DEF Leave
  <2>8. Over(Child)' => at'[Child] > 2
    BY <1>0, <1>1, <2>10 DEF Over
  <2>9. ~(at[Main] = 3 /\ ~failed)
    BY <1>2 DEF ReleasedClues
  <2> QED BY <1>1, <2>6, <2>7, <2>8, <2>9 DEF ReleasedClues
<1>4. CASE setting.test = "after-release"
  <2>0. script[Child] = FailingChild("after-release")
    BY <1>0, <1>4, OtherScripts
  <2>10. Len(script[Child]) = 5 /\ DOMAIN script[Child] = 1 .. 5
    BY <2>0, FailingChildCalls DEF IsScript
  <2>11. at[Child] \in 1 .. 5
    BY <1>1, <2>10
  <2>1. /\ c.into = "exit" /\ c.expect = {"S_OK"} /\ c.when = {}
        /\ at[Child] = 5 => c.op = "release"
    <3>1. \/ at[Child] = 1 \/ at[Child] = 2 \/ at[Child] = 3 \/ at[Child] = 4
          \/ at[Child] = 5
      BY <2>11
    <3> QED BY <2>0, <3>1, FailingChildCalls DEF Form, Current
  <2>2. PICK r : Judge(Child, r)
    <3>1. ~Skip(Child) /\ ~Throw(Child)
      BY <1>0, <2>1 DEF Skip, Throw
    <3> QED BY <1>0, <3>1, StepForms
  <2>3. at'[Child] > 5 /\ results'["exit"] = "S_OK" => mutex'.abandoned
    <3> SUFFICES ASSUME at'[Child] > 5, results'["exit"] = "S_OK"
                 PROVE  mutex'.abandoned
      OBVIOUS
    <3>1. at[Child] = 5
      <4>1. at'[Child] = at[Child] + 1
        BY <1>0, <1>1, <2>1, <2>2, ChildEnds
      <4> QED BY <2>11, <4>1
    <3>2. ReleaseSync(Child)
      BY <1>0, <2>1, <3>1, OpDecides DEF Skip
    <3>3. PICK q : /\ Judge(Child, q)
                   /\ q = "S_OK" => \E k : Leave(Child, ReleasedWith(mutex, k))
      BY <3>2 DEF ReleaseSync
    <3>4. q = "S_OK"
      BY <1>0, <1>1, <2>1, <3>3, ChildEnds
    <3>5. PICK k : Leave(Child, ReleasedWith(mutex, k))
      BY <3>3, <3>4
    <3>6. mutex' = AfterDeath(ReleasedWith(mutex, k))
      BY <2>10, <3>5 DEF Leave
    <3>7. /\ IsMutex(ReleasedWith(mutex, k))
          /\ ReleasedWith(mutex, k).owner # InChild
      <4>1. NoOwner # InChild
        BY DEF NoOwner, InChild
      <4> QED BY <1>2, <4>1, Mutated
    <3> QED BY <3>6, <3>7, DeathAbandons
  <2>4. Over(Child)' => at'[Child] > 5
    BY <1>0, <1>1, <2>10 DEF Over
  <2>5. ~(at[Main] = 3 /\ ~failed)
    BY <1>2 DEF ReleasedClues
  <2>6. setting'.test # "before-acquire"
    BY <1>0, <1>4
  <2> QED BY <1>1, <2>3, <2>4, <2>5, <2>6 DEF ReleasedClues, Succeeded
<1> QED BY <1>0, <1>3, <1>4

LEMMA MainKeepsReleasedClues ==
  ASSUME Core, ReleasedClues, Step(Main), OnTheWatch("abandons-the-released")
  PROVE  ReleasedClues'
<1> DEFINE c == Current(Main)
           s == FailureInjection(setting.test)
<1>0. /\ TypeInv /\ Child \in Actor /\ Main \in Actor /\ Child # Main
      /\ setting.test \in {"before-acquire", "after-release"}
      /\ setting.test \in Phase
      /\ ~setting.callsFail /\ script = Script[setting.test]
      /\ setting' = setting /\ script' = script
  BY Watches, StepMoves
  DEF Core, Actor, Main, Child, OnTheWatch, TypeInv, Phase, fixed
<1>1. /\ script[Main] = s /\ s[1] = Do("start")
      /\ s[2] = Do("wait-for-child") /\ \E n \in {5, 11, 12} : Len(s) = n
  BY <1>0, MainScripts, FailureInjectionCalls DEF IsScript
<1> HIDE DEF s
<1>2. /\ at[Main] \in 1 .. Len(s)
      /\ at'[Main] = at[Main] + 1 \/ at'[Main] = Len(s) + 1
      /\ at'[Main] = at[Main] + 1 \/ failed'
  BY <1>0, <1>1, StepMoves, MainMoves
<1>3. CASE at[Main] = 1
  <2>1. c.op = "start" /\ c.when = {}
    BY <1>1, <1>3 DEF Current, Do, Call
  <2>2. Start(Main)
    BY <1>0, <2>1, OpDecides DEF Skip, Throw
  <2>3. at'[Main] = 2 /\ at'[Child] = 1 /\ mutex' = mutex
    BY <1>0, <1>3, <2>2 DEF Start, resource
  <2>4. ~Over(Child)'
    <3>1. \E n \in 2 .. 5 : IsScript(script[Child], n)
      BY <1>0, OtherScripts, FailingChildCalls
    <3> QED BY <1>0, <2>3, <3>1 DEF Over, IsScript
  <2> QED BY <1>0, <1>3, <2>3, <2>4 DEF ReleasedClues
<1>4. CASE at[Main] = 2
  <2>1. /\ c.op = "wait-for-child" /\ c.when = {} /\ c.expect = {"S_OK"}
    BY <1>1, <1>4 DEF Current, Do, Call
  <2>2. at'[Main] \in Nat /\ at'[Main] >= 3
    BY <1>1, <1>2, <1>4
  <2>3. at'[Main] = 3 /\ ~failed' => mutex'.abandoned
    <3> SUFFICES ASSUME ~failed' PROVE mutex'.abandoned
      OBVIOUS
    <3>1. ChildExited(Main)
      <4>1. ChildExited(Main) \/ ChildTimesOut(Main) \/ ChildWaitFails(Main)
        BY <1>0, <2>1, OpDecides DEF Skip
      <4> QED BY <1>0, <4>1 DEF ChildTimesOut, ChildWaitFails
    <3>2. /\ OthersOver /\ Judge(Main, results["exit"]) /\ mutex' = mutex
      BY <3>1 DEF ChildExited, resource
    <3>3. Succeeded("exit")
      BY <2>1, <3>2, UnexpectedFails DEF Succeeded
    <3>4. Over(Child)
      BY <1>0, <3>2 DEF OthersOver
    <3> QED BY <1>4, <3>2, <3>3, <3>4 DEF ReleasedClues
  <2> QED BY <2>2, <2>3 DEF ReleasedClues
<1>5. CASE at[Main] >= 3
  <2>1. at'[Main] \in Nat /\ at'[Main] >= 4
    BY <1>1, <1>2, <1>5
  <2> QED BY <2>1 DEF ReleasedClues
<1> QED BY <1>1, <1>2, <1>3, <1>4, <1>5

LEMMA StepKeepsReleasedClues ==
  ASSUME Core, ReleasedClues, NEW a \in Actor, Step(a)
  PROVE  ReleasedClues'
<1>0. setting' = setting /\ TypeInv
  BY StepMoves DEF fixed, Core
<1>1. OnTheWatch("abandons-the-released")'
        <=> OnTheWatch("abandons-the-released")
  BY <1>0, StillOnTheWatch
<1> SUFFICES ASSUME OnTheWatch("abandons-the-released") PROVE ReleasedClues'
  BY <1>1 DEF ReleasedClues
<1>2. CASE a \in {"A", "B"}
  <2>1. setting.test \in WithChild
    BY <1>0, Watches DEF WithChild, Phase
  <2> QED BY <1>0, <1>2, <2>1, EmptyScripts, StepMoves DEF TypeInv
<1> QED BY <1>2, ChildKeepsReleasedClues, MainKeepsReleasedClues DEF Actor

\* The test then acquires and is told that the owner died.
LEMMA AbandonedReleaseTrips ==
  ASSUME Core, ReleasedClues, Step(Main), at[Main] = Wire,
         OnTheWatch("abandons-the-released")
  PROVE  failed'
<1> DEFINE c == Current(Main)
<1>0. /\ TypeInv /\ Main \in Actor /\ at[Main] = 3
      /\ setting.test \in {"before-acquire", "after-release"}
      /\ script = Script[setting.test]
  BY Watches DEF Core, Actor, OnTheWatch, Wire, TypeInv
<1>1. CASE failed
  BY <1>0, <1>1, StepMoves
<1>2. CASE ~failed
  <2>1. c = FailureInjection(setting.test)[3]
    BY <1>0, MainScripts DEF Current, Phase
  <2>2. c.op = "acquire" /\ c.when = {} /\ c.expect = {"S_OK"}
    BY <1>0, <2>1, FailureInjectionCalls DEF Form, Phase
  <2>3. AcquireSync(Main)
    BY <1>0, <2>2, OpDecides DEF Skip
  <2>4. PICK r \in Result \ {"S_OK"} : Judge(Main, r)
    BY <1>0, <1>2, <2>3, AcquireAbandoned DEF ReleasedClues
  <2> QED BY <2>2, <2>4, UnexpectedFails
<1> QED BY <1>1, <1>2

-----------------------------------------------------------------------------
(* Two interfaces acquired at the same time.                               *)

\* A driver that ignores the owner lets both threads in, and when they are
\* joined both have noted it.
BothInside ==
  OnTheWatch("ignores-owner") =>
    /\ mutex.key = 0 /\ refs = References
    /\ at[Main] = 2 => at["A"] >= 1 /\ at["B"] >= 1
    /\ at["A"] >= 4 => Succeeded("acquireA")
    /\ at["B"] >= 4 => Succeeded("acquireB")
    /\ at[Main] \in 3 .. 5 /\ ~failed =>
         Succeeded("acquireA") /\ Succeeded("acquireB")

\* The calls of a thread.
LEMMA AttemptGoes ==
  ASSUME NEW me \in {"A", "B"}, NEW peer \in {"A", "B"},
         NEW i \in {First, SecondOpen}, NEW j \in 1 .. 8
  PROVE  LET c == Attempt(me, peer, i)[j] IN
         /\ Goes(c)
         /\ c.op \notin {"close-handle", "drop", "create"}
         /\ c.op = "release" => c.key = 0
         /\ c.into \in {"acquireA", "acquireB"} <=> j = 3
         /\ j = 3 => /\ c.op = "acquire" /\ c.into = AcquireResult[me]
                     /\ c.when = {} /\ c.by = i /\ c.key = 0
<1> DEFINE s == Attempt(me, peer, i)
<1>1. /\ AcquireResult[me] \in {"acquireA", "acquireB"}
      /\ ReleaseResult[me] \in {"releaseA", "releaseB"}
      /\ StartGate[me] \in {"startGateA", "startGateB"}
      /\ StartGate[peer] \in {"startGateA", "startGateB"}
      /\ AttemptsFinished[me] \in {"attemptsFinishedA", "attemptsFinishedB"}
      /\ AttemptsFinished[peer] \in {"attemptsFinishedA", "attemptsFinishedB"}
  BY DEF AcquireResult, ReleaseResult, StartGate, AttemptsFinished
<1>2. /\ s[1].op = "signal" /\ s[1].into = StartGate[me]
      /\ s[1].expect = {"S_OK"}
      /\ s[2].op = "wait" /\ s[2].into = StartGate[peer]
      /\ s[2].expect = {"S_OK"}
      /\ s[3].op = "acquire" /\ s[3].into = AcquireResult[me]
      /\ s[3].expect = Result /\ s[3].when = {} /\ s[3].by = i /\ s[3].key = 0
      /\ s[4].op = "enter" /\ s[4].into = "nothing" /\ s[4].expect = {"S_OK"}
      /\ s[5].op = "signal" /\ s[5].into = AttemptsFinished[me]
      /\ s[5].expect = {"S_OK"}
      /\ s[6].op = "wait" /\ s[6].into = AttemptsFinished[peer]
      /\ s[6].expect = {"S_OK"}
      /\ s[7].op = "release" /\ s[7].into = ReleaseResult[me]
      /\ s[7].expect = Result /\ s[7].key = 0
      /\ s[8].op = "leave" /\ s[8].into = "nothing" /\ s[8].expect = {"S_OK"}
  BY AttemptCalls DEF Form
<1> HIDE DEF s
<1>3. \/ j = 1 \/ j = 2 \/ j = 3 \/ j = 4 \/ j = 5 \/ j = 6 \/ j = 7 \/ j = 8
  OBVIOUS
<1>4. CASE j \in {1, 2, 5, 6}
  BY <1>1, <1>2, <1>4 DEF Goes, Names, s
<1>5. CASE j = 3
  BY <1>1, <1>2, <1>5 DEF Goes, s
<1>6. CASE j = 7
  BY <1>1, <1>2, <1>6 DEF Goes, s
<1>7. CASE j \in {4, 8}
  BY <1>1, <1>2, <1>7 DEF Goes, Names, s
<1> QED BY <1>3, <1>4, <1>5, <1>6, <1>7

\* A thread's acquisition succeeds whatever the other one does.
LEMMA ThreadKeepsBothInside ==
  ASSUME Core, BothInside, OnTheWatch("ignores-owner"),
         NEW me \in {"A", "B"}, Step(me)
  PROVE  BothInside'
<1> DEFINE c == Current(me)
           n == AcquireResult[me]
<1>0. /\ TypeInv /\ me \in Actor \ {Child} /\ me # Main /\ Main \in Actor
      /\ "A" \in Actor /\ "B" \in Actor
      /\ setting.test = "concurrent-acquire" /\ ~setting.callsFail
      /\ script = Script[setting.test]
      /\ "acquireA" \in Names /\ "acquireB" \in Names
      /\ AcquireResult["A"] = "acquireA" /\ AcquireResult["B"] = "acquireB"
  BY Watches
  DEF Core, Actor, Main, Child, OnTheWatch, TypeInv, Names, AcquireResult
<1>1. PICK peer \in {"A", "B"}, i \in {First, SecondOpen} :
        script[me] = Attempt(me, peer, i)
  BY <1>0, OtherScripts
<1>2. at[me] \in 1 .. 8 /\ c = Attempt(me, peer, i)[at[me]]
  <2>1. Len(script[me]) = 8
    BY <1>1, AttemptCalls DEF IsScript
  <2>2. at[me] \in 1 .. Len(script[me])
    BY <1>0, StepMoves
  <2> QED BY <1>1, <2>1, <2>2 DEF Current
<1>3. /\ Goes(c)
      /\ c.op \notin {"close-handle", "drop", "create"}
      /\ c.op = "release" => c.key = 0
      /\ c.into \in {"acquireA", "acquireB"} <=> at[me] = 3
      /\ at[me] = 3 => /\ c.op = "acquire" /\ c.into = n
                       /\ c.when = {} /\ c.by = i /\ c.key = 0
  BY <1>2, AttemptGoes
<1> HIDE DEF c
<1>4. at' = [at EXCEPT ![me] = @ + 1]
  BY <1>0, <1>3, ThreadStep DEF c
<1>5. mutex'.key = 0 /\ refs' = References
  BY <1>0, <1>3, KeyChange, RefsChange DEF BothInside, c
<1>6. at[me] # 3 => UNCHANGED <<results["acquireA"], results["acquireB"]>>
  BY <1>0, <1>3, ResultsChange DEF c
<1>7. at[me] = 3 => /\ results'[n] = "S_OK"
                    /\ \A x \in {"acquireA", "acquireB"} \ {n} :
                         results'[x] = results[x]
  <2> SUFFICES ASSUME at[me] = 3
               PROVE  /\ results'[n] = "S_OK"
                      /\ \A x \in {"acquireA", "acquireB"} \ {n} :
                           results'[x] = results[x]
    OBVIOUS
  <2>1. AcquireSync(me)
    BY <1>0, <1>3, OpDecides DEF Skip, c
  <2>2. Alive
    BY <1>0 DEF BothInside, Alive, References, OnTheWatch
  <2>3. ~mutex.abandoned
    BY <1>0 DEF Core, AbandonInv, WithChild, Phase
  <2>4. ~Rejected(c.by) /\ Free(c.key)
    BY <1>3, <2>3
    DEF BothInside, Rejected, Free, OnTheWatch, First, SecondOpen, FirstFromB
  <2>5. Judge(me, "S_OK")
    BY <1>0, <2>1, <2>2, <2>4, AcquireJudged DEF c
  <2> QED BY <1>0, <1>3, <2>5 DEF Judge, TypeInv, c
<1>8. ~(at[Main] \in 3 .. 5 /\ ~failed)
  <2>1. ~OthersOver
    BY <1>0, StepMoves, Shape DEF OthersOver, Over
  <2> QED BY <1>0, <2>1, Joined DEF Threaded
<1>9. at'[Main] = at[Main] /\ (failed => failed')
  BY <1>0, StepMoves, <1>4 DEF TypeInv
<1>10. CASE me = "A"
  <2>1. /\ at'["A"] = at["A"] + 1 /\ at'["B"] = at["B"]
        /\ at["A"] \in 1 .. 8
    BY <1>0, <1>2, <1>4, <1>10 DEF TypeInv
  <2> QED BY <1>0, <1>5, <1>6, <1>7, <1>8, <1>9, <1>10, <2>1
          DEF BothInside, Succeeded
<1>11. CASE me = "B"
  <2>1. /\ at'["B"] = at["B"] + 1 /\ at'["A"] = at["A"]
        /\ at["B"] \in 1 .. 8
    BY <1>0, <1>2, <1>4, <1>11 DEF TypeInv
  <2> QED BY <1>0, <1>5, <1>6, <1>7, <1>8, <1>9, <1>11, <2>1
          DEF BothInside, Succeeded
<1> QED BY <1>10, <1>11

LEMMA MainKeepsBothInside ==
  ASSUME Core, BothInside, OnTheWatch("ignores-owner"), Step(Main)
  PROVE  BothInside'
<1> DEFINE c == Current(Main)
           s == ConcurrentAcquire
           j == at[Main]
<1>0. /\ TypeInv /\ Main \in Actor \ {Child} /\ Main \in Actor
      /\ "A" \in Actor \ {Main} /\ "B" \in Actor \ {Main}
      /\ setting.test = "concurrent-acquire" /\ ~setting.callsFail
      /\ script = Script[setting.test]
      /\ "acquireA" \in Names /\ "acquireB" \in Names
  BY Watches DEF Core, Actor, Main, Child, OnTheWatch, TypeInv, Names
<1>1. Len(script[Main]) = 7 /\ script[Main] = s
  BY <1>0, MainScripts, ConcurrentAcquireCalls DEF IsScript
<1>2. j \in 1 .. 7 /\ c = s[j]
  BY <1>0, <1>1, StepMoves DEF Current
<1>3. /\ s[1] = Do("start") /\ s[1].op = "start"
      /\ s[2] = Do("join") /\ s[2].op = "join" /\ s[2].when = {}
      /\ s[3].op = "check" /\ s[4].op = "check" /\ s[5].op = "check-owners"
      /\ s[6].op = "acquire" /\ s[7].op = "release" /\ s[7].key = 0
      /\ s[6].into = "nothing" /\ s[7].into = "nothing"
      /\ s[5].into = "nothing"
  <2>1. /\ s[1] = Do("start") /\ s[2] = Do("join")
        /\ s[3].op = "check" /\ s[4].op = "check" /\ s[5].op = "check-owners"
        /\ s[6].op = "acquire" /\ s[7].op = "release" /\ s[7].key = 0
        /\ s[6].into = "nothing" /\ s[7].into = "nothing"
        /\ s[5].into = "nothing"
    BY ConcurrentAcquireCalls DEF Form
  <2>2. /\ Do("start").op = "start" /\ Do("join").op = "join"
        /\ Do("join").when = {}
    BY DEF Do, Call
  <2> HIDE DEF s
  <2> QED BY <2>1, <2>2
<1> HIDE DEF s, c
<1>4. j = 1 \/ j = 2 \/ j \in {3, 4} \/ j \in {5, 6, 7}
  BY <1>2
<1>5. /\ c.op \notin {"close-handle", "drop", "create", "wait-for-child"}
      /\ c.op = "release" => c.key = 0
      /\ c.op = "start" => j = 1
  BY <1>2, <1>3, <1>4
<1>6. mutex'.key = 0 /\ refs' = References
  BY <1>0, <1>5, KeyChange, RefsChange DEF BothInside, c
<1>7. UNCHANGED <<results["acquireA"], results["acquireB"]>>
  <2>1. CASE j \in {1, 2}
    BY <1>0, <1>2, <1>3, <2>1, StartJoinEffect DEF c
  <2>2. CASE j \in {3, 4}
    BY <1>0, <1>2, <1>3, <2>2, CheckEffect DEF c
  <2>3. CASE j \in {5, 6, 7}
    <3>1. c.into = "nothing"
      BY <1>2, <1>3, <2>3
    <3> QED BY <1>0, <3>1, ResultsChange DEF c
  <2> QED BY <1>4, <2>1, <2>2, <2>3
<1>8. /\ at'[Main] = j + 1 \/ (at'[Main] = 8 /\ failed')
      /\ failed => failed'
  <2>1. \/ at'[Main] = j + 1
        \/ at'[Main] = Len(script[Main]) + 1 /\ failed'
    BY <1>0, MainMoves
  <2>2. failed => failed'
    BY <1>0, StepMoves
  <2> QED BY <1>1, <2>1, <2>2
<1>9. /\ j # 1 => at'["A"] = at["A"] /\ at'["B"] = at["B"]
      /\ j = 1 => at'["A"] = 1 /\ at'["B"] = 1 /\ at'[Main] = 2
  <2>1. ~ChildTimesOut(Main)
    BY <1>5 DEF ChildTimesOut, Calls, c
  <2>2. CASE j # 1
    <3>1. ~Start(Main)
      BY <1>5, <2>2 DEF Start, Calls, c
    <3> QED BY <1>0, <2>1, <2>2, <3>1, StepMoves
  <2>3. CASE j = 1
    <3>1. Start(Main)
      <4>1. c.op = "start" /\ c.when = {}
        BY <1>2, <1>3, <2>3 DEF Do, Call
      <4> QED BY <1>0, <4>1, OpDecides DEF Skip, Throw, c
    <3> QED BY <1>0, <2>3, <3>1 DEF Start
  <2> QED BY <2>2, <2>3
<1>10. j = 2 => Succeeded("acquireA") /\ Succeeded("acquireB")
  <2> SUFFICES ASSUME j = 2
               PROVE  Succeeded("acquireA") /\ Succeeded("acquireB")
    OBVIOUS
  <2>1. Join(Main)
    BY <1>0, <1>2, <1>3, OpDecides DEF Skip, c
  <2>2. Over("A") /\ Over("B")
    BY <1>0, <2>1 DEF Join, OthersOver
  <2>3. DOMAIN script["A"] = 1 .. 8 /\ DOMAIN script["B"] = 1 .. 8
    BY <1>0, OtherScripts, AttemptCalls DEF IsScript
  <2>4. at["A"] >= 4 /\ at["B"] >= 4
    <3>1. at["A"] \in Nat /\ at["B"] \in Nat /\ at["A"] >= 1 /\ at["B"] >= 1
      BY <1>0 DEF BothInside, TypeInv
    <3> QED BY <2>2, <2>3, <3>1 DEF Over
  <2> QED BY <2>4 DEF BothInside
<1>11. at'[Main] \in 3 .. 5 /\ ~failed' =>
         Succeeded("acquireA") /\ Succeeded("acquireB")
  BY <1>2, <1>8, <1>10 DEF BothInside
<1>12. at'[Main] # 2 \/ j = 1
  BY <1>2, <1>8
<1> QED BY <1>6, <1>7, <1>9, <1>11, <1>12 DEF BothInside, Succeeded

LEMMA StepKeepsBothInside ==
  ASSUME Core, BothInside, NEW a \in Actor, Step(a)
  PROVE  BothInside'
<1>0. setting' = setting /\ TypeInv
  BY StepMoves DEF fixed, Core
<1>1. OnTheWatch("ignores-owner")' <=> OnTheWatch("ignores-owner")
  BY <1>0, StillOnTheWatch
<1> SUFFICES ASSUME OnTheWatch("ignores-owner") PROVE BothInside'
  BY <1>1 DEF BothInside
<1>2. CASE a = Child
  <2>1. setting.test \in Threaded
    BY <1>0, Watches DEF Threaded
  <2> QED BY <1>0, <1>2, <2>1, EmptyScripts, StepMoves DEF TypeInv
<1> QED BY <1>2, ThreadKeepsBothInside, MainKeepsBothInside DEF Actor

\* CheckOwners finds two owners.
LEMMA BothInsideTrips ==
  ASSUME Core, BothInside, Step(Main), at[Main] = Wire,
         OnTheWatch("ignores-owner")
  PROVE  failed'
<1> DEFINE c == Current(Main)
<1>0. /\ TypeInv /\ Main \in Actor /\ at[Main] = 5
      /\ c = ConcurrentAcquire[5]
  BY Watches, MainScripts DEF Core, Actor, OnTheWatch, Wire, TypeInv, Current
<1>1. CASE failed
  BY <1>0, <1>1, StepMoves
<1>2. CASE ~failed
  <2>1. c.op = "check-owners" /\ c.when = {} /\ c.expect = {"S_OK"}
    BY <1>0, ConcurrentAcquireCalls DEF Form
  <2>2. CheckOwners(Main)
    BY <1>0, <2>1, OpDecides DEF Skip
  <2>3. Judge(Main, "E_FAIL")
    BY <1>0, <1>2, <2>2 DEF CheckOwners, BothInside, Succeeded
  <2> QED BY <2>1, <2>3, UnexpectedFails
<1> QED BY <1>1, <1>2

-----------------------------------------------------------------------------
(* A test that passes has seen a driver that keeps its promise.            *)

\* What leads up to all the wires.
Clues == AloneClues /\ NeverAbandoned /\ ReleasedClues /\ BothInside

\* The inductive invariant.
WatchInv == Core /\ Clues /\ Tripped

\* It holds when a test starts.
LEMMA InitWatch ==
  ASSUME Init
  PROVE  WatchInv
<1>1. Core /\ TypeInv
  BY InitCore DEF Core
<1>2. /\ Main \in Actor /\ "A" \in Actor \ {Main} /\ "B" \in Actor \ {Main}
  BY DEF Actor, Main
<1>3. at[Main] = 1 /\ at["A"] = 0 /\ at["B"] = 0
  BY <1>2 DEF Init
<1>4. /\ mutex.key = 0 /\ mutex.owner = NoOwner /\ ~mutex.abandoned
      /\ refs = References
      /\ \A n \in Names : results[n] # "WAIT_ABANDONED"
  BY DEF Init, FreshMutex
<1>5. Clues
  BY <1>3, <1>4
  DEF Clues, AloneClues, NeverAbandoned, ReleasedClues, BothInside
<1>6. \A driver \in Deviation : OnTheWatch(driver) => Wire \in 1 .. 8
  BY DEF OnTheWatch, Wire, Deviation
<1> QED BY <1>1, <1>3, <1>5, <1>6 DEF WatchInv, Tripped

\* A test has the call its wire is at, so it does not pass before it.
LEMMA Wires ==
  ASSUME TypeInv, NEW driver \in Deviation, OnTheWatch(driver)
  PROVE  /\ Wire \in 1 .. 8
         /\ Wire <= Len(script[Main])
<1>0. script = Script[setting.test]
  BY DEF TypeInv
<1>1. CASE driver \in {"ignores-keys", "forgets-keys", "anyone-releases"}
  <2>1. Wire \in {1, 6, 7} /\ setting.test = "key-state-machine"
    BY <1>1, Watches DEF OnTheWatch, Wire
  <2> QED BY <1>0, <2>1, MainScripts, KeyStateMachineCalls DEF IsScript
<1>2. CASE driver = "dies-with-handle"
  <2>1. Wire = 2 /\ setting.test = "handle-closed"
    BY <1>2, Watches DEF OnTheWatch, Wire
  <2> QED BY <1>0, <2>1, MainScripts, HandleClosedCalls DEF IsScript
<1>3. CASE driver = "dies-with-creator"
  <2>1. Wire = 7 /\ setting.test = "creator-destroyed"
    BY <1>3, Watches DEF OnTheWatch, Wire
  <2> QED BY <1>0, <2>1, MainScripts, CreatorDestroyedCalls DEF IsScript
<1>4. CASE driver = "outlives-references"
  <2>1. Wire = 8 /\ setting.test = "last-reference"
    BY <1>4, Watches DEF OnTheWatch, Wire
  <2> QED BY <1>0, <2>1, MainScripts, LastReferenceCalls DEF IsScript
<1>5. CASE driver = "ignores-owner"
  <2>1. Wire = 5 /\ setting.test = "concurrent-acquire"
    BY <1>5, Watches DEF OnTheWatch, Wire
  <2> QED BY <1>0, <2>1, MainScripts, ConcurrentAcquireCalls DEF IsScript
<1>6. CASE driver \in {"forgets-the-dead", "abandons-the-released"}
  <2>1. /\ setting.test = "abandonment" \/ setting.test \in Phase
        /\ setting.test = "abandonment" => Wire = 6
        /\ setting.test # "abandonment" => Wire = 3
    BY <1>6, Watches DEF OnTheWatch, Wire, Phase
  <2>2. CASE setting.test = "abandonment"
    <3>1. Len(script[Main]) = 6 * Iterations + 5 /\ 6 * Iterations >= 6
          /\ 6 * Iterations \in Nat
      BY <1>0, <2>2, MainScripts, OwnerAbandonmentCalls DEF IsScript
    <3> QED BY <2>1, <2>2, <3>1
  <2>3. CASE setting.test # "abandonment"
    <3>1. \E n \in {5, 11, 12} : Len(FailureInjection(setting.test)) = n
      BY <2>1, <2>3, FailureInjectionCalls DEF IsScript
    <3>2. script[Main] = FailureInjection(setting.test)
      BY <1>0, <2>1, <2>3, MainScripts
    <3> QED BY <2>1, <2>3, <3>1, <3>2
  <2> QED BY <2>2, <2>3
<1> QED BY <1>1, <1>2, <1>3, <1>4, <1>5, <1>6 DEF Deviation

\* At the wire by the lemma for the driver, elsewhere because nobody passes it.
LEMMA StepKeepsWatch ==
  ASSUME WatchInv, NEW a \in Actor, Step(a)
  PROVE  WatchInv'
<1>0. Core /\ TypeInv /\ Clues /\ Tripped
  BY DEF WatchInv, Core
<1>1. Core'
  BY <1>0, StepKeepsCore
<1>2. Clues'
  BY <1>0, StepKeepsAloneClues, StepKeepsNeverAbandoned, StepKeepsReleasedClues,
     StepKeepsBothInside DEF Clues
<1>3. Tripped'
  <2>1. setting' = setting
    BY <1>0, StepMoves DEF fixed
  <2> SUFFICES ASSUME NEW driver \in Deviation, OnTheWatch(driver)
               PROVE  at'[Main] > Wire => failed'
    BY <2>1, StillOnTheWatch DEF Tripped
  <2>2. Wire \in Nat
    BY <1>0, Wires
  <2>3. at[Main] > Wire => failed
    BY <1>0 DEF Tripped
  <2>4. ASSUME a = Main, at[Main] = Wire PROVE failed'
    <3>1. Step(Main)
      BY <2>4
    <3>2. CASE driver \in {"ignores-keys", "forgets-keys", "anyone-releases"}
      BY <1>0, <2>4, <3>1, <3>2, KeyStateMachineTrips DEF Clues
    <3>3. CASE driver \in {"dies-with-handle", "dies-with-creator",
                           "outlives-references"}
      BY <1>0, <2>4, <3>1, <3>3, LifetimeTrips DEF Clues
    <3>4. CASE driver = "forgets-the-dead"
      BY <1>0, <2>4, <3>1, <3>4, ForgottenDeathTrips DEF Clues
    <3>5. CASE driver = "abandons-the-released"
      BY <1>0, <2>4, <3>1, <3>5, AbandonedReleaseTrips DEF Clues
    <3>6. CASE driver = "ignores-owner"
      BY <1>0, <2>4, <3>1, <3>6, BothInsideTrips DEF Clues
    <3> QED BY <3>2, <3>3, <3>4, <3>5, <3>6 DEF Deviation
  <2> QED BY <1>0, <2>2, <2>3, <2>4, TripWire
<1> QED BY <1>1, <1>2, <1>3 DEF WatchInv

\* No step breaks it.
LEMMA NextKeepsWatch ==
  ASSUME WatchInv, [Next]_vars
  PROVE  WatchInv'
<1>1. CASE \E a \in Actor : Step(a)
  BY <1>1, StepKeepsWatch
<1>2. CASE /\ ReuseHandleValue \/ UNCHANGED vars
           /\ UNCHANGED <<setting, script, at, results, failed, signals, active,
                          overlap, mutex, texture, refs>>
  <2>1. Core'
    BY <1>2, IdleKeepsCore DEF WatchInv
  <2>2. Over(Child)' <=> Over(Child)
    BY <1>2 DEF Over
  <2>3. \A driver : OnTheWatch(driver)' <=> OnTheWatch(driver)
    BY <1>2, StillOnTheWatch
  <2>4. Clues'
    BY <1>2, <2>2, <2>3
    DEF WatchInv, Clues, AloneClues, NeverAbandoned, ReleasedClues, BothInside,
        Succeeded
  <2>5. Tripped'
    BY <1>2, <2>3, StillOnTheWatch DEF WatchInv, Tripped
  <2> QED BY <2>1, <2>4, <2>5 DEF WatchInv
<1> QED BY <1>1, <1>2, NextForms

\* A test that passes is past its wire.
LEMMA WatchMeansConforming ==
  ASSUME WatchInv
  PROVE  PassMeansConforming
<1> SUFFICES ASSUME Passed, ~setting.callsFail, Driver \in Notices PROVE FALSE
  BY DEF PassMeansConforming
<1>0. TypeInv /\ Tripped /\ Main \in Actor
  BY DEF WatchInv, Core, Actor
<1>1. Driver \in Deviation /\ OnTheWatch(Driver)
  BY <1>0, Watches DEF OnTheWatch
<1>2. Wire \in Nat /\ Wire <= Len(script[Main])
  BY <1>0, <1>1, Wires
<1>3. at[Main] = Len(script[Main]) + 1 /\ Len(script[Main]) \in Nat
  BY <1>0, Shape DEF Passed, Ended, Over, TypeInv
<1> QED BY <1>0, <1>1, <1>2, <1>3 DEF Tripped, Passed

\* A test whose calls all work passes only if the driver keeps the promise the
\* test is about: no sequence of results lets a driver that ignores keys or
\* owners, mistakes the dead or gets the lifetime wrong through one of the tests
\* that are there to notice it, however many rounds it has and whatever the order
\* of its threads.
THEOREM PassMeansConformingAlways == Spec => []PassMeansConforming
<1>1. WatchInv /\ [Next]_vars => WatchInv'
  BY NextKeepsWatch
<1>2. WatchInv => PassMeansConforming
  BY WatchMeansConforming
<1> QED BY InitWatch, <1>1, <1>2, PTL DEF Spec

-----------------------------------------------------------------------------
(* The types of everything else.                                           *)

\* The calls of the scripts; only the attempts of experiment 11 count owners.
Key == {0, 1, 7, 9, 42}
Counting == {"enter", "leave"}
Quiet == {"acquire", "release", "update", "flush", "read", "create", "start",
          "join", "wait-for-child", "signal", "wait", "await", "check",
          "check-owners", "set-up", "terminate", "close-handle", "drop",
          "reopen"}

\* What a call can mention.
Word == Names \cup References \cup
  {"nothing", "acquired", "readyForAcquire", "allowRelease", "attemptFinished",
   "migrationAttempted", "startGateA", "startGateB", "attemptsFinishedA",
   "attemptsFinishedB"}

Condition == [name : Names, ok : BOOLEAN]

\* A call with one of these operations; nobody releases key 7.
CallWith(ops) ==
  {c \in [op : ops, by : Callers, key : Key, into : Word,
          expect : SUBSET Result, fatal : BOOLEAN,
          when : SUBSET Condition] :
     c.op = "release" => c.key # 7}

\* The ways to write a call.
LEMMA SimpleCalls ==
  ASSUME NEW ops
  PROVE  /\ \A op \in ops : Do(op) \in CallWith(ops)
         /\ "acquire" \in ops =>
              \A i \in Callers, k \in Key : Acquire(i, k) \in CallWith(ops)
         /\ "release" \in ops =>
              \A i \in Callers, k \in Key \ {7} : Release(i, k) \in CallWith(ops)
<1>1. {"S_OK"} \subseteq Result /\ First \in Callers /\ 0 \in Key
  BY DEF Result, First, Callers, Key
<1>2. ASSUME NEW op \in ops, NEW i \in Callers, NEW k \in Key,
             op = "release" => k # 7
      PROVE  Call(op, i, k) \in CallWith(ops)
  <2> DEFINE W == SUBSET Condition
  <2>1. /\ {} \in W
    BY Zenon
  <2>4. {"S_OK"} \in SUBSET Result
    BY <1>1, Zenon
  <2>5. "nothing" \in Word /\ TRUE \in BOOLEAN
    BY DEF Word
  <2> HIDE DEF W
  <2>2. Call(op, i, k) \in [op : ops, by : Callers, key : Key, into : Word,
                            expect : SUBSET Result, fatal : BOOLEAN, when : W]
    BY <1>2, <2>1, <2>4, <2>5 DEF Call
  <2>3. Call(op, i, k).op = op /\ Call(op, i, k).key = k
    BY DEF Call
  <2> QED BY <1>2, <2>2, <2>3 DEF CallWith, W
<1>3. 0 # 7
  OBVIOUS
<1> QED BY <1>1, <1>2, <1>3 DEF Do, Acquire, Release

LEMMA VariedCalls ==
  ASSUME NEW ops, NEW c \in CallWith(ops)
  PROVE  /\ \A name \in Word : Into(name, c) \in CallWith(ops)
         /\ \A R \in SUBSET Result : Returns(c, R) \in CallWith(ops)
         /\ Expect(c) \in CallWith(ops)
         /\ Tolerate(c) \in CallWith(ops)
         /\ \A name \in Names : /\ When(c, Ok(name)) \in CallWith(ops)
                                 /\ When(c, NotOk(name)) \in CallWith(ops)
<1>1. \A name \in Word : Into(name, c) \in CallWith(ops)
  BY DEF Into, CallWith
<1>2. \A R \in SUBSET Result : Returns(c, R) \in CallWith(ops)
  BY DEF Returns, CallWith
<1>3. Expect(c) \in CallWith(ops)
  BY DEF Expect, CallWith
<1>4. Tolerate(c) \in CallWith(ops)
  BY <1>2 DEF Tolerate
<1>5. ASSUME NEW x \in Condition
      PROVE  When(c, x) \in CallWith(ops)
  BY DEF When, CallWith
<1>6. \A name \in Names : /\ Ok(name) \in Condition
                           /\ NotOk(name) \in Condition
  BY DEF Ok, NotOk, Condition
<1> QED BY <1>1, <1>2, <1>3, <1>4, <1>5, <1>6

\* Scripts made of scripts.
LEMMA ScriptsOfCalls ==
  ASSUME NEW ops, NEW s \in Seq(CallWith(ops)), NEW name \in Names
  PROVE  /\ If(name, s) \in Seq(CallWith(ops))
         /\ Unless(name, s) \in Seq(CallWith(ops))
<1>1. ASSUME NEW x, \A j \in 1 .. Len(s) : When(s[j], x) \in CallWith(ops)
      PROVE  Only(s, x) \in Seq(CallWith(ops))
  <2>1. Only(s, x) = [j \in 1 .. Len(s) |-> When(s[j], x)]
    BY DEF Only, When
  <2> QED BY <1>1, <2>1
<1>2. \A j \in 1 .. Len(s) : /\ When(s[j], Ok(name)) \in CallWith(ops)
                             /\ When(s[j], NotOk(name)) \in CallWith(ops)
  <2> TAKE j \in 1 .. Len(s)
  <2>1. s[j] \in CallWith(ops)
    OBVIOUS
  <2> QED BY <2>1, VariedCalls
<1> QED BY <1>1, <1>2, IfUnless

LEMMA JoinedScripts ==
  ASSUME NEW S, NEW s \in Seq(S), NEW t \in Seq(S)
  PROVE  s \o t \in Seq(S)
OBVIOUS

\* What the tests of experiments 05 and 12 are made of.
LEMMA ChildScripts ==
  ASSUME NEW s \in Seq(CallWith(Quiet))
  PROVE  ChildCalls(s) \in Seq(CallWith(Quiet))
<1> DEFINE S == CallWith(Quiet)
           c(j) == Into("exit", IF j = 1 THEN Do("set-up") ELSE s[j - 1])
<1>1. "set-up" \in Quiet /\ "exit" \in Word
  BY DEF Quiet, Word, Names
<1>2. Do("set-up") \in S
  BY <1>1, SimpleCalls
<1>3. ASSUME NEW j \in 1 .. Len(s) + 1 PROVE c(j) \in S
  <2>1. (IF j = 1 THEN Do("set-up") ELSE s[j - 1]) \in S
    <3>1. j = 1 \/ j - 1 \in 1 .. Len(s)
      OBVIOUS
    <3>2. \A k \in 1 .. Len(s) : s[k] \in S
      OBVIOUS
    <3> HIDE DEF S
    <3> QED BY <1>2, <3>1, <3>2
  <2> QED BY <1>1, <2>1, VariedCalls
<1> HIDE DEF S, c
<1>4. [j \in 1 .. Len(s) + 1 |-> c(j)] \in Seq(S)
  BY <1>3
<1> QED BY <1>4 DEF c, S, ChildCalls

LEMMA RepeatedScripts ==
  ASSUME NEW S, NEW s \in Seq(S), Len(s) = 6, NEW n \in Nat
  PROVE  Repeat(n, s) \in Seq(S)
<1>1. \A j \in 1 .. n * 6 : ((j - 1) % 6) + 1 \in 1 .. 6
  OBVIOUS
<1>2. n * 6 \in Nat
  OBVIOUS
<1>3. Repeat(n, s) = [j \in 1 .. n * 6 |-> s[((j - 1) % 6) + 1]]
  BY DEF Repeat
<1>4. \A k \in 1 .. 6 : s[k] \in S
  <2> TAKE k \in 1 .. 6
  <2>1. k \in 1 .. Len(s)
    OBVIOUS
  <2> QED BY <2>1, ElementOfSeq
<1>5. \A j \in 1 .. n * 6 : s[((j - 1) % 6) + 1] \in S
  BY <1>1, <1>4
<1> QED BY <1>2, <1>3, <1>5

\* The scripts of the tests, experiment by experiment.
LEMMA ScriptsFit02 == KeyStateMachine \in Seq(CallWith(Quiet))
<1> DEFINE S == CallWith(Quiet)
<1>1. /\ "acquire" \in Quiet /\ "release" \in Quiet
      /\ First \in Callers /\ Second \in Callers
      /\ {0, 1, 7, 42} \subseteq Key /\ {0, 42} \subseteq Key \ {7}
      /\ {"WAIT_TIMEOUT"} \in SUBSET Result /\ Failure \in SUBSET Result
  BY DEF Quiet, First, Second, Callers, Key, Result, Failure
<1>2. /\ Acquire(First, 0) \in S /\ Acquire(Second, 42) \in S
      /\ Acquire(Second, 7) \in S /\ Acquire(Second, 1) \in S
      /\ Release(First, 42) \in S /\ Release(Second, 0) \in S
      /\ Release(First, 0) \in S
  BY <1>1, SimpleCalls
<1>3. /\ Expect(Returns(Acquire(Second, 7), {"WAIT_TIMEOUT"})) \in S
      /\ Expect(Returns(Acquire(Second, 1), {"WAIT_TIMEOUT"})) \in S
      /\ Expect(Returns(Release(First, 0), Failure)) \in S
      /\ Expect(Release(First, 0)) \in S
  BY <1>1, <1>2, VariedCalls
<1> HIDE DEF S
<1>4. /\ WrongKeys \in Seq(S)
      /\ <<Expect(Returns(Acquire(Second, 7), {"WAIT_TIMEOUT"})),
           Acquire(First, 0),
           Expect(Returns(Acquire(Second, 1), {"WAIT_TIMEOUT"})),
           Release(First, 42)>> \in Seq(S)
      /\ <<Acquire(Second, 42),
           Expect(Returns(Release(First, 0), Failure)),
           Release(Second, 0),
           Acquire(First, 0),
           Expect(Release(First, 0))>> \in Seq(S)
  BY <1>2, <1>3 DEF WrongKeys
<1> QED BY <1>4, JoinedScripts DEF KeyStateMachine, S

LEMMA ScriptsFit05 ==
  /\ AbruptOwner \in Seq(CallWith(Quiet))
  /\ OwnerAbandonment \in Seq(CallWith(Quiet))
<1> DEFINE S == CallWith(Quiet)
<1>1. /\ {"acquire", "release", "create", "start", "wait-for-child", "check",
          "terminate"} \subseteq Quiet
      /\ {First, Second, InChild} \subseteq Callers
      /\ {0, 9} \subseteq Key \ {7} /\ "acquire" \in Names \cap Word
      /\ {"WAIT_ABANDONED"} \in SUBSET Result
  BY DEF Quiet, First, Second, InChild, Callers, Key, Result, Word, Names
<1>2. /\ Acquire(InChild, 0) \in S /\ Do("terminate") \in S
      /\ Do("create") \in S /\ Do("start") \in S
      /\ Do("wait-for-child") \in S /\ Do("check") \in S
      /\ Acquire(First, 0) \in S /\ Release(First, 0) \in S
      /\ Release(First, 9) \in S /\ Acquire(Second, 9) \in S
      /\ Release(Second, 0) \in S
  BY <1>1, SimpleCalls
<1>3. /\ Into("acquire", Tolerate(Acquire(First, 0))) \in S
      /\ Tolerate(Release(First, 0)) \in S
      /\ Check("acquire", {"WAIT_ABANDONED"}) \in S
  BY <1>1, <1>2, VariedCalls DEF Check
<1>4. <<Tolerate(Release(First, 0))>> \in Seq(S)
  BY <1>3
<1>5. If("acquire", <<Tolerate(Release(First, 0))>>) \in Seq(S)
  BY <1>1, <1>4, ScriptsOfCalls
<1>6. <<Acquire(InChild, 0), Do("terminate")>> \in Seq(S)
  BY <1>2
<1>7. AbruptOwner \in Seq(S)
  BY <1>6, ChildScripts DEF AbruptOwner
<1> HIDE DEF S
<1>8. AbandonmentRound \in Seq(S)
  <2>1. /\ <<Do("create")>> \in Seq(S) /\ RunProcess \in Seq(S)
        /\ <<Into("acquire", Tolerate(Acquire(First, 0)))>> \in Seq(S)
        /\ <<Check("acquire", {"WAIT_ABANDONED"})>> \in Seq(S)
    BY <1>2, <1>3 DEF RunProcess
  <2> QED BY <1>5, <2>1, JoinedScripts DEF AbandonmentRound
<1>9. FreshResource \in Seq(S)
  BY <1>2 DEF FreshResource
<1>10. Repeat(Iterations, AbandonmentRound) \in Seq(S)
  <2>1. Len(AbandonmentRound) = 6
    BY AbandonmentRoundCalls DEF IsScript
  <2> QED BY <1>8, <2>1, RepeatedScripts, IterationsAssumption
<1> QED BY <1>7, <1>9, <1>10, JoinedScripts DEF OwnerAbandonment, S

LEMMA ScriptsFit12 ==
  ASSUME NEW phase \in Phase
  PROVE  /\ FailingChild(phase) \in Seq(CallWith(Quiet))
         /\ FailureInjection(phase) \in Seq(CallWith(Quiet))
<1> DEFINE S == CallWith(Quiet)
<1>1. /\ {"acquire", "release", "create", "start", "wait-for-child", "update",
          "flush", "read", "terminate"} \subseteq Quiet
      /\ {First, Second, InChild} \subseteq Callers
      /\ {0, 1} \subseteq Key \ {7}
      /\ {"WAIT_ABANDONED"} \in SUBSET Result
  BY DEF Quiet, First, Second, InChild, Callers, Key, Result
<1>2. /\ Acquire(InChild, 0) \in S /\ Release(InChild, 1) \in S
      /\ Do("terminate") \in S /\ Do("create") \in S /\ Do("start") \in S
      /\ Do("wait-for-child") \in S /\ Do("update") \in S
      /\ Do("flush") \in S /\ Do("read") \in S
      /\ Acquire(First, 0) \in S /\ Release(First, 0) \in S
      /\ Acquire(First, 1) \in S /\ Release(First, 1) \in S
      /\ Acquire(Second, 1) \in S /\ Release(Second, 0) \in S
  BY <1>1, SimpleCalls
<1>3. Expect(Returns(Acquire(First, 0), {"WAIT_ABANDONED"})) \in S
  BY <1>1, <1>2, VariedCalls
<1> HIDE DEF S
<1>4. Write \in Seq(S) /\ RunProcess \in Seq(S)
  BY <1>2 DEF Write, RunProcess
<1>5. FailingChild(phase) \in Seq(S)
  <2>1. /\ <<Acquire(InChild, 0)>> \in Seq(S) /\ <<Do("terminate")>> \in Seq(S)
        /\ <<Do("update")>> \in Seq(S) /\ <<Release(InChild, 1)>> \in Seq(S)
    BY <1>2
  <2>2. /\ <<Acquire(InChild, 0)>> \o <<Do("terminate")>> \in Seq(S)
        /\ <<Acquire(InChild, 0)>> \o <<Do("update")>> \o <<Do("terminate")>>
              \in Seq(S)
        /\ <<Acquire(InChild, 0)>> \o Write \o <<Do("terminate")>> \in Seq(S)
        /\ <<Acquire(InChild, 0)>> \o Write \o <<Release(InChild, 1)>>
              \in Seq(S)
    BY <1>4, <2>1, JoinedScripts
  <2>3. /\ ChildCalls(<<Do("terminate")>>) \in Seq(S)
        /\ ChildCalls(<<Acquire(InChild, 0)>> \o <<Do("terminate")>>) \in Seq(S)
        /\ ChildCalls(<<Acquire(InChild, 0)>> \o <<Do("update")>>
                      \o <<Do("terminate")>>) \in Seq(S)
        /\ ChildCalls(<<Acquire(InChild, 0)>> \o Write \o <<Do("terminate")>>)
              \in Seq(S)
        /\ ChildCalls(<<Acquire(InChild, 0)>> \o Write
                      \o <<Release(InChild, 1)>>) \in Seq(S)
    BY <2>1, <2>2, ChildScripts DEF S
  <2> QED BY <2>3 DEF FailingChild, Phase
<1>6. HealthyHandoff \in Seq(S)
  <2>1. /\ <<Do("create"), Acquire(First, 0)>> \in Seq(S)
        /\ <<Release(First, 1), Acquire(Second, 1), Do("read"),
             Release(Second, 0)>> \in Seq(S)
    BY <1>2
  <2> QED BY <1>4, <2>1, JoinedScripts DEF HealthyHandoff
<1>7. FailureInjection(phase) \in Seq(S)
  <2>1. /\ <<Acquire(First, 0), Release(First, 0)>> \in Seq(S)
        /\ <<Acquire(First, 1), Do("read"), Release(First, 0)>> \in Seq(S)
        /\ <<Expect(Returns(Acquire(First, 0), {"WAIT_ABANDONED"}))>> \in Seq(S)
    BY <1>2, <1>3
  <2>2. /\ <<Acquire(First, 0), Release(First, 0)>> \o HealthyHandoff \in Seq(S)
        /\ Recover \in Seq(S)
    BY <1>6, <2>1, JoinedScripts DEF Recover
  <2> QED BY <1>4, <2>1, <2>2, JoinedScripts DEF FailureInjection, Phase
<1> QED BY <1>5, <1>7 DEF S

LEMMA ScriptsFit07 ==
  /\ HandoffA \in Seq(CallWith(Quiet)) /\ HandoffB \in Seq(CallWith(Quiet))
  /\ CrossThreadHandoff \in Seq(CallWith(Quiet))
  /\ MigrationA \in Seq(CallWith(Quiet)) /\ MigrationB \in Seq(CallWith(Quiet))
  /\ OwnershipMigration \in Seq(CallWith(Quiet))
<1> DEFINE S == CallWith(Quiet)
<1>1. /\ {"acquire", "release", "start", "join", "signal", "wait", "await",
          "check"} \subseteq Quiet
      /\ {First, FirstFromB} \subseteq Callers
      /\ {0, 1} \subseteq Key \ {7}
      /\ {"acquireA", "acquireB", "releaseA", "releaseB", "recoveryAcquireA",
          "recoveryReleaseA", "cleanupA", "acquireAfter", "releaseAfter"}
            \subseteq Names
      /\ Names \subseteq Word
      /\ {"acquired", "readyForAcquire", "allowRelease", "attemptFinished",
          "migrationAttempted"} \subseteq Word
      /\ {"S_OK"} \in SUBSET Result /\ {"E_UNEXPECTED"} \in SUBSET Result
      /\ {"S_OK"} \cup Failure \in SUBSET Result
  BY DEF Quiet, First, FirstFromB, Callers, Key, Result, Failure, Word, Names
<1>2. /\ Acquire(First, 0) \in S /\ Acquire(First, 1) \in S
      /\ Acquire(FirstFromB, 1) \in S
      /\ Release(First, 0) \in S /\ Release(First, 1) \in S
      /\ Release(FirstFromB, 0) \in S /\ Release(FirstFromB, 1) \in S
      /\ Do("start") \in S /\ Do("join") \in S /\ Do("signal") \in S
      /\ Do("wait") \in S /\ Do("await") \in S /\ Do("check") \in S
  BY <1>1, SimpleCalls
<1>3. \A c \in S :
        /\ \A name \in Word : Into(name, c) \in S
        /\ \A R \in SUBSET Result : Returns(c, R) \in S
        /\ Tolerate(c) \in S /\ Expect(c) \in S
  BY VariedCalls
<1>4. \A s \in Seq(S), name \in Names :
        If(name, s) \in Seq(S) /\ Unless(name, s) \in Seq(S)
  BY ScriptsOfCalls
<1> HIDE DEF S
<1>5. /\ \A name \in Word : /\ Signal(name) \in S /\ Wait(name) \in S
                             /\ Await(name) \in S
      /\ \A name \in Names, R \in SUBSET Result : Check(name, R) \in S
  BY <1>1, <1>2, <1>3 DEF Signal, Wait, Await, Check
<1>6. RunThreads \in Seq(S)
  BY <1>2 DEF RunThreads
<1>7. /\ Into("acquireA", Tolerate(Acquire(First, 0))) \in S
      /\ Into("releaseA", Tolerate(Release(First, 1))) \in S
      /\ Into("recoveryAcquireA", Tolerate(Acquire(First, 1))) \in S
      /\ Into("recoveryReleaseA", Tolerate(Release(First, 0))) \in S
      /\ Into("acquireB", Tolerate(Acquire(FirstFromB, 1))) \in S
      /\ Into("releaseB", Tolerate(Release(FirstFromB, 0))) \in S
      /\ Into("releaseB", Tolerate(Release(FirstFromB, 1))) \in S
      /\ Into("cleanupA", Tolerate(Release(First, 1))) \in S
      /\ Into("acquireAfter", Tolerate(Acquire(First, 1))) \in S
      /\ Into("releaseAfter", Tolerate(Release(First, 0))) \in S
  BY <1>1, <1>2, <1>3
<1>8. HandoffA \in Seq(S)
  <2>1. If("recoveryAcquireA",
          <<Into("recoveryReleaseA", Tolerate(Release(First, 0)))>>) \in Seq(S)
    <3>1. <<Into("recoveryReleaseA", Tolerate(Release(First, 0)))>> \in Seq(S)
      BY <1>7
    <3> QED BY <1>1, <1>4, <3>1
  <2>2. Unless("acquireB",
          <<Into("recoveryAcquireA", Tolerate(Acquire(First, 1)))>>
          \o If("recoveryAcquireA",
               <<Into("recoveryReleaseA", Tolerate(Release(First, 0)))>>))
          \in Seq(S)
    <3>1. <<Into("recoveryAcquireA", Tolerate(Acquire(First, 1)))>> \in Seq(S)
      BY <1>7
    <3> QED BY <1>1, <1>4, <2>1, <3>1, JoinedScripts
  <2>3. /\ <<Wait("readyForAcquire"), Wait("allowRelease"),
             Into("releaseA", Tolerate(Release(First, 1))),
             Wait("attemptFinished")>> \in Seq(S)
        /\ <<Into("acquireA", Tolerate(Acquire(First, 0))),
             Signal("acquired")>> \in Seq(S)
    BY <1>1, <1>5, <1>7
  <2> QED BY <1>1, <1>4, <2>2, <2>3, JoinedScripts DEF HandoffA
<1>9. HandoffB \in Seq(S)
  <2>1. If("acquireB", <<Into("releaseB", Tolerate(Release(FirstFromB, 0)))>>)
          \in Seq(S)
    <3>1. <<Into("releaseB", Tolerate(Release(FirstFromB, 0)))>> \in Seq(S)
      BY <1>7
    <3> QED BY <1>1, <1>4, <3>1
  <2>2. /\ <<Wait("acquired")>> \in Seq(S)
        /\ <<Signal("readyForAcquire"), Signal("allowRelease"),
             Into("acquireB", Tolerate(Acquire(FirstFromB, 1)))>> \in Seq(S)
        /\ <<Signal("attemptFinished")>> \in Seq(S)
    BY <1>1, <1>5, <1>7
  <2> QED BY <1>1, <1>4, <2>1, <2>2, JoinedScripts DEF HandoffB
<1>10. CrossThreadHandoff \in Seq(S)
  <2>1. /\ Expect(Check("acquireA", {"S_OK"})) \in S
        /\ Expect(Check("releaseA", {"S_OK"})) \in S
        /\ Check("acquireB", {"S_OK"} \cup Failure) \in S
        /\ Expect(Check("releaseB", {"S_OK"})) \in S
        /\ Expect(Check("recoveryAcquireA", {"S_OK"})) \in S
        /\ Expect(Check("recoveryReleaseA", {"S_OK"})) \in S
    BY <1>1, <1>3, <1>5
  <2>2. /\ <<Expect(Check("acquireA", {"S_OK"})),
             Expect(Check("releaseA", {"S_OK"})),
             Check("acquireB", {"S_OK"} \cup Failure)>> \in Seq(S)
        /\ <<Expect(Check("releaseB", {"S_OK"}))>> \in Seq(S)
        /\ <<Expect(Check("recoveryAcquireA", {"S_OK"})),
             Expect(Check("recoveryReleaseA", {"S_OK"}))>> \in Seq(S)
    BY <2>1
  <2> QED BY <1>1, <1>4, <1>6, <2>2, JoinedScripts DEF CrossThreadHandoff
<1>11. MigrationA \in Seq(S)
  <2>1. /\ <<Into("cleanupA", Tolerate(Release(First, 1)))>> \in Seq(S)
        /\ <<Into("acquireA", Tolerate(Acquire(First, 0))), Signal("acquired"),
             Await("migrationAttempted")>> \in Seq(S)
    BY <1>1, <1>5, <1>7
  <2> QED BY <1>1, <1>4, <2>1, JoinedScripts DEF MigrationA
<1>12. MigrationB \in Seq(S)
  <2>1. /\ <<Await("acquired")>> \in Seq(S)
        /\ <<Into("releaseB", Tolerate(Release(FirstFromB, 1)))>> \in Seq(S)
        /\ <<Signal("migrationAttempted")>> \in Seq(S)
    BY <1>1, <1>5, <1>7
  <2> QED BY <1>1, <1>4, <2>1, JoinedScripts DEF MigrationB
<1>13. OwnershipMigration \in Seq(S)
  <2>1. /\ Check("acquireA", {"S_OK"}) \in S
        /\ Check("releaseB", {"S_OK"} \cup Failure) \in S
        /\ Expect(Check("cleanupA", {"E_UNEXPECTED"})) \in S
        /\ Expect(Check("cleanupA", {"S_OK"})) \in S
        /\ Expect(Check("acquireAfter", {"S_OK"})) \in S
        /\ Expect(Check("releaseAfter", {"S_OK"})) \in S
    BY <1>1, <1>3, <1>5
  <2>2. /\ <<Into("acquireAfter", Tolerate(Acquire(First, 1)))>> \in Seq(S)
        /\ <<Into("releaseAfter", Tolerate(Release(First, 0)))>> \in Seq(S)
        /\ <<Check("acquireA", {"S_OK"}),
             Check("releaseB", {"S_OK"} \cup Failure)>> \in Seq(S)
        /\ <<Expect(Check("cleanupA", {"E_UNEXPECTED"}))>> \in Seq(S)
        /\ <<Expect(Check("cleanupA", {"S_OK"}))>> \in Seq(S)
        /\ <<Expect(Check("acquireAfter", {"S_OK"})),
             Expect(Check("releaseAfter", {"S_OK"}))>> \in Seq(S)
    BY <1>7, <2>1
  <2>3. /\ If("acquireAfter",
              <<Into("releaseAfter", Tolerate(Release(First, 0)))>>) \in Seq(S)
        /\ If("releaseB", <<Expect(Check("cleanupA", {"E_UNEXPECTED"}))>>)
              \in Seq(S)
        /\ Unless("releaseB", <<Expect(Check("cleanupA", {"S_OK"}))>>)
              \in Seq(S)
    BY <1>1, <1>4, <2>2
  <2> QED BY <1>6, <2>2, <2>3, JoinedScripts DEF OwnershipMigration
<1> QED BY <1>8, <1>9, <1>10, <1>11, <1>12, <1>13 DEF S

LEMMA AttemptFits ==
  ASSUME NEW me \in {"A", "B"}, NEW peer \in {"A", "B"},
         NEW i \in {First, SecondOpen}
  PROVE  Attempt(me, peer, i) \in Seq(CallWith(Quiet \cup Counting))
<1> DEFINE S == CallWith(Quiet \cup Counting)
<1>1. /\ {"acquire", "release", "signal", "wait", "enter", "leave"}
            \subseteq Quiet \cup Counting
      /\ i \in Callers /\ 0 \in Key \ {7} /\ Names \subseteq Word
  BY DEF Quiet, Counting, First, SecondOpen, Callers, Key, Word
<1>2. /\ AcquireResult[me] \in Names /\ ReleaseResult[me] \in Names
      /\ {StartGate[me], StartGate[peer], AttemptsFinished[me],
          AttemptsFinished[peer]} \subseteq Word
  BY DEF AcquireResult, ReleaseResult, StartGate, AttemptsFinished, Names, Word
<1>3. /\ Acquire(i, 0) \in S /\ Release(i, 0) \in S
      /\ Do("signal") \in S /\ Do("wait") \in S /\ Do("enter") \in S
      /\ Do("leave") \in S
  BY <1>1, SimpleCalls
<1>4. /\ \A name \in Word : Signal(name) \in S /\ Wait(name) \in S
      /\ Into(AcquireResult[me], Tolerate(Acquire(i, 0))) \in S
      /\ Into(ReleaseResult[me], Tolerate(Release(i, 0))) \in S
  BY <1>1, <1>2, <1>3, VariedCalls DEF Signal, Wait
<1>5. \A s \in Seq(S), name \in Names :
        If(name, s) \in Seq(S) /\ Unless(name, s) \in Seq(S)
  BY ScriptsOfCalls
<1> HIDE DEF S
<1>6. /\ Barrier(StartGate, me, peer) \in Seq(S)
      /\ Barrier(AttemptsFinished, me, peer) \in Seq(S)
  BY <1>2, <1>4 DEF Barrier
<1>7. /\ <<Into(AcquireResult[me], Tolerate(Acquire(i, 0)))>> \in Seq(S)
      /\ <<Do("enter")>> \in Seq(S)
      /\ <<Into(ReleaseResult[me], Tolerate(Release(i, 0))), Do("leave")>>
            \in Seq(S)
  BY <1>3, <1>4
<1>8. /\ If(AcquireResult[me], <<Do("enter")>>) \in Seq(S)
      /\ If(AcquireResult[me],
           <<Into(ReleaseResult[me], Tolerate(Release(i, 0))), Do("leave")>>)
            \in Seq(S)
  BY <1>2, <1>5, <1>7
<1> QED BY <1>6, <1>7, <1>8, JoinedScripts DEF Attempt, S

LEMMA ScriptsFit11 ==
  /\ Identity \in Seq(CallWith(Quiet))
  /\ ConcurrentAcquire \in Seq(CallWith(Quiet))
  /\ CrossRelease \in Seq(CallWith(Quiet))
<1> DEFINE S == CallWith(Quiet)
<1>1. /\ {"acquire", "release", "start", "join", "check", "check-owners"}
            \subseteq Quiet
      /\ {First, SecondOpen} \subseteq Callers /\ {0, 1} \subseteq Key \ {7}
      /\ {"acquireA", "acquireB", "releaseA", "releaseB", "crossRelease"}
            \subseteq Names
      /\ Names \subseteq Word /\ {"S_OK"} \in SUBSET Result
  BY DEF Quiet, First, SecondOpen, Callers, Key, Result, Word, Names
<1>2. /\ Acquire(First, 0) \in S /\ Acquire(SecondOpen, 1) \in S
      /\ Release(First, 0) \in S /\ Release(First, 1) \in S
      /\ Release(SecondOpen, 0) \in S /\ Release(SecondOpen, 1) \in S
      /\ Do("start") \in S /\ Do("join") \in S /\ Do("check") \in S
      /\ Do("check-owners") \in S
  BY <1>1, SimpleCalls
<1>3. \A c \in S :
        /\ \A name \in Word : Into(name, c) \in S
        /\ \A R \in SUBSET Result : Returns(c, R) \in S
        /\ Tolerate(c) \in S /\ Expect(c) \in S
  BY VariedCalls
<1>4. \A s \in Seq(S), name \in Names :
        If(name, s) \in Seq(S) /\ Unless(name, s) \in Seq(S)
  BY ScriptsOfCalls
<1> HIDE DEF S
<1>5. /\ Expect(Release(First, 0)) \in S
      /\ Expect(Release(SecondOpen, 0)) \in S
      /\ Expect(Check("releaseA", {"S_OK"})) \in S
      /\ Expect(Check("releaseB", {"S_OK"})) \in S
      /\ Expect(Do("check-owners")) \in S
      /\ Into("crossRelease", Tolerate(Release(SecondOpen, 1))) \in S
  BY <1>1, <1>2, <1>3 DEF Check
<1>6. Identity \in Seq(S)
  BY <1>2, <1>5 DEF Identity
<1>7. ConcurrentAcquire \in Seq(S)
  <2>1. /\ RunThreads \in Seq(S)
        /\ <<Expect(Check("releaseA", {"S_OK"}))>> \in Seq(S)
        /\ <<Expect(Check("releaseB", {"S_OK"}))>> \in Seq(S)
        /\ <<Expect(Do("check-owners")), Acquire(First, 0),
             Expect(Release(First, 0))>> \in Seq(S)
    BY <1>2, <1>5 DEF RunThreads
  <2> QED BY <1>1, <1>4, <2>1, JoinedScripts DEF ConcurrentAcquire
<1>8. CrossRelease \in Seq(S)
  <2>1. /\ <<Acquire(First, 0),
             Into("crossRelease", Tolerate(Release(SecondOpen, 1)))>> \in Seq(S)
        /\ <<Release(First, 1)>> \in Seq(S)
        /\ <<Acquire(SecondOpen, 1), Expect(Release(SecondOpen, 0))>> \in Seq(S)
    BY <1>2, <1>5
  <2> QED BY <1>1, <1>4, <2>1, JoinedScripts DEF CrossRelease
<1> QED BY <1>6, <1>7, <1>8 DEF S

LEMMA ScriptsFit14 ==
  /\ HandleClosed \in Seq(CallWith(Quiet))
  /\ CreatorDestroyed \in Seq(CallWith(Quiet))
  /\ LastReference \in Seq(CallWith(Quiet))
<1> DEFINE S == CallWith(Quiet)
<1>1. /\ {"acquire", "release", "close-handle", "update", "flush", "read",
          "drop", "reopen", "create"} \subseteq Quiet
      /\ {First, Second} \subseteq Callers /\ {0, 1} \subseteq Key \ {7}
      /\ {"creator", "opened"} \subseteq Word /\ Failure \in SUBSET Result
  BY DEF Quiet, First, Second, Callers, Key, Result, Failure, Word, References
<1>2. /\ Acquire(First, 0) \in S /\ Acquire(Second, 0) \in S
      /\ Acquire(Second, 1) \in S /\ Release(First, 1) \in S
      /\ Release(Second, 0) \in S
      /\ Do("close-handle") \in S /\ Do("update") \in S /\ Do("flush") \in S
      /\ Do("read") \in S /\ Do("drop") \in S /\ Do("reopen") \in S
      /\ Do("create") \in S
  BY <1>1, SimpleCalls
<1>3. /\ Drop("creator") \in S /\ Drop("opened") \in S
      /\ Expect(Do("read")) \in S
      /\ Expect(Returns(Do("reopen"), Failure)) \in S
      /\ Expect(Release(Second, 0)) \in S
  BY <1>1, <1>2, VariedCalls DEF Drop
<1> HIDE DEF S
<1>4. Write \in Seq(S)
  BY <1>2 DEF Write
<1>5. HandleClosed \in Seq(S)
  <2>1. /\ <<Do("close-handle"), Acquire(First, 0)>> \in Seq(S)
        /\ <<Release(First, 1),
             Acquire(Second, 1), Expect(Do("read")), Release(Second, 0),
             Acquire(First, 0), Release(First, 1)>> \in Seq(S)
    BY <1>2, <1>3
  <2> QED BY <1>4, <2>1, JoinedScripts DEF HandleClosed
<1>6. CreatorDestroyed \in Seq(S)
  <2>1. /\ <<Acquire(First, 0)>> \in Seq(S)
        /\ <<Release(First, 1), Do("close-handle"), Drop("creator"),
             Acquire(Second, 1), Expect(Do("read")), Release(Second, 0)>>
              \in Seq(S)
    BY <1>2, <1>3
  <2> QED BY <1>4, <2>1, JoinedScripts DEF CreatorDestroyed
<1>7. LastReference \in Seq(S)
  BY <1>2, <1>3 DEF LastReference
<1> QED BY <1>5, <1>6, <1>7 DEF S

\* Only the threads of experiment 11 count owners.
LEMMA ScriptsFit ==
  ASSUME NEW test \in Test, NEW a \in Actor
  PROVE  /\ Script[test][a] \in Seq(CallWith(Quiet \cup Counting))
         /\ \/ Script[test][a] \in Seq(CallWith(Quiet))
            \/ test = "concurrent-acquire" /\ a \in {"A", "B"}
<1>1. Seq(CallWith(Quiet)) \subseteq Seq(CallWith(Quiet \cup Counting))
  <2> DEFINE S == CallWith(Quiet)
             T == CallWith(Quiet \cup Counting)
  <2>1. S \subseteq T
    BY DEF CallWith
  <2> HIDE DEF S, T
  <2>2. Seq(S) \subseteq Seq(T)
    BY <2>1
  <2> QED BY <2>2 DEF S, T
<1>2. ASSUME a = Main
      PROVE  Script[test][a] \in Seq(CallWith(Quiet))
  BY <1>2, MainScripts, ScriptsFit02, ScriptsFit05, ScriptsFit07, ScriptsFit11,
     ScriptsFit12, ScriptsFit14 DEF Test
<1>3. CASE test = "concurrent-acquire" /\ a \in {"A", "B"}
  BY <1>3, OtherScripts, AttemptFits
<1>4. ASSUME a # Main, ~(test = "concurrent-acquire" /\ a \in {"A", "B"})
      PROVE  Script[test][a] \in Seq(CallWith(Quiet))
  <2>1. <<>> \in Seq(CallWith(Quiet))
    OBVIOUS
  <2> QED BY <1>4, <2>1, EmptyScripts, OtherScripts, TestKinds, ScriptsFit05,
             ScriptsFit07, ScriptsFit12 DEF Actor, Threaded, WithChild
<1> QED BY <1>1, <1>2, <1>3, <1>4

\* The call an actor is at.
LEMMA CurrentFits ==
  ASSUME TypeInv, NEW a \in Actor, Step(a)
  PROVE  /\ Current(a).by \in Callers
         /\ Current(a).key \in Key
         /\ Current(a).op = "release" => Current(a).key # 7
         /\ Current(a).op \in Counting =>
              setting.test = "concurrent-acquire" /\ a \in {"A", "B"}
<1>1. /\ at[a] \in 1 .. Len(script[a])
      /\ setting.test \in Test /\ script[a] = Script[setting.test][a]
  BY StepMoves, Shape DEF TypeInv
<1> DEFINE T == CallWith(Quiet \cup Counting)
           Q == CallWith(Quiet)
<1>2. /\ script[a] \in Seq(T)
      /\ \/ script[a] \in Seq(Q)
         \/ setting.test = "concurrent-acquire" /\ a \in {"A", "B"}
  BY <1>1, ScriptsFit
<1>3. /\ Current(a) \in T
      /\ \/ Current(a) \in Q
         \/ setting.test = "concurrent-acquire" /\ a \in {"A", "B"}
  <2> HIDE DEF T, Q
  <2> QED BY <1>1, <1>2, ElementOfSeq DEF Current
<1>4. \A c \in T : c.by \in Callers /\ c.key \in Key
                   /\ (c.op = "release" => c.key # 7)
  BY DEF CallWith
<1>5. \A c \in Q : c.op \notin Counting
  BY DEF CallWith, Quiet, Counting
<1> QED BY <1>3, <1>4, <1>5

\* The keyed mutex stays one, and nobody leaves key 7 in it.
LEMMA StepKeepsMutexType ==
  ASSUME TypeInv, mutex \in Mutexes(Callers, {0, 1, 9, 42}),
         NEW a \in Actor, Step(a)
  PROVE  mutex' \in Mutexes(Callers, {0, 1, 9, 42})
<1> DEFINE M == Mutexes(Callers, {0, 1, 9, 42})
<1>1. \A m \in M, i \in Callers : AcquiredBy(m, i) \in M
  BY DEF AcquiredBy, Mutexes
<1>2. \A m \in M, k \in {0, 1, 9, 42} : ReleasedWith(m, k) \in M
  BY DEF ReleasedWith, Mutexes
<1>3. \A m \in M : AfterDeath(m) \in M
  <2> SUFFICES ASSUME NEW m \in M PROVE AfterDeath(m) \in M
    OBVIOUS
  <2>1. CASE m.owner = InChild /\ Driver = "forgets-the-dead"
    BY <2>1 DEF AfterDeath, Mutexes
  <2>2. CASE m.owner = InChild /\ Driver # "forgets-the-dead"
    BY <2>2 DEF AfterDeath, Mutexes
  <2>3. CASE m.owner # InChild
    BY <2>3 DEF AfterDeath, Mutexes
  <2> QED BY <2>1, <2>2, <2>3
<1>4. FreshMutex \in M
  BY DEF FreshMutex, Mutexes, Callers
<1>5. Identified(Current(a).by) \in Callers
  BY CurrentFits DEF Identified, Callers, First
<1>6. ReleaseSync(a) =>
        (IF Driver = "forgets-keys" THEN 0 ELSE Current(a).key)
          \in {0, 1, 9, 42}
  BY CurrentFits DEF ReleaseSync, Calls, Key
<1> HIDE DEF M
<1>7. PICK m \in M : mutex' = m \/ mutex' = AfterDeath(m)
  BY <1>1, <1>2, <1>4, <1>5, <1>6, MutexEffects DEF M
<1> QED BY <1>3, <1>7 DEF M

\* The surface, the references and the closed handle.
LEMMA StepKeepsResourceTypes ==
  ASSUME texture \in BOOLEAN, refs \subseteq References,
         stale \in {"nothing-yet", "nothing", "another-object", "resource"},
         NEW a \in Actor, Step(a)
  PROVE  /\ texture' \in BOOLEAN /\ refs' \subseteq References
         /\ stale' \in {"nothing-yet", "nothing", "another-object", "resource"}
<1>1. CASE AcquireSync(a) \/ ReleaseSync(a) \/ SetUp(a) \/ Terminate(a)
           \/ ChildTimesOut(a)
  BY <1>1 DEF AcquireSync, ReleaseSync, SetUp, Terminate, ChildTimesOut
<1>2. CASE Skip(a) \/ Read(a) \/ Throw(a) \/ Start(a) \/ Join(a)
           \/ ChildExited(a) \/ ChildWaitFails(a)
  BY <1>2 DEF Skip, Read, Throw, Start, Join, ChildExited, ChildWaitFails,
              resource
<1>3. CASE Update(a) \/ Flush(a)
  BY <1>3 DEF Update, Flush
<1>4. CASE SignalOther(a) \/ WaitForOther(a) \/ Enter(a) \/ LeaveOwner(a)
           \/ CheckResult(a) \/ CheckOwners(a) \/ Reopen(a)
  BY <1>4 DEF SignalOther, WaitForOther, Enter, LeaveOwner, CheckResult,
              CheckOwners, Reopen, resource
<1>5. CASE CloseHandle(a) \/ DropReference(a)
  BY <1>5 DEF CloseHandle, DropReference
<1>6. CASE CreateFresh(a)
  BY <1>6 DEF CreateFresh
<1> QED BY <1>1, <1>2, <1>3, <1>4, <1>5, <1>6 DEF Step

\* Only two calls count owners.
LEMMA CountsChange ==
  ASSUME NEW a \in Actor, Step(a)
  PROVE  Enter(a) \/ LeaveOwner(a) \/ UNCHANGED counts
<1>1. CASE AcquireSync(a) \/ ReleaseSync(a) \/ SetUp(a) \/ Terminate(a)
           \/ ChildTimesOut(a)
  BY <1>1 DEF AcquireSync, ReleaseSync, SetUp, Terminate, ChildTimesOut
<1>2. CASE Skip(a) \/ Read(a) \/ Throw(a) \/ Start(a) \/ Join(a)
           \/ ChildExited(a) \/ ChildWaitFails(a)
  BY <1>2 DEF Skip, Read, Throw, Start, Join, ChildExited, ChildWaitFails
<1>3. CASE Update(a) \/ Flush(a)
  BY <1>3 DEF Update, Flush
<1>4. CASE SignalOther(a) \/ WaitForOther(a) \/ CheckResult(a)
           \/ CheckOwners(a) \/ Reopen(a)
  BY <1>4 DEF SignalOther, WaitForOther, CheckResult, CheckOwners, Reopen
<1>5. CASE CloseHandle(a) \/ DropReference(a) \/ CreateFresh(a)
  BY <1>5 DEF CloseHandle, DropReference, CreateFresh
<1> QED BY <1>1, <1>2, <1>3, <1>4, <1>5 DEF Step

-----------------------------------------------------------------------------
(* The owners that experiment 11 counts.                                   *)

\* A thread has counted itself in and not out again.
Inside(t) == at[t] \in 5 .. 8 /\ Succeeded(AcquireResult[t])

\* activeOwners is the number of threads inside.
ActiveInv ==
  active = IF setting.test = "concurrent-acquire"
           THEN (IF Inside("A") THEN 1 ELSE 0) + (IF Inside("B") THEN 1 ELSE 0)
           ELSE 0

\* A thread counts itself in after its acquisition succeeded, and out at its end.
LEMMA ThreadKeepsActive ==
  ASSUME Core, ActiveInv, setting.test = "concurrent-acquire",
         NEW me \in {"A", "B"}, Step(me)
  PROVE  ActiveInv'
<1> DEFINE c == Current(me)
           n == AcquireResult[me]
<1>0. /\ TypeInv /\ me \in Actor /\ script = Script[setting.test]
      /\ "A" \in Actor /\ "B" \in Actor
      /\ "acquireA" \in Names /\ "acquireB" \in Names
      /\ AcquireResult["A"] = "acquireA" /\ AcquireResult["B"] = "acquireB"
  BY DEF Core, Actor, TypeInv, Names, AcquireResult
<1>1. PICK peer \in {"A", "B"}, i \in {First, SecondOpen} :
        script[me] = Attempt(me, peer, i)
  BY <1>0, OtherScripts
<1>2. at[me] \in 1 .. 8 /\ c = Attempt(me, peer, i)[at[me]]
  <2>1. Len(script[me]) = 8
    BY <1>1, AttemptCalls DEF IsScript
  <2>2. at[me] \in 1 .. Len(script[me])
    BY <1>0, StepMoves
  <2> QED BY <1>1, <2>1, <2>2 DEF Current
<1>3. /\ Goes(c)
      /\ c.into \in {"acquireA", "acquireB"} <=> at[me] = 3
      /\ at[me] = 3 => c.into = n
  BY <1>2, AttemptGoes
<1>4. /\ c.op = "enter" <=> at[me] = 4
      /\ c.op = "leave" <=> at[me] = 8
      /\ at[me] \in {4, 8} => c.when = {Ok(n)}
  <2> DEFINE s == Attempt(me, peer, i)
  <2>1. /\ s[1].op = "signal" /\ s[2].op = "wait" /\ s[3].op = "acquire"
        /\ s[4].op = "enter" /\ s[4].when = {Ok(n)}
        /\ s[5].op = "signal" /\ s[6].op = "wait" /\ s[7].op = "release"
        /\ s[8].op = "leave" /\ s[8].when = {Ok(n)}
    BY AttemptCalls DEF Form
  <2> HIDE DEF s, n
  <2>2. \/ at[me] = 1 \/ at[me] = 2 \/ at[me] = 3 \/ at[me] = 4 \/ at[me] = 5
        \/ at[me] = 6 \/ at[me] = 7 \/ at[me] = 8
    BY <1>2
  <2>3. c = s[at[me]]
    BY <1>2 DEF s
  <2> HIDE DEF c
  <2> QED BY <2>1, <2>2, <2>3
<1> HIDE DEF c
<1>5. at' = [at EXCEPT ![me] = @ + 1] /\ setting' = setting
  BY <1>0, <1>3, ThreadStep DEF c, fixed
<1>6. \A x \in {"acquireA", "acquireB"} :
        x # n \/ at[me] # 3 => results'[x] = results[x]
  BY <1>0, <1>3, ResultsChange DEF c
<1>8. active \in Int
  BY DEF ActiveInv
<1>7. /\ at[me] = 4 => active' = active + (IF Succeeded(n) THEN 1 ELSE 0)
      /\ at[me] = 8 => active' = active - (IF Succeeded(n) THEN 1 ELSE 0)
      /\ at[me] \notin {4, 8} => active' = active
  <2>1. CASE at[me] = 4
    <3>1. Skip(me) \/ Enter(me)
      BY <1>0, <1>4, <2>1, OpDecides DEF c
    <3>2. Skip(me) => ~Succeeded(n) /\ active' = active
      BY <1>4, <2>1, ConditionsHold DEF Skip, c, counts
    <3>3. Enter(me) => Succeeded(n) /\ active' = active + 1
      BY <1>4, <2>1, ConditionsHold DEF Enter, Calls, c
    <3> QED BY <1>8, <2>1, <3>1, <3>2, <3>3
  <2>2. CASE at[me] = 8
    <3>1. Skip(me) \/ LeaveOwner(me)
      BY <1>0, <1>4, <2>2, OpDecides DEF c
    <3>2. Skip(me) => ~Succeeded(n) /\ active' = active
      BY <1>4, <2>2, ConditionsHold DEF Skip, c, counts
    <3>3. LeaveOwner(me) => Succeeded(n) /\ active' = active - 1
      BY <1>4, <2>2, ConditionsHold DEF LeaveOwner, Calls, c
    <3> QED BY <1>8, <2>2, <3>1, <3>2, <3>3
  <2>3. CASE at[me] \notin {4, 8}
    BY <1>0, <1>4, <2>3, CountsChange DEF Enter, LeaveOwner, Calls, c, counts
  <2> QED BY <2>1, <2>2, <2>3
<1>10. CASE me = "A"
  <2>1. /\ at'["A"] = at["A"] + 1 /\ at'["B"] = at["B"]
    BY <1>0, <1>2, <1>5, <1>10 DEF TypeInv
  <2>2. Inside("B")' <=> Inside("B")
    BY <1>0, <1>6, <1>10, <2>1 DEF Inside, Succeeded
  <2>3. /\ at["A"] \notin {4, 8} => (Inside("A")' <=> Inside("A"))
        /\ at["A"] = 4 => ~Inside("A") /\ (Inside("A")' <=> Succeeded(n))
        /\ at["A"] = 8 => ~Inside("A")' /\ (Inside("A") <=> Succeeded(n))
    BY <1>0, <1>2, <1>6, <1>10, <2>1 DEF Inside, Succeeded
  <2> QED BY <1>2, <1>5, <1>7, <1>8, <1>10, <2>2, <2>3 DEF ActiveInv
<1>11. CASE me = "B"
  <2>1. /\ at'["B"] = at["B"] + 1 /\ at'["A"] = at["A"]
    BY <1>0, <1>2, <1>5, <1>11 DEF TypeInv
  <2>2. Inside("A")' <=> Inside("A")
    BY <1>0, <1>6, <1>11, <2>1 DEF Inside, Succeeded
  <2>3. /\ at["B"] \notin {4, 8} => (Inside("B")' <=> Inside("B"))
        /\ at["B"] = 4 => ~Inside("B") /\ (Inside("B")' <=> Succeeded(n))
        /\ at["B"] = 8 => ~Inside("B")' /\ (Inside("B") <=> Succeeded(n))
    BY <1>0, <1>2, <1>6, <1>11, <2>1 DEF Inside, Succeeded
  <2> QED BY <1>2, <1>5, <1>7, <1>8, <1>11, <2>2, <2>3 DEF ActiveInv
<1> QED BY <1>10, <1>11

\* The test starts the threads when neither is inside, and touches nothing they
\* are counted by.
LEMMA MainKeepsActive ==
  ASSUME Core, ActiveInv, setting.test = "concurrent-acquire", Step(Main)
  PROVE  ActiveInv'
<1> DEFINE c == Current(Main)
           s == ConcurrentAcquire
           j == at[Main]
<1>0. /\ TypeInv /\ Main \in Actor
      /\ "A" \in Actor \ {Main} /\ "B" \in Actor \ {Main}
      /\ script = Script[setting.test]
      /\ "acquireA" \in Names /\ "acquireB" \in Names
      /\ AcquireResult["A"] = "acquireA" /\ AcquireResult["B"] = "acquireB"
  BY DEF Core, Actor, Main, TypeInv, Names, AcquireResult
<1>1. Len(script[Main]) = 7 /\ script[Main] = s
  BY <1>0, MainScripts, ConcurrentAcquireCalls DEF IsScript
<1>2. j \in 1 .. 7 /\ c = s[j]
  BY <1>0, <1>1, StepMoves DEF Current
<1>3. /\ s[1].op = "start" /\ s[2].op = "join"
      /\ s[3].op = "check" /\ s[4].op = "check" /\ s[5].op = "check-owners"
      /\ s[6].op = "acquire" /\ s[7].op = "release"
      /\ s[1].into = "nothing" /\ s[2].into = "nothing"
      /\ s[5].into = "nothing" /\ s[6].into = "nothing"
      /\ s[7].into = "nothing"
  <2>1. /\ s[1] = Do("start") /\ s[2] = Do("join")
        /\ s[3].op = "check" /\ s[4].op = "check" /\ s[5].op = "check-owners"
        /\ s[6].op = "acquire" /\ s[7].op = "release"
        /\ s[5].into = "nothing" /\ s[6].into = "nothing"
        /\ s[7].into = "nothing"
    BY ConcurrentAcquireCalls DEF Form
  <2>2. /\ Do("start").op = "start" /\ Do("join").op = "join"
        /\ Do("start").into = "nothing" /\ Do("join").into = "nothing"
    BY DEF Do, Call
  <2> HIDE DEF s
  <2> QED BY <2>1, <2>2
<1> HIDE DEF s, c
<1>4. j = 1 \/ j = 2 \/ j = 3 \/ j = 4 \/ j \in {5, 6, 7}
  BY <1>2
<1>5. /\ c.op \notin {"enter", "leave", "wait-for-child"}
      /\ c.op = "start" => j = 1
      /\ c.op = "check" \/ c.into = "nothing"
  BY <1>2, <1>3, <1>4
<1>6. \A x \in {"acquireA", "acquireB"} : results'[x] = results[x]
  BY <1>0, <1>5, ResultsChange DEF c
<1>7. active' = active /\ setting' = setting
  BY <1>0, <1>5, CountsChange, StepMoves
  DEF Enter, LeaveOwner, Calls, c, counts, fixed
<1>8. ~ChildTimesOut(Main)
  BY <1>5 DEF ChildTimesOut, Calls, c
<1>9. CASE ~Start(Main)
  BY <1>0, <1>6, <1>7, <1>8, <1>9, StepMoves DEF ActiveInv, Inside, Succeeded
<1>10. CASE Start(Main)
  <2>1. j = 1
    BY <1>5, <1>10 DEF Start, Calls, c
  <2>2. Over("A") /\ Over("B")
    BY <1>0, <2>1 DEF Core, FirstInv, OthersOver
  <2>3. DOMAIN script["A"] = 1 .. 8 /\ DOMAIN script["B"] = 1 .. 8
    BY <1>0, OtherScripts, AttemptCalls DEF IsScript
  <2>4. ~Inside("A") /\ ~Inside("B")
    BY <2>2, <2>3 DEF Inside, Over
  <2>5. at'["A"] = 1 /\ at'["B"] = 1
    BY <1>0, <1>10 DEF Start
  <2>6. ~Inside("A")' /\ ~Inside("B")'
    BY <2>5 DEF Inside
  <2> QED BY <1>7, <2>4, <2>6 DEF ActiveInv
<1> QED BY <1>9, <1>10

\* The other tests count nobody.
LEMMA StepKeepsActive ==
  ASSUME Core, ActiveInv, NEW a \in Actor, Step(a)
  PROVE  ActiveInv'
<1>0. setting' = setting /\ TypeInv
  BY StepMoves DEF fixed, Core
<1>1. CASE setting.test # "concurrent-acquire"
  <2>1. Current(a).op \notin Counting
    BY <1>0, <1>1, CurrentFits
  <2>2. ~Enter(a) /\ ~LeaveOwner(a)
    BY <2>1 DEF Enter, LeaveOwner, Calls, Counting
  <2> QED BY <1>0, <1>1, <2>2, CountsChange DEF counts, ActiveInv
<1>2. CASE setting.test = "concurrent-acquire" /\ a = Child
  BY <1>0, <1>2, EmptyScripts, StepMoves DEF TypeInv, Threaded
<1> QED BY <1>1, <1>2, ThreadKeepsActive, MainKeepsActive DEF Actor

\* What TypeOK says of the resource and the overlap flag.
ResourceTypes ==
  /\ mutex \in Mutexes(Callers, {0, 1, 9, 42})
  /\ texture \in BOOLEAN
  /\ refs \subseteq References
  /\ stale \in {"nothing-yet", "nothing", "another-object", "resource"}
  /\ overlap \in BOOLEAN

\* The counter, and the types that it is not needed for.
CountInv == Core /\ ActiveInv /\ ResourceTypes

LEMMA InitCount ==
  ASSUME Init
  PROVE  CountInv
<1>1. Core
  BY InitCore
<1>2. ActiveInv
  <2>1. {"A", "B"} \subseteq Actor /\ "A" # Main /\ "B" # Main
    BY DEF Actor, Main
  <2>2. ~Inside("A") /\ ~Inside("B")
    BY <2>1 DEF Init, Inside
  <2> QED BY <2>2 DEF Init, ActiveInv
<1>3. ResourceTypes
  BY DEF Init, ResourceTypes, Mutexes, FreshMutex, Callers
<1> QED BY <1>1, <1>2, <1>3 DEF CountInv

LEMMA StepKeepsCount ==
  ASSUME CountInv, NEW a \in Actor, Step(a)
  PROVE  CountInv'
<1>0. Core /\ ActiveInv /\ ResourceTypes /\ TypeInv
  BY DEF CountInv, Core
<1>1. Core' /\ ActiveInv'
  BY <1>0, StepKeepsCore, StepKeepsActive
<1>2. mutex' \in Mutexes(Callers, {0, 1, 9, 42})
  BY <1>0, StepKeepsMutexType DEF ResourceTypes
<1>3. /\ texture' \in BOOLEAN /\ refs' \subseteq References
      /\ stale' \in {"nothing-yet", "nothing", "another-object", "resource"}
  BY <1>0, StepKeepsResourceTypes DEF ResourceTypes
<1>4. overlap' \in BOOLEAN
  BY <1>0, CountsChange DEF ResourceTypes, Enter, LeaveOwner, counts
<1> QED BY <1>1, <1>2, <1>3, <1>4 DEF CountInv, ResourceTypes

\* What is always true of the counter and of the types.
LEMMA CountSafe == Spec => []CountInv
<1>1. CountInv /\ [Next]_vars => CountInv'
  <2> SUFFICES ASSUME CountInv, [Next]_vars PROVE CountInv'
    OBVIOUS
  <2>1. CASE \E a \in Actor : Step(a)
    BY <2>1, StepKeepsCount
  <2>2. CASE /\ ReuseHandleValue \/ UNCHANGED vars
             /\ UNCHANGED <<setting, script, at, results, failed, signals,
                            active, overlap, mutex, texture, refs>>
    <3>1. Core'
      BY <2>2, IdleKeepsCore DEF CountInv
    <3>2. ActiveInv'
      BY <2>2 DEF CountInv, ActiveInv, Inside, Succeeded
    <3>3. ResourceTypes'
      BY <2>2 DEF CountInv, ResourceTypes, ReuseHandleValue, vars
    <3> QED BY <3>1, <3>2, <3>3 DEF CountInv
  <2> QED BY <2>1, <2>2, NextForms
<1> QED BY InitCount, <1>1, PTL DEF Spec

\* TypeOK of the scripted tests: every actor is inside its script or at one of
\* its ends, a result is a value its call can return, the mutex has an interface
\* that some call names as its owner and a key that some call releases, and
\* activeOwners of experiment 11 (an unsigned counter) is never taken below 0.
THEOREM TypeCorrect == Spec => []TypeOK
<1>1. CountInv => TypeOK
  <2> SUFFICES ASSUME CountInv PROVE TypeOK
    OBVIOUS
  <2>1. TypeInv /\ ActiveInv /\ ResourceTypes
    BY DEF CountInv, Core
  <2>2. \A a \in Actor : at[a] \in 0 .. Len(script[a]) + 1
    BY <2>1, Shape DEF TypeInv
  <2>3. active \in 0 .. 2
    BY <2>1 DEF ActiveInv
  <2> QED BY <2>1, <2>2, <2>3 DEF TypeOK, TypeInv, ResourceTypes
<1> QED BY CountSafe, <1>1, PTL

\* EXPECT_EQ(activeOwners.load(), 0u): once both threads of experiment 11 have
\* ended, whoever counted itself in has counted itself out, whatever the driver
\* answered.
THEOREM OwnersAreCounted == Spec => [](OthersOver => active = 0)
<1>1. CountInv => (OthersOver => active = 0)
  <2> SUFFICES ASSUME CountInv, OthersOver PROVE active = 0
    OBVIOUS
  <2>1. TypeInv /\ ActiveInv
    BY DEF CountInv, Core
  <2>2. CASE setting.test = "concurrent-acquire"
    <3>1. {"A", "B"} \subseteq Actor \ {Main} /\ script = Script[setting.test]
      BY <2>1 DEF Actor, Main, TypeInv
    <3>2. DOMAIN script["A"] = 1 .. 8 /\ DOMAIN script["B"] = 1 .. 8
      BY <2>2, <3>1, OtherScripts, AttemptCalls DEF IsScript
    <3>3. ~Inside("A") /\ ~Inside("B")
      BY <3>1, <3>2 DEF OthersOver, Over, Inside
    <3> QED BY <2>1, <3>3 DEF ActiveInv
  <2>3. CASE setting.test # "concurrent-acquire"
    BY <2>1, <2>3 DEF ActiveInv
  <2> QED BY <2>2, <2>3
<1> QED BY CountSafe, <1>1, PTL

=============================================================================
