----------------------------- MODULE PageSubmit_proofs ---------------------------
(***************************************************************************)
(* The properties of PageSubmit, for any buttons that satisfy the          *)
(* assumptions about handlers, any rows and any number of submissions.     *)
(*                                                                         *)
(* The first part is about one submission whatever its handler, its calls  *)
(* and their answers: TaskOK, from the first calls to the last answer.     *)
(* The second is about the submissions of a button.                        *)
(***************************************************************************)
EXTENDS PageSubmit, TLAPS

-----------------------------------------------------------------------------
(* One submission. *)

Objects == Rows \cup Items \cup Copies \cup {It}
CallSet == [stage : Nat, call : Nat, on : Objects]
Checked(h, c) == SpecOf(h, c).strict
Waits(h, c) == SpecOf(h, c).waits

\* A plan of handler h: calls of its stages; for a call that is about one object
\* or some there is one; a chain goes through all stages.
PlanOK(h, plan) ==
  /\ plan \subseteq CallSet
  /\ \A c \in plan : c.stage \in DOMAIN h.stages /\ c.call \in DOMAIN h.stages[c.stage]
  /\ \A k \in DOMAIN h.stages : \A n \in DOMAIN h.stages[k] :
       h.stages[k][n].of \in {"one", "many"} => \E c \in plan : c.stage = k /\ c.call = n
  /\ \A c, d \in plan :
       c.stage = d.stage /\ c.call = d.call /\ SpecOf(h, c).of = "one" => c = d
  /\ h.chained => \A c \in plan : \A k \in DOMAIN h.stages :
                    \E d \in plan : d.stage = k /\ d.on = c.on

Messages == {"success", "error", "login", "unnoticed"}
TaskSet(b) ==
  [option : DOMAIN b.options, rows : SUBSET Rows, plan : SUBSET CallSet, stage : Nat,
   flight : SUBSET CallSet, answered : SUBSET CallSet, earned : SUBSET CallSet,
   dropped : BOOLEAN, told : SUBSET Messages, ended : {"no", "done", "failed"}]

Silent(h, t) == t.ended # "no" /\ h.gate = "stepper" /\ t.told = {}
Hush(spec) == spec.reads = "truthy" \/ (spec.reads = "document" /\ ~spec.tells)

\* The invariant of a task.  Of the properties, Served (EveryRowIsServed) and
\* Announced (SuccessIsEarned) say how a handler ends.  They rest on what holds
\* while it runs: what it has checked was accepted; it has made the calls up to
\* its stage and waited for those before it; in a chain, every call that is
\* missing comes after one in flight.  InOrder, that a call is made only after
\* the checked ones before it were accepted, gives FollowUpsOnNew.
Made(t) == t.flight \cup t.answered
Sets(t) ==
  Made(t) \subseteq t.plan /\ t.flight \cap t.answered = {} /\ t.earned \subseteq t.answered
Accepted(h, t) ==
  t.ended = "no" => \A c \in t.answered : Checked(h, c) => c \in t.earned
Announced(h, t) ==
  "success" \in t.told => \A c \in t.plan : Checked(h, c) => c \in t.earned
Served(h, t) ==
  t.ended = "done" => Made(t) = t.plan /\ \A c \in t.flight : ~Waits(h, c)
InOrder(h, t) ==
  \A c \in Made(t) : \A d \in t.plan :
    Checked(h, d) /\ d.stage < c.stage /\ (h.chained => d.on = c.on) => d \in t.earned
ByStage(h, t) ==
  t.ended = "no" /\ ~h.chained =>
    /\ \A c \in t.plan : c \in Made(t) <=> c.stage <= t.stage
    /\ \A c \in t.plan : c.stage < t.stage /\ Waits(h, c) => c \in t.answered
ByChain(h, t) ==
  t.ended = "no" /\ h.chained =>
    \A c \in t.plan \ Made(t) : \E d \in t.flight : d.on = c.on /\ d.stage < c.stage
Heard(h, t) ==
  Silent(h, t) => \E c \in t.answered : Hush(SpecOf(h, c))

TaskOK(h, t) ==
  /\ PlanOK(h, t.plan) /\ Sets(t)
  /\ Accepted(h, t) /\ Announced(h, t) /\ Served(h, t)
  /\ InOrder(h, t) /\ ByStage(h, t) /\ ByChain(h, t)
  /\ Heard(h, t)

\* Its plan is about the rows that were submitted; this never changes.
Covers(h, t) ==
  \A k \in DOMAIN h.stages : \A n \in DOMAIN h.stages[k] :
    /\ h.stages[k][n].of = "rows" => t.rows \subseteq {c.on : c \in t.plan}
    /\ h.stages[k][n].of = "first" => \E c \in t.plan : c.on \in t.rows

\* Most steps are first-order reasoning; those that need arithmetic, records or
\* sequences name SMT.
USE Zenon

\* What the assumptions say of an option of a button.
LEMMA OptionIsHandler ==
  ASSUME NEW b \in Buttons, NEW o \in DOMAIN b.options
  PROVE  b.options[o] \in Handlers
BY SMT DEF Handlers

\* What CallsAssumption says of one call.
LEMMA CallFacts ==
  ASSUME NEW h \in Handlers, NEW k \in DOMAIN h.stages, NEW n \in DOMAIN h.stages[k]
  PROVE  LET spec == h.stages[k][n]
         IN  /\ spec.of \in {"rows", "first", "one", "maybe", "some", "many"}
             /\ spec.reads \in {"", "local", "truthy", "array", "document"}
             /\ spec.strict => spec.waits
             /\ spec.reads = "truthy" =>
                  Len(h.stages) = 1 /\ DOMAIN h.stages[1] = {1} /\ spec.of = "one"
             /\ h.gate = "stepper" /\ spec.strict /\ (spec.mute \/ spec.reads = "array") =>
                  spec.tells
BY CallsAssumption

\* What of a response a handler reads is one of five things.
LEMMA ReadsTyped ==
  ASSUME NEW h \in Handlers, NEW k \in DOMAIN h.stages, NEW n \in DOMAIN h.stages[k]
  PROVE  h.stages[k][n].reads \in {"", "local", "truthy", "array", "document"}
BY CallFacts

\* Calls are about rows, entries, copies or the object of a form.
LEMMA TargetsAreObjects ==
  ASSUME NEW h \in Handlers, NEW k \in DOMAIN h.stages, NEW n \in DOMAIN h.stages[k],
         NEW rows \in SUBSET Rows
  PROVE  UNION Targets(h.stages[k][n], rows) \subseteq Objects
<1>1. h.stages[k][n].of \in {"rows", "first", "one", "maybe", "some", "many"}
  BY CallFacts
<1>2. QED
  BY <1>1 DEF Targets, Objects

\* The plans a user can choose are plans of the handler.
LEMMA PlanIsOK ==
  ASSUME NEW h \in Handlers, NEW rows \in SUBSET Rows, NEW plan \in Plans(h, rows)
  PROVE  PlanOK(h, plan)
<1> DEFINE Places == UNION {{k} \X DOMAIN h.stages[k] : k \in DOMAIN h.stages}
           T(x) == Targets(h.stages[x[1]][x[2]], rows)
           On(x) == {c.on : c \in {d \in plan : <<d.stage, d.call>> = x}}
<1>1. /\ \A c \in plan : \E x \in Places : \E y \in UNION T(x) :
            c = [stage |-> x[1], call |-> x[2], on |-> y]
      /\ \A x \in Places : On(x) \in T(x)
      /\ h.chained => \A x, y \in Places : On(x) = On(y)
  BY ZenonT(60) DEF Plans
<1>2. \A k \in DOMAIN h.stages : \A n \in DOMAIN h.stages[k] :
        /\ <<k, n>> \in Places
        /\ k \in Nat /\ n \in Nat
  BY SMT, HandlersAssumption
<1>3. \A x \in Places : x = <<x[1], x[2]>> /\ x[1] \in DOMAIN h.stages
                        /\ x[2] \in DOMAIN h.stages[x[1]]
  BY SMT
<1> HIDE DEF Places
<1>4. \A c \in plan : \E k \in DOMAIN h.stages : \E n \in DOMAIN h.stages[k] :
        \E y \in UNION Targets(h.stages[k][n], rows) : c = [stage |-> k, call |-> n, on |-> y]
  BY <1>1, <1>3
<1>5. /\ plan \subseteq CallSet
      /\ \A c \in plan : c.stage \in DOMAIN h.stages /\ c.call \in DOMAIN h.stages[c.stage]
  <2> SUFFICES ASSUME NEW c \in plan
               PROVE  /\ c \in CallSet
                      /\ c.stage \in DOMAIN h.stages /\ c.call \in DOMAIN h.stages[c.stage]
    OBVIOUS
  <2>1. PICK k, n, y :
          /\ k \in DOMAIN h.stages /\ n \in DOMAIN h.stages[k]
          /\ y \in UNION Targets(h.stages[k][n], rows)
          /\ c = [stage |-> k, call |-> n, on |-> y]
    BY <1>4
  <2>2. y \in Objects
    BY <2>1, TargetsAreObjects
  <2>3. k \in Nat /\ n \in Nat
    BY <1>2, <2>1
  <2>4. QED
    BY <2>1, <2>2, <2>3 DEF CallSet
<1>6. ASSUME NEW k \in DOMAIN h.stages, NEW n \in DOMAIN h.stages[k],
             h.stages[k][n].of \in {"one", "many"}
      PROVE  \E c \in plan : c.stage = k /\ c.call = n
  <2>1. On(<<k, n>>) \in T(<<k, n>>)
    BY <1>1, <1>2
  <2>2. T(<<k, n>>) = {{It}} \/ T(<<k, n>>) = (SUBSET Copies) \ {{}}
    BY <1>6 DEF Targets
  <2>3. On(<<k, n>>) # {}
    BY <2>1, <2>2
  <2>4. QED
    BY <2>3
<1>7. ASSUME NEW c \in plan, NEW d \in plan, c.stage = d.stage, c.call = d.call,
             SpecOf(h, c).of = "one"
      PROVE  c = d
  <2>1. <<c.stage, c.call>> \in Places
    BY <1>2, <1>5
  <2>2. T(<<c.stage, c.call>>) = {{It}}
    BY <1>7 DEF Targets, SpecOf
  <2>3. On(<<c.stage, c.call>>) = {It}
    BY <1>1, <2>1, <2>2
  <2>4. c.on = It /\ d.on = It
    BY <1>7, <2>3
  <2>5. QED
    BY SMT, <1>5, <1>7, <2>4 DEF CallSet
<1>8. ASSUME h.chained, NEW c \in plan, NEW k \in DOMAIN h.stages
      PROVE  \E d \in plan : d.stage = k /\ d.on = c.on
  <2>1. <<c.stage, c.call>> \in Places
    BY <1>2, <1>5
  <2>2. 1 \in DOMAIN h.stages[k]
    BY <1>8, HandlersAssumption
  <2>3. <<k, 1>> \in Places
    BY <1>2, <2>2
  <2>4. On(<<k, 1>>) = On(<<c.stage, c.call>>)
    BY <1>1, <1>8, <2>1, <2>3
  <2>5. c.on \in On(<<c.stage, c.call>>)
    OBVIOUS
  <2>6. c.on \in On(<<k, 1>>)
    BY <2>4, <2>5
  <2>7. QED
    BY <2>6
<1>9. QED
  BY <1>5, <1>6, <1>7, <1>8 DEF PlanOK

\* A plan is about the rows it was made for.
LEMMA PlanCovers ==
  ASSUME NEW h \in Handlers, NEW rows \in SUBSET Rows, NEW t, t.rows = rows,
         t.plan \in Plans(h, rows)
  PROVE  Covers(h, t)
<1> DEFINE plan == t.plan
           Places == UNION {{k} \X DOMAIN h.stages[k] : k \in DOMAIN h.stages}
           T(x) == Targets(h.stages[x[1]][x[2]], rows)
           On(x) == {c.on : c \in {d \in plan : <<d.stage, d.call>> = x}}
<1>1. \A x \in Places : On(x) \in T(x)
  BY ZenonT(60) DEF Plans
<1>2. \A k \in DOMAIN h.stages : \A n \in DOMAIN h.stages[k] : <<k, n>> \in Places
  BY SMT, HandlersAssumption
<1> HIDE DEF Places
<1> SUFFICES ASSUME NEW k \in DOMAIN h.stages, NEW n \in DOMAIN h.stages[k]
             PROVE  /\ h.stages[k][n].of = "rows" => rows \subseteq {c.on : c \in plan}
                    /\ h.stages[k][n].of = "first" => \E c \in plan : c.on \in rows
  BY DEF Covers
<1>3. On(<<k, n>>) \in T(<<k, n>>) /\ On(<<k, n>>) \subseteq {c.on : c \in plan}
  BY <1>1, <1>2
<1>4. T(<<k, n>>) = Targets(h.stages[k][n], rows)
  BY SMT
<1> HIDE DEF On, T, plan
<1>5. ASSUME h.stages[k][n].of = "rows" PROVE rows \subseteq {c.on : c \in plan}
  <2>1. T(<<k, n>>) = {rows}
    BY <1>4, <1>5 DEF Targets
  <2>2. QED
    BY <1>3, <2>1
<1>6. ASSUME h.stages[k][n].of = "first" PROVE \E c \in plan : c.on \in rows
  <2>1. T(<<k, n>>) = {{r} : r \in rows}
    BY <1>4, <1>6 DEF Targets
  <2>2. PICK r \in rows : On(<<k, n>>) = {r}
    BY <1>3, <2>1
  <2>3. r \in {c.on : c \in plan}
    BY <1>3, <2>2
  <2>4. QED
    BY <2>3
<1>7. QED
  BY <1>5, <1>6

\* The calls of a plan.
LEMMA PlanCalls ==
  ASSUME NEW h \in Handlers, NEW plan, PlanOK(h, plan), NEW c \in plan
  PROVE  /\ c \in CallSet
         /\ c.stage \in Nat /\ c.stage > 0
         /\ c.stage \in DOMAIN h.stages /\ c.call \in DOMAIN h.stages[c.stage]
         /\ Checked(h, c) => Waits(h, c)
         /\ h.chained => c.call = 1 /\ Checked(h, c)
<1>1. c \in CallSet /\ c.stage \in DOMAIN h.stages /\ c.call \in DOMAIN h.stages[c.stage]
  BY DEF PlanOK
<1>2. c.stage \in Nat /\ c.stage > 0
  BY SMT, <1>1, HandlersAssumption
<1>3. Checked(h, c) => Waits(h, c)
  BY <1>1, CallFacts DEF Checked, Waits, SpecOf
<1>4. h.chained => c.call = 1 /\ Checked(h, c)
  BY <1>1, HandlersAssumption DEF Checked, SpecOf
<1>5. QED
  BY <1>1, <1>2, <1>3, <1>4

\* A call about a new object follows one that was checked and has created it.
LEMMA FreshFollows ==
  ASSUME NEW h \in Handlers, NEW t, TaskOK(h, t), NEW c \in Made(t), SpecOf(h, c).fresh
  PROVE  \E d \in t.earned : SpecOf(h, d).makes /\ (h.chained => d.on = c.on)
<1>1. PlanOK(h, t.plan) /\ c \in t.plan
  BY DEF TaskOK, Sets
<1>2. c.stage \in DOMAIN h.stages /\ c.call \in DOMAIN h.stages[c.stage] /\ c.stage \in Nat
  BY <1>1, PlanCalls
<1>3. h.stages[c.stage][c.call].fresh
  BY DEF SpecOf
<1>4. PICK j, m : /\ j \in 1..(c.stage - 1) /\ m \in DOMAIN h.stages[j]
                  /\ h.stages[j][m].makes /\ h.stages[j][m].strict
                  /\ h.stages[j][m].of \in {"one", "many"}
  <2>1. \E j \in 1..(c.stage - 1) : \E m \in DOMAIN h.stages[j] :
          /\ h.stages[j][m].makes /\ h.stages[j][m].strict
          /\ h.stages[j][m].of \in {"one", "many"}
    BY <1>2, <1>3, FreshAssumption
  <2>2. QED
    BY <2>1
<1>5. j \in DOMAIN h.stages /\ j < c.stage
  BY SMT, <1>2, <1>4, HandlersAssumption
<1>6. PICK d \in t.plan : d.stage = j /\ d.call = m /\ (h.chained => d.on = c.on)
  <2>1. CASE ~h.chained
    <3>1. \A k \in DOMAIN h.stages : \A n \in DOMAIN h.stages[k] :
            h.stages[k][n].of \in {"one", "many"} => \E d \in t.plan : d.stage = k /\ d.call = n
      BY <1>1 DEF PlanOK
    <3>2. \E d \in t.plan : d.stage = j /\ d.call = m
      BY <1>4, <1>5, <3>1
    <3>3. QED
      BY <2>1, <3>2
  <2>2. CASE h.chained
    <3>1. m = 1
      BY <1>4, <1>5, <2>2, HandlersAssumption
    <3>2. PICK d \in t.plan : d.stage = j /\ d.on = c.on
      BY <1>1, <1>5, <2>2 DEF PlanOK
    <3>3. d.call = 1
      BY <1>1, <2>2, PlanCalls
    <3>4. QED
      BY <3>1, <3>2, <3>3
  <2>3. QED
    BY <2>1, <2>2
<1>7. SpecOf(h, d).makes /\ Checked(h, d)
  BY <1>4, <1>6 DEF SpecOf, Checked
<1>8. d \in t.earned
  BY <1>1, <1>5, <1>6, <1>7 DEF TaskOK, InOrder
<1>9. QED
  BY <1>6, <1>7, <1>8

\* The next calls of a chain.
NextOf(h, t, c, out) ==
  IF h.chained /\ ~Fails(SpecOf(h, c), out) THEN Links(t.plan, c) ELSE {}

\* The reaction r to an answer: the stage, the calls and the end it comes to.
Moved(r, stage, sends, ended) ==
  r.stage = stage /\ r.sends = sends /\ r.ended = ended

\* What a handler does when a call is answered, case by case.
Reacts(h, t, c, out, g, r) ==
  LET failed == Fails(SpecOf(h, c), out)
      rest == t.flight \ {c}
      links == NextOf(h, t, c, out)
      waits == \/ ~Waits(h, c) \/ c.stage # t.stage
               \/ \E d \in rest : d.stage = t.stage /\ Waits(h, d)
  IN  /\ t.ended # "no" => Moved(r, t.stage, links, t.ended) /\ ~r.says
      /\ t.ended = "no" /\ failed => Moved(r, t.stage, {}, "failed") /\ ~r.says
      /\ t.ended = "no" /\ ~failed /\ out = "zero" =>
           Moved(r, t.stage, {}, "done") /\ ~r.says
      /\ t.ended = "no" /\ ~failed /\ out # "zero" /\ h.chained =>
           IF rest \cup links = {}
           THEN Moved(r, t.stage, {}, "done") /\ r.says = h.says
           ELSE Moved(r, t.stage, links, "no") /\ ~r.says
      /\ t.ended = "no" /\ ~failed /\ out # "zero" /\ ~h.chained =>
           IF waits THEN Moved(r, t.stage, {}, "no") /\ ~r.says
           ELSE /\ Moved(r, g.stage, g.sends, IF g.done THEN "done" ELSE "no")
                /\ r.says = (g.done /\ h.says)

LEMMA ReactionCases ==
  ASSUME NEW h, NEW t, NEW c, NEW out
  PROVE  Reacts(h, t, c, out, GoOn(h, t.plan, t.stage), Reaction(h, t, c, out))
<1> DEFINE failed == Fails(SpecOf(h, c), out)
           rest == t.flight \ {c}
           links == NextOf(h, t, c, out)
           g == GoOn(h, t.plan, t.stage)
           r == Reaction(h, t, c, out)
           waits == \/ ~Waits(h, c) \/ c.stage # t.stage
                    \/ \E d \in rest : d.stage = t.stage /\ Waits(h, d)
<1>1. ASSUME t.ended # "no" PROVE Moved(r, t.stage, links, t.ended) /\ ~r.says
  <2>1. r = [stage |-> t.stage, sends |-> links, ended |-> t.ended, says |-> FALSE]
    <3>1. CASE h.chained /\ ~failed
      BY <1>1, <3>1 DEF Reaction, Live, NextOf
    <3>2. CASE ~(h.chained /\ ~failed)
      BY <1>1, <3>2 DEF Reaction, Live, NextOf
    <3>3. QED
      BY <3>1, <3>2
  <2> HIDE DEF r
  <2>2. QED
    BY <2>1 DEF Moved
<1>2. ASSUME t.ended = "no", failed PROVE Moved(r, t.stage, {}, "failed") /\ ~r.says
  <2>1. r = [stage |-> t.stage, sends |-> {}, ended |-> "failed", says |-> FALSE]
    BY <1>2 DEF Reaction, Live, NextOf
  <2> HIDE DEF r
  <2>2. QED
    BY <2>1 DEF Moved
<1>3. ASSUME t.ended = "no", ~failed, out = "zero"
      PROVE  Moved(r, t.stage, {}, "done") /\ ~r.says
  <2>1. r = [stage |-> t.stage, sends |-> {}, ended |-> "done", says |-> FALSE]
    BY <1>3 DEF Reaction, Live, NextOf
  <2> HIDE DEF r
  <2>2. QED
    BY <2>1 DEF Moved
<1>4. ASSUME t.ended = "no", ~failed, out # "zero", h.chained
      PROVE  IF rest \cup links = {}
             THEN Moved(r, t.stage, {}, "done") /\ r.says = h.says
             ELSE Moved(r, t.stage, links, "no") /\ ~r.says
  <2>1. r = IF rest \cup links = {}
            THEN [stage |-> t.stage, sends |-> {}, ended |-> "done", says |-> h.says]
            ELSE [stage |-> t.stage, sends |-> links, ended |-> t.ended, says |-> FALSE]
    BY <1>4 DEF Reaction, Live, NextOf
  <2> HIDE DEF r, rest, links
  <2>2. QED
    BY <1>4, <2>1 DEF Moved
<1>5. ASSUME t.ended = "no", ~failed, out # "zero", ~h.chained
      PROVE  IF waits THEN Moved(r, t.stage, {}, "no") /\ ~r.says
             ELSE /\ Moved(r, g.stage, g.sends, IF g.done THEN "done" ELSE "no")
                  /\ r.says = (g.done /\ h.says)
  <2>1. r = IF waits
            THEN [stage |-> t.stage, sends |-> {}, ended |-> t.ended, says |-> FALSE]
            ELSE [stage |-> g.stage, sends |-> g.sends,
                  ended |-> IF g.done THEN "done" ELSE "no",
                  says |-> g.done /\ h.says]
    BY <1>5 DEF Reaction, Live, NextOf, Waits
  <2> HIDE DEF r, waits, g
  <2>2. QED
    BY <1>5, <2>1 DEF Moved
<1> HIDE DEF failed, rest, links, g, r, waits
<1>6. QED
  BY <1>1, <1>2, <1>3, <1>4, <1>5 DEF Reacts, failed, rest, links, g, r, waits

\* The fields of a task after an answer.
After(h, t, c, out, r, now) ==
  /\ now.option = t.option /\ now.rows = t.rows /\ now.plan = t.plan
  /\ now.dropped = t.dropped /\ now.stage = r.stage /\ now.ended = r.ended
  /\ now.flight = (t.flight \ {c}) \cup r.sends
  /\ now.answered = t.answered \cup {c}
  /\ now.earned = IF Checked(h, c) /\ out \in {"accepted", "lost"}
                  THEN t.earned \cup {c} ELSE t.earned

\* Settled gives it these, and it stays a task.
LEMMA SettledFields ==
  ASSUME NEW b, NEW h, NEW t \in TaskSet(b), NEW c \in CallSet, NEW out, NEW r, NEW first,
         r.stage \in Nat, r.sends \in SUBSET CallSet, r.ended \in {"no", "done", "failed"},
         NEW now, now = Settled(h, t, c, out, r, first)
  PROVE  now \in TaskSet(b) /\ After(h, t, c, out, r, now)
<1> DEFINE es == IF Checked(h, c) /\ out \in {"accepted", "lost"}
                 THEN t.earned \cup {c} ELSE t.earned
           ts == {m \in t.told \cup Tells(t, SpecOf(h, c), out, r.says, first) :
                    h.gate = "stepper" \/ m = "success"}
           fs == (t.flight \ {c}) \cup r.sends
           as == t.answered \cup {c}
<1>1. now = [t EXCEPT !.stage = r.stage, !.ended = r.ended,
                      !.flight = fs, !.answered = as, !.earned = es, !.told = ts]
  BY DEF Settled, Checked
<1>2. es \in SUBSET CallSet /\ fs \in SUBSET CallSet /\ as \in SUBSET CallSet
  BY DEF TaskSet
<1>3. ts \in SUBSET Messages
  <2>1. Tells(t, SpecOf(h, c), out, r.says, first) \subseteq Messages
    BY DEF Tells, Messages
  <2>2. QED
    BY <2>1 DEF TaskSet
<1> HIDE DEF es, ts, fs, as
<1>4. now \in TaskSet(b)
  BY ZenonT(40), <1>1, <1>2, <1>3 DEF TaskSet
<1>5. /\ now.option = t.option /\ now.rows = t.rows /\ now.plan = t.plan
      /\ now.dropped = t.dropped /\ now.stage = r.stage /\ now.ended = r.ended
      /\ now.flight = fs /\ now.answered = as /\ now.earned = es /\ now.told = ts
  BY <1>1 DEF TaskSet
<1>6. QED
  BY <1>4, <1>5 DEF After, es, ts, fs, as

\* What the user has been told after an answer.
LEMMA SettledTold ==
  ASSUME NEW b, NEW h, NEW t \in TaskSet(b), NEW c, NEW out, NEW r, NEW first
  PROVE  LET spec == SpecOf(h, c)
             told == Settled(h, t, c, out, r, first).told
         IN  /\ "success" \in told => "success" \in t.told \/ r.says
             /\ r.says => "success" \in told
             /\ h.gate = "stepper" =>
                  /\ t.told \subseteq told
                  /\ out = "refused" /\ ~spec.mute => "error" \in told
                  /\ t.ended = "no" /\ Fails(spec, out) /\ spec.tells => "error" \in told
                  /\ out = "unauthorized" => "login" \in told \/ "unnoticed" \in told
<1>1. Settled(h, t, c, out, r, first).told =
        {m \in t.told \cup Tells(t, SpecOf(h, c), out, r.says, first) :
           h.gate = "stepper" \/ m = "success"}
  BY DEF Settled, TaskSet
<1>2. QED
  BY <1>1 DEF Tells, Live

\* The next calls of a chain have not been made yet, and the call they follow is
\* the last of those before them.
LEMMA LinksFacts ==
  ASSUME NEW h \in Handlers, NEW t, TaskOK(h, t), h.chained, NEW c \in t.flight,
         NEW e \in Links(t.plan, c)
  PROVE  /\ e \in t.plan /\ e \notin Made(t)
         /\ \A d \in t.plan : d.stage < e.stage /\ d.on = e.on => d = c \/ d \in t.earned
<1>1. PlanOK(h, t.plan) /\ c \in t.plan /\ c \notin t.answered
  BY DEF TaskOK, Sets, Made
<1>2. e \in t.plan /\ e.stage = c.stage + 1 /\ e.on = c.on
  BY DEF Links
<1>3. /\ c.stage \in Nat /\ e.stage \in Nat
      /\ Checked(h, c)
  BY <1>1, <1>2, PlanCalls
<1>4. e \notin Made(t)
  <2> SUFFICES ASSUME e \in Made(t) PROVE FALSE
    OBVIOUS
  <2>1. c \in t.earned
    BY SMT, <1>1, <1>2, <1>3 DEF TaskOK, InOrder
  <2>2. QED
    BY <1>1, <2>1 DEF TaskOK, Sets
<1>5. ASSUME NEW d \in t.plan, d.stage < e.stage, d.on = e.on
      PROVE  d = c \/ d \in t.earned
  <2>1. d \in CallSet /\ c \in CallSet /\ d.stage \in Nat /\ d.call = 1 /\ c.call = 1
        /\ Checked(h, d)
    BY <1>1, PlanCalls
  <2>2. CASE d.stage = c.stage
    BY SMT, <1>2, <1>5, <2>1, <2>2 DEF CallSet
  <2>3. CASE d.stage < c.stage
    BY <1>1, <1>2, <1>5, <2>1, <2>3 DEF TaskOK, InOrder, Made
  <2>4. QED
    BY SMT, <1>2, <1>3, <1>5, <2>1, <2>2, <2>3
<1>6. QED
  BY <1>2, <1>4, <1>5

\* The outcomes of a call; ID 0 only matters to the form that reads the ID.
LEMMA OutcomeFacts ==
  ASSUME NEW h \in Handlers, NEW plan, PlanOK(h, plan), NEW c \in plan,
         NEW out \in Outcomes(SpecOf(h, c))
  PROVE  /\ out \in {"accepted", "refused", "unauthorized", "lost", "zero"}
         /\ out = "zero" => SpecOf(h, c).reads = "truthy"
         /\ out = "lost" => SpecOf(h, c).reads \in {"array", "document"}
<1>1. c.stage \in DOMAIN h.stages /\ c.call \in DOMAIN h.stages[c.stage]
  BY PlanCalls
<1>2. SpecOf(h, c).reads \in {"", "local", "truthy", "array", "document"}
  BY <1>1, ReadsTyped DEF SpecOf
<1>3. QED
  BY <1>2 DEF Outcomes

\* The calls of a plan, all of them.
PlanFacts(h, plan) ==
  \A d \in plan : /\ d \in CallSet /\ d.stage \in Nat /\ d.stage > 0
                  /\ d.stage \in DOMAIN h.stages /\ d.call \in DOMAIN h.stages[d.stage]
                  /\ Checked(h, d) => Waits(h, d)
                  /\ h.chained => d.call = 1 /\ Checked(h, d)

\* What becomes of task t when call c is answered and its handler reacts by r.
Settles(h, t, c, out, r, now) ==
  /\ TaskOK(h, t) /\ c \in t.flight /\ t.stage \in Nat
  /\ PlanFacts(h, t.plan)
  /\ now.plan = t.plan /\ now.stage = r.stage /\ now.ended = r.ended
  /\ now.flight = (t.flight \ {c}) \cup r.sends
  /\ now.answered = t.answered \cup {c}
  /\ t.earned \subseteq now.earned /\ now.earned \subseteq now.answered
  /\ ~Fails(SpecOf(h, c), out) /\ out # "zero" /\ Checked(h, c) => c \in now.earned

\* What the user is told of it.
Tidings(h, t, c, out, r, now) ==
  LET spec == SpecOf(h, c)
  IN  /\ "success" \in now.told => "success" \in t.told \/ r.says
      /\ r.says => "success" \in now.told
      /\ h.gate = "stepper" =>
           /\ t.told \subseteq now.told
           /\ out = "refused" /\ ~spec.mute => "error" \in now.told
           /\ t.ended = "no" /\ Fails(spec, out) /\ spec.tells => "error" \in now.told
           /\ out = "unauthorized" => "login" \in now.told \/ "unnoticed" \in now.told

\* The parts of the invariant that hold after any reaction.
LEMMA SettlesSets ==
  ASSUME NEW h, NEW t, NEW c, NEW out, NEW r, NEW now, Settles(h, t, c, out, r, now),
         r.sends \subseteq t.plan, r.sends \cap Made(t) = {}
  PROVE  Sets(now) /\ Made(now) = Made(t) \cup r.sends
<1>1. Made(now) = Made(t) \cup r.sends
  BY DEF Settles, Made
<1>2. now.flight \cap now.answered = {}
  BY DEF Settles, TaskOK, Sets, Made
<1>3. QED
  BY <1>1, <1>2 DEF Settles, TaskOK, Sets

\* A handler that says nothing has no success to earn.
LEMMA SettlesAnnounced ==
  ASSUME NEW h, NEW t, NEW c, NEW out, NEW r, NEW now, Settles(h, t, c, out, r, now),
         Tidings(h, t, c, out, r, now), ~r.says
  PROVE  Announced(h, now)
BY DEF Settles, Tidings, TaskOK, Announced

\* The order is kept when the calls that are sent now keep to it.
LEMMA SettlesInOrder ==
  ASSUME NEW h, NEW t, NEW c, NEW out, NEW r, NEW now, Settles(h, t, c, out, r, now),
         \A e \in r.sends : \A d \in t.plan :
           Checked(h, d) /\ d.stage < e.stage /\ (h.chained => d.on = e.on) => d \in now.earned
  PROVE  InOrder(h, now)
<1>1. Made(now) = Made(t) \cup r.sends
  BY DEF Settles, Made
<1>2. QED
  BY <1>1 DEF Settles, TaskOK, InOrder

\* Of a handler that goes on, every checked call that is answered was accepted.
LEMMA SettlesAccepted ==
  ASSUME NEW h, NEW t, NEW c, NEW out, NEW r, NEW now, Settles(h, t, c, out, r, now),
         ~Fails(SpecOf(h, c), out), out # "zero", t.ended = "no"
  PROVE  \A d \in now.answered : Checked(h, d) => d \in now.earned
BY DEF Settles, TaskOK, Accepted

\* The form that takes ID 0 for a failure has one call.
LEMMA ZeroFacts ==
  ASSUME NEW h \in Handlers, NEW plan, PlanOK(h, plan), PlanFacts(h, plan), NEW c \in plan,
         SpecOf(h, c).reads = "truthy"
  PROVE  plan = {c} /\ Links(plan, c) = {}
<1>1. /\ Len(h.stages) = 1 /\ DOMAIN h.stages = 1..Len(h.stages)
      /\ DOMAIN h.stages[1] = {1} /\ SpecOf(h, c).of = "one"
  BY CallFacts, HandlersAssumption DEF PlanFacts, SpecOf
<1>2. \A d \in plan : d.stage = 1 /\ d.call = 1
  BY SMT, <1>1 DEF PlanFacts
<1>3. plan = {c}
  BY SMT, <1>1, <1>2 DEF PlanOK
<1>4. QED
  BY SMT, <1>2, <1>3 DEF Links

\* The next calls of a chain can be sent: they have not been, and the calls
\* before them were accepted.
LEMMA NextOfFacts ==
  ASSUME NEW h \in Handlers, NEW t, NEW c, NEW out, NEW r, NEW now,
         Settles(h, t, c, out, r, now), out = "zero" => SpecOf(h, c).reads = "truthy",
         NEW e \in NextOf(h, t, c, out)
  PROVE  /\ h.chained /\ e \in t.plan /\ e \notin Made(t)
         /\ \A d \in t.plan : d.stage < e.stage /\ d.on = e.on => d \in now.earned
<1>1. h.chained /\ ~Fails(SpecOf(h, c), out) /\ e \in Links(t.plan, c)
  BY DEF NextOf
<1>2. TaskOK(h, t) /\ c \in t.flight /\ PlanFacts(h, t.plan) /\ t.earned \subseteq now.earned
  BY DEF Settles
<1>3. /\ e \in t.plan /\ e \notin Made(t)
      /\ \A d \in t.plan : d.stage < e.stage /\ d.on = e.on => d = c \/ d \in t.earned
  BY <1>1, <1>2, LinksFacts
<1>4. c \in t.plan /\ PlanOK(h, t.plan)
  BY <1>2 DEF TaskOK, Sets, Made
<1>5. out # "zero"
  BY <1>1, <1>2, <1>4, ZeroFacts
<1>6. c \in now.earned
  BY <1>1, <1>2, <1>4, <1>5 DEF Settles, PlanFacts
<1>7. QED
  BY <1>1, <1>2, <1>3, <1>6

\* An answer to a call of a handler that has ended.
LEMMA SettlesEnded ==
  ASSUME NEW h \in Handlers, NEW t, NEW c, NEW out, NEW r, NEW now,
         Settles(h, t, c, out, r, now), Tidings(h, t, c, out, r, now),
         out = "zero" => SpecOf(h, c).reads = "truthy",
         t.ended # "no", r.sends = NextOf(h, t, c, out), r.ended = t.ended, ~r.says
  PROVE  TaskOK(h, now)
<1>1. /\ TaskOK(h, t) /\ now.plan = t.plan /\ now.ended = t.ended
      /\ now.flight = (t.flight \ {c}) \cup r.sends
      /\ now.answered = t.answered \cup {c}
  BY DEF Settles
<1>2. \A e \in r.sends :
        /\ h.chained /\ e \in t.plan /\ e \notin Made(t)
        /\ \A d \in t.plan : d.stage < e.stage /\ d.on = e.on => d \in now.earned
  BY SMT, NextOfFacts
<1>3. Sets(now) /\ Made(now) = Made(t) \cup r.sends
  BY SMT, <1>2, SettlesSets
<1>4. Announced(h, now) /\ InOrder(h, now)
  BY SMT, <1>2, SettlesAnnounced, SettlesInOrder
<1>5. Served(h, now)
  <2> SUFFICES ASSUME now.ended = "done"
               PROVE  Made(now) = t.plan /\ \A d \in now.flight : ~Waits(h, d)
    BY <1>1 DEF Served
  <2>1. Made(t) = t.plan /\ \A d \in t.flight : ~Waits(h, d)
    BY <1>1 DEF TaskOK, Served
  <2>2. r.sends = {}
    BY <1>2, <2>1
  <2>3. QED
    BY <1>1, <1>3, <2>1, <2>2
<1>6. Heard(h, now)
  BY <1>1 DEF Heard, Silent, TaskOK, Tidings
<1>7. QED
  BY <1>1, <1>3, <1>4, <1>5, <1>6 DEF TaskOK, Accepted, ByStage, ByChain

\* A call that ends the handler by an exception.  A form says so, but for the one
\* that hides that a response was lost.
LEMMA SettlesFailed ==
  ASSUME NEW h \in Handlers, NEW t, NEW c, NEW out, NEW r, NEW now,
         Settles(h, t, c, out, r, now), Tidings(h, t, c, out, r, now),
         out \in {"accepted", "refused", "unauthorized", "lost", "zero"},
         out = "lost" => SpecOf(h, c).reads \in {"array", "document"},
         t.ended = "no", Fails(SpecOf(h, c), out), r.sends = {}, r.ended = "failed", ~r.says
  PROVE  TaskOK(h, now)
<1> DEFINE spec == SpecOf(h, c)
<1>1. /\ TaskOK(h, t) /\ now.plan = t.plan /\ now.ended = "failed"
      /\ c \in now.answered /\ PlanFacts(h, t.plan) /\ c \in t.flight
  BY DEF Settles
<1>2. Sets(now) /\ Announced(h, now) /\ InOrder(h, now)
  BY SettlesSets, SettlesAnnounced, SettlesInOrder
<1>3. c \in t.plan /\ c.stage \in DOMAIN h.stages /\ c.call \in DOMAIN h.stages[c.stage]
  BY <1>1 DEF TaskOK, Sets, Made, PlanFacts
<1>4. h.gate = "stepper" /\ spec.strict /\ (spec.mute \/ spec.reads = "array") => spec.tells
  BY <1>3, CallFacts DEF SpecOf
<1>5. spec.strict /\ out \in {"refused", "unauthorized", "lost"}
  BY DEF Fails
<1>6. Heard(h, now)
  <2> SUFFICES ASSUME h.gate = "stepper", now.told = {} PROVE Hush(spec)
    BY <1>1 DEF Heard, Silent
  <2>1. ~spec.tells /\ out = "lost"
    BY <1>4, <1>5 DEF Tidings
  <2>2. spec.reads = "document"
    BY <1>4, <1>5, <2>1
  <2>3. QED
    BY <2>1, <2>2 DEF Hush
<1>7. QED
  BY <1>1, <1>2, <1>6 DEF TaskOK, Accepted, Served, ByStage, ByChain

\* The form that takes ID 0 for a failure.
LEMMA SettlesZero ==
  ASSUME NEW h \in Handlers, NEW t, NEW c, NEW out, NEW r, NEW now,
         Settles(h, t, c, out, r, now), Tidings(h, t, c, out, r, now),
         SpecOf(h, c).reads = "truthy", r.sends = {}, r.ended = "done", ~r.says
  PROVE  TaskOK(h, now)
<1>1. /\ TaskOK(h, t) /\ now.plan = t.plan /\ now.ended = "done"
      /\ now.flight = t.flight \ {c} /\ now.answered = t.answered \cup {c}
      /\ PlanFacts(h, t.plan) /\ c \in t.flight
  BY DEF Settles
<1>2. Sets(now) /\ Announced(h, now) /\ InOrder(h, now)
  BY SettlesSets, SettlesAnnounced, SettlesInOrder
<1>3. c \in t.plan /\ Made(t) \subseteq t.plan /\ PlanOK(h, t.plan)
  BY <1>1 DEF TaskOK, Sets, Made
<1>4. t.plan = {c}
  BY SMT, <1>1, <1>3, ZeroFacts
<1>5. Served(h, now)
  BY <1>1, <1>3, <1>4 DEF Served, Made
<1>6. Heard(h, now)
  BY <1>1 DEF Heard, Hush
<1>7. QED
  BY <1>1, <1>2, <1>3, <1>5, <1>6 DEF TaskOK, Accepted, ByStage, ByChain

\* A chain goes on, and is done when no call of any is left.
LEMMA SettlesChain ==
  ASSUME NEW h \in Handlers, NEW t, NEW c, NEW out, NEW r, NEW now,
         Settles(h, t, c, out, r, now), Tidings(h, t, c, out, r, now),
         t.ended = "no", ~Fails(SpecOf(h, c), out), out # "zero", h.chained,
         LET rest == (t.flight \ {c}) \cup Links(t.plan, c)
         IN  \/ /\ rest = {}
                /\ r.sends = {} /\ r.ended = "done" /\ (h.gate = "stepper" => r.says)
             \/ r.sends = Links(t.plan, c) /\ r.ended = "no" /\ ~r.says
  PROVE  TaskOK(h, now)
<1> DEFINE links == Links(t.plan, c)
           rest == t.flight \ {c}
<1>1. /\ TaskOK(h, t) /\ now.plan = t.plan /\ now.ended = r.ended
      /\ now.flight = rest \cup r.sends /\ now.answered = t.answered \cup {c}
      /\ PlanFacts(h, t.plan) /\ c \in t.flight
  BY DEF Settles
<1>2. c \in t.plan /\ Made(t) \subseteq t.plan /\ PlanOK(h, t.plan) /\ t.flight \subseteq t.plan
  BY <1>1 DEF TaskOK, Sets, Made
<1>3. \A e \in links :
        /\ e \in t.plan /\ e \notin Made(t)
        /\ \A d \in t.plan : d.stage < e.stage /\ d.on = e.on => d \in now.earned
  <2>1. links = NextOf(h, t, c, out)
    BY DEF NextOf
  <2>2. QED
    BY SMT, <2>1, NextOfFacts
<1>4. \A d \in now.answered : Checked(h, d) => d \in now.earned
  BY SettlesAccepted
<1>5. \A e \in links : e.stage = c.stage + 1 /\ e.on = c.on
  BY DEF Links
<1>6. ASSUME NEW e \in t.plan, e.on = c.on, c.stage < e.stage PROVE links # {}
  <2>1. c.stage + 1 \in DOMAIN h.stages
    BY SMT, <1>1, <1>2, <1>6, HandlersAssumption DEF PlanFacts
  <2>2. PICK d \in t.plan : d.stage = c.stage + 1 /\ d.on = c.on
    BY <1>2, <2>1 DEF PlanOK
  <2>3. QED
    BY <2>2 DEF Links
<1> HIDE DEF links, rest
<1>7. ASSUME NEW e \in t.plan \ Made(t)
      PROVE  \E d \in rest \cup links : d.on = e.on /\ d.stage <= e.stage
  <2>1. PICK d \in t.flight : d.on = e.on /\ d.stage < e.stage
    BY <1>1 DEF TaskOK, ByChain
  <2>2. d.stage \in Nat /\ e.stage \in Nat
    BY <1>1, <1>2 DEF PlanFacts
  <2>3. CASE d # c
    BY SMT, <2>1, <2>2, <2>3 DEF rest
  <2>4. CASE d = c
    BY SMT, <1>5, <1>6, <2>1, <2>2, <2>4
  <2>5. QED
    BY <2>3, <2>4
<1>8. CASE r.ended = "done"
  <2>1. rest = {} /\ links = {} /\ r.sends = {} /\ (h.gate = "stepper" => r.says)
    BY <1>8 DEF rest, links
  <2>2. Sets(now) /\ Made(now) = Made(t) /\ InOrder(h, now)
    BY SMT, <2>1, SettlesSets, SettlesInOrder
  <2>3. Made(t) = t.plan
    BY <1>2, <1>7, <2>1
  <2>4. now.flight = {} /\ now.answered = t.plan
    BY <1>1, <2>1, <2>2, <2>3 DEF Made
  <2>5. Served(h, now) /\ Announced(h, now)
    BY <1>1, <1>4, <2>4 DEF Served, Announced, Made
  <2>6. Heard(h, now)
    BY <2>1 DEF Heard, Silent, Tidings
  <2>7. QED
    BY <1>1, <1>2, <1>8, <2>2, <2>5, <2>6 DEF TaskOK, Accepted, ByStage, ByChain
<1>9. CASE r.ended # "done"
  <2>1. r.sends = links /\ r.ended = "no" /\ ~r.says
    BY <1>9 DEF links
  <2>2. Sets(now) /\ Made(now) = Made(t) \cup links
    BY SMT, <1>3, <2>1, SettlesSets
  <2>3. Announced(h, now) /\ InOrder(h, now)
    BY SMT, <1>3, <2>1, SettlesAnnounced, SettlesInOrder
  <2>4. ByChain(h, now)
    <3> SUFFICES ASSUME NEW e \in t.plan \ Made(now)
                 PROVE  \E d \in now.flight : d.on = e.on /\ d.stage < e.stage
      BY <1>1 DEF ByChain
    <3>1. PICK d \in rest \cup links : d.on = e.on /\ d.stage <= e.stage
      BY <1>7, <2>2
    <3>2. d \in now.flight /\ d \in t.plan
      BY <1>1, <1>2, <1>3, <2>1, <3>1 DEF rest
    <3>3. d # e
      BY <3>2 DEF Made
    <3>4. d.stage # e.stage
      BY SMT, <1>1, <3>1, <3>2, <3>3 DEF CallSet, PlanFacts
    <3>5. QED
      BY SMT, <1>1, <3>1, <3>2, <3>4 DEF PlanFacts
  <2>5. QED
    BY <1>1, <1>2, <1>4, <2>1, <2>2, <2>3, <2>4
    DEF TaskOK, Accepted, Served, ByStage, Heard, Silent
<1>10. QED
  BY <1>8, <1>9

\* Stage by stage: nothing more is sent while a call of the stage is awaited.
LEMMA SettlesWaiting ==
  ASSUME NEW h \in Handlers, NEW t, NEW c, NEW out, NEW r, NEW now,
         Settles(h, t, c, out, r, now), Tidings(h, t, c, out, r, now),
         t.ended = "no", ~Fails(SpecOf(h, c), out), out # "zero", ~h.chained,
         r.stage = t.stage, r.sends = {}, r.ended = "no", ~r.says
  PROVE  TaskOK(h, now)
<1>1. /\ TaskOK(h, t) /\ now.plan = t.plan /\ now.ended = "no" /\ now.stage = t.stage
      /\ now.answered = t.answered \cup {c}
  BY DEF Settles
<1>2. Sets(now) /\ Made(now) = Made(t) /\ Announced(h, now) /\ InOrder(h, now)
  BY SMT, SettlesSets, SettlesAnnounced, SettlesInOrder
<1>3. Accepted(h, now)
  BY SettlesAccepted DEF Accepted
<1>4. ByStage(h, now)
  BY <1>1, <1>2 DEF ByStage, TaskOK
<1>5. QED
  BY <1>1, <1>2, <1>3, <1>4 DEF TaskOK, Served, ByChain, Heard, Silent

\* The handler goes on from the stage of t, with no call of it left to wait for:
\* to its end, or up to the next call it waits for.
Proceeds(h, t, c, r, done) ==
  /\ \A d \in t.flight \ {c} : d.stage = t.stage => ~Waits(h, d)
  /\ r.stage \in Nat /\ done \in BOOLEAN
  /\ done => /\ r.sends = {d \in t.plan : d.stage > t.stage}
             /\ \A d \in t.plan : d.stage > t.stage => ~Waits(h, d)
             /\ r.ended = "done" /\ (h.gate = "stepper" => r.says)
  /\ ~done => /\ r.stage > t.stage
              /\ r.sends = {d \in t.plan : d.stage > t.stage /\ d.stage <= r.stage}
              /\ \A d \in t.plan : d.stage > t.stage /\ d.stage < r.stage => ~Waits(h, d)
              /\ r.ended = "no" /\ ~r.says

\* The last awaited call of a stage.
LEMMA SettlesStage ==
  ASSUME NEW h \in Handlers, NEW t, NEW c, NEW out, NEW r, NEW now,
         Settles(h, t, c, out, r, now), Tidings(h, t, c, out, r, now),
         t.ended = "no", ~Fails(SpecOf(h, c), out), out # "zero", ~h.chained,
         NEW done, Proceeds(h, t, c, r, done)
  PROVE  TaskOK(h, now)
<1> USE DEF Proceeds
<1>1. /\ TaskOK(h, t) /\ now.plan = t.plan /\ now.ended = r.ended /\ now.stage = r.stage
      /\ now.flight = (t.flight \ {c}) \cup r.sends /\ now.answered = t.answered \cup {c}
      /\ PlanFacts(h, t.plan) /\ t.stage \in Nat
  BY DEF Settles
<1>2. PlanOK(h, t.plan) /\ Made(t) \subseteq t.plan
  BY <1>1 DEF TaskOK, Sets
<1>3. \A d \in t.plan : d.stage \in Nat /\ (Checked(h, d) => Waits(h, d))
  BY <1>1 DEF PlanFacts
<1>4. /\ \A d \in t.plan : d \in Made(t) <=> d.stage <= t.stage
      /\ \A d \in t.plan : d.stage < t.stage /\ Waits(h, d) => d \in t.answered
  BY <1>1 DEF TaskOK, ByStage
<1>5. \A d \in t.plan : d.stage <= t.stage /\ Waits(h, d) => d \in now.answered
  <2> SUFFICES ASSUME NEW d \in t.plan, d.stage <= t.stage, Waits(h, d), d \notin t.answered
               PROVE  d = c
    BY <1>1
  <2>1. d.stage = t.stage /\ d \in t.flight
    BY SMT, <1>1, <1>3, <1>4 DEF Made
  <2>2. QED
    BY <2>1
<1>6. \A d \in t.plan : d.stage <= t.stage /\ Checked(h, d) => d \in now.earned
  BY <1>3, <1>5, SettlesAccepted
<1>7. \A d \in r.sends : d \in t.plan /\ d.stage > t.stage
  OBVIOUS
<1>8. Sets(now) /\ Made(now) = Made(t) \cup r.sends
  <2>1. r.sends \cap Made(t) = {}
    BY SMT, <1>1, <1>3, <1>4, <1>7
  <2>2. QED
    BY SMT, <1>7, <2>1, SettlesSets
<1>9. InOrder(h, now)
  <2> SUFFICES ASSUME NEW e \in r.sends, NEW d \in t.plan, Checked(h, d),
                      d.stage < e.stage, ~(d.stage <= t.stage)
               PROVE  FALSE
    BY <1>6, SettlesInOrder
  <2>1. Waits(h, d) /\ d.stage > t.stage /\ e.stage \in Nat /\ d.stage \in Nat
    BY SMT, <1>1, <1>3, <1>7
  <2>2. ~done /\ e.stage <= r.stage
    BY <2>1
  <2>3. d.stage < r.stage
    BY SMT, <2>1, <2>2
  <2>4. QED
    BY <2>1, <2>2, <2>3
<1>10. CASE done
  <2>1. \A d \in t.plan : d.stage <= t.stage \/ (d \in r.sends /\ ~Waits(h, d))
    BY SMT, <1>1, <1>3, <1>10
  <2>2. Made(now) = t.plan
    BY <1>2, <1>4, <1>7, <1>8, <2>1
  <2>3. \A d \in now.flight : d \in t.plan /\ d \notin now.answered
    BY <1>1, <1>8 DEF Sets, Made
  <2>4. Served(h, now)
    BY <1>1, <1>5, <2>1, <2>2, <2>3 DEF Served
  <2>5. Announced(h, now)
    BY <1>1, <1>3, <1>6, <2>1 DEF Announced
  <2>6. Heard(h, now)
    BY <1>10 DEF Heard, Silent, Tidings
  <2>7. now.ended = "done"
    BY <1>1, <1>10
  <2>8. Accepted(h, now) /\ ByStage(h, now) /\ ByChain(h, now)
    BY <2>7 DEF Accepted, ByStage, ByChain
  <2>9. QED
    BY <1>1, <1>2, <1>8, <1>9, <2>4, <2>5, <2>6, <2>8 DEF TaskOK
<1>11. CASE ~done
  <2>1. now.ended = "no" /\ ~r.says /\ r.stage > t.stage
    BY <1>1, <1>11
  <2>2. Announced(h, now) /\ Accepted(h, now)
    BY <2>1, SettlesAnnounced, SettlesAccepted DEF Accepted
  <2>3. \A d \in t.plan : d \in Made(now) <=> d.stage <= r.stage
    <3>1. \A d \in t.plan : d \in r.sends <=> d.stage > t.stage /\ d.stage <= r.stage
      BY <1>11
    <3>2. QED
      BY SMT, <1>1, <1>3, <1>4, <1>8, <2>1, <3>1
  <2>4. \A d \in t.plan : d.stage < r.stage /\ Waits(h, d) => d \in now.answered
    BY SMT, <1>1, <1>3, <1>5, <1>11
  <2>5. ByStage(h, now)
    BY <1>1, <2>3, <2>4 DEF ByStage
  <2>6. QED
    BY <1>1, <1>2, <1>8, <1>9, <2>1, <2>2, <2>5 DEF TaskOK, Served, ByChain, Heard, Silent
<1>12. QED
  BY <1>10, <1>11

-----------------------------------------------------------------------------
(* How a handler goes on. *)

LOCAL INSTANCE WellFoundedInduction

\* A set of numbers that is not empty has a least one.
LEMMA MinOfNats ==
  ASSUME NEW S \in SUBSET Nat, S # {}
  PROVE  Min(S) \in S /\ \A y \in S : Min(S) <= y
<1> DEFINE R == {ss \in Nat \X Nat : ss[1] < ss[2]}
<1>1. IsWellFoundedOn(R, Nat)
  BY NatLessThanWellFounded DEF OpToRel
<1> HIDE DEF R
<1>2. PICK x \in S : \A y \in S : ~(<<y, x>> \in R)
  BY <1>1, WFMin
<1>3. \A y \in S : x <= y
  <2> SUFFICES ASSUME NEW y \in S, ~(x <= y) PROVE FALSE
    OBVIOUS
  <2>1. y < x /\ <<y, x>> \in Nat \X Nat
    BY SMT
  <2>2. <<y, x>> \in R
    BY <2>1 DEF R
  <2>3. QED
    BY <1>2, <2>2
<1>4. QED
  BY <1>3 DEF Min

\* A set of indices that is not empty has a greatest one.
LEMMA MaxOfInterval ==
  ASSUME NEW n \in Nat, NEW S \in SUBSET (1..n), S # {}
  PROVE  Max(S) \in S /\ \A y \in S : y <= Max(S)
<1> DEFINE T == {n - x : x \in S}
<1>1. T \in SUBSET Nat
  BY SMT
<1>2. T # {}
  <2>1. PICK x \in S : TRUE
    OBVIOUS
  <2>2. n - x \in T
    OBVIOUS
  <2>3. QED
    BY <2>2
<1>3. Min(T) \in T /\ \A y \in T : Min(T) <= y
  <2> HIDE DEF T
  <2>1. QED
    BY <1>1, <1>2, MinOfNats
<1>4. PICK x \in S : Min(T) = n - x
  BY <1>3
<1>5. \A y \in S : y <= x
  <2> TAKE y \in S
  <2>1. n - y \in T
    OBVIOUS
  <2>2. n - x <= n - y
    BY <1>3, <1>4, <2>1
  <2>3. x \in Nat /\ y \in Nat
    BY SMT
  <2>4. QED
    BY SMT, <2>2, <2>3
<1>6. QED
  BY <1>5 DEF Max

\* How far a handler goes from stage k: up to the next call it waits for.
GoesOn(h, plan, k, g) ==
  /\ g.done \in BOOLEAN /\ g.stage \in Nat /\ g.sends \subseteq plan
  /\ g.done =>
       /\ g.sends = {c \in plan : c.stage > k}
       /\ \A c \in plan : c.stage > k => ~Waits(h, c)
  /\ ~g.done =>
       /\ g.stage > k
       /\ g.sends = {c \in plan : c.stage > k /\ c.stage <= g.stage}
       /\ \E c \in plan : c.stage = g.stage /\ Waits(h, c)
       /\ \A c \in plan : c.stage > k /\ c.stage < g.stage => ~Waits(h, c)

LEMMA GoOnFacts ==
  ASSUME NEW h, NEW plan, PlanOK(h, plan), NEW k \in Nat
  PROVE  GoesOn(h, plan, k, GoOn(h, plan, k))
<1> DEFINE stops == Stops(h, plan, k)
<1>1. stops = {c.stage : c \in {d \in plan : d.stage > k /\ Waits(h, d)}}
  BY DEF Stops, Waits
<1>2. \A c \in plan : c.stage \in Nat
  BY DEF PlanOK, CallSet
<1>3. stops \subseteq Nat
  BY <1>1, <1>2
<1>4. CASE stops = {}
  <2>1. GoOn(h, plan, k) = [done |-> TRUE, stage |-> k, sends |-> {c \in plan : c.stage > k}]
    BY <1>4 DEF GoOn
  <2>2. \A c \in plan : c.stage > k => ~Waits(h, c)
    BY <1>1, <1>4
  <2>3. QED
    BY SMT, <2>1, <2>2 DEF GoesOn
<1>5. CASE stops # {}
  <2> DEFINE next == Min(stops)
  <2>1. next \in stops /\ \A y \in stops : next <= y
    BY <1>3, <1>5, MinOfNats
  <2>2. GoOn(h, plan, k) = [done |-> FALSE, stage |-> next,
          sends |-> {c \in plan : c.stage > k /\ c.stage <= next}]
    BY <1>5 DEF GoOn
  <2> HIDE DEF next
  <2>3. PICK c \in plan : c.stage = next /\ c.stage > k /\ Waits(h, c)
    BY <1>1, <2>1
  <2>4. \A d \in plan : d.stage > k /\ d.stage < next => ~Waits(h, d)
    <3> SUFFICES ASSUME NEW d \in plan, d.stage > k, d.stage < next, Waits(h, d)
                 PROVE  FALSE
      OBVIOUS
    <3>1. d.stage \in stops
      BY <1>1
    <3>2. QED
      BY SMT, <1>2, <1>3, <2>1, <3>1
  <2>5. QED
    BY SMT, <1>2, <2>2, <2>3, <2>4 DEF GoesOn
<1>6. QED
  BY <1>4, <1>5

\* The task t of option o of button b has just started.
Begun(b, o, h, t) ==
  /\ t \in TaskSet(b)
  /\ TaskOK(h, t) /\ Covers(h, t)
  /\ t.option = o
  /\ t.ended = "no" => t.flight # {}

\* A handler starts well.
LEMMA StartedOK ==
  ASSUME NEW b \in Buttons, NEW o \in DOMAIN b.options, NEW rows \in SUBSET Rows,
         NEW h, h = b.options[o], NEW plan \in Plans(h, rows), NEW drop \in BOOLEAN,
         NEW t, t = Started(o, h, rows, plan, drop)
  PROVE  Begun(b, o, h, t)
<1> DEFINE g == GoOn(h, plan, 0)
<1>1. h \in Handlers
  BY ZenonT(40), OptionIsHandler
<1>2. PlanOK(h, plan) /\ plan \subseteq CallSet
  BY SMT, <1>1, PlanIsOK DEF PlanOK
<1>3. GoesOn(h, plan, 0, g)
  BY <1>2, GoOnFacts
<1>4. t = [option |-> o, rows |-> rows, plan |-> plan, stage |-> g.stage,
           flight |-> g.sends, answered |-> {}, earned |-> {}, dropped |-> drop,
           told |-> IF g.done /\ h.says THEN {"success"} ELSE {},
           ended |-> IF g.done THEN "done" ELSE "no"]
  BY DEF Started
<1> HIDE DEF g
<1>5. t \in TaskSet(b)
  <2>1. (IF g.done /\ h.says THEN {"success"} ELSE {}) \in SUBSET Messages
    BY DEF Messages
  <2>2. (IF g.done THEN "done" ELSE "no") \in {"no", "done", "failed"}
    OBVIOUS
  <2>3. plan \in SUBSET CallSet /\ g.sends \in SUBSET CallSet /\ g.stage \in Nat
    BY <1>2, <1>3 DEF GoesOn
  <2>4. QED
    BY SMT, <1>4, <2>1, <2>2, <2>3 DEF TaskSet
<1>6. \A c \in plan : /\ c.stage \in Nat /\ c.stage > 0
                      /\ Checked(h, c) => Waits(h, c)
  BY <1>1, <1>2, PlanCalls
<1>7. t.ended = "done" => t.flight = plan /\ \A c \in plan : ~Waits(h, c)
  <2>1. (t.ended = "done" => g.done) /\ t.flight = g.sends
    BY SMT, <1>4
  <2>2. QED
    BY <1>3, <1>6, <2>1 DEF GoesOn
<1>8. t.ended = "no" => t.flight # {}
  BY SMT, <1>3, <1>4, <1>6 DEF GoesOn
<1>9. "success" \in t.told => \A c \in plan : ~Checked(h, c)
  BY SMT, <1>4, <1>6, <1>7
<1>10. ASSUME NEW c \in t.flight, NEW d \in plan, Checked(h, d), d.stage < c.stage
       PROVE  FALSE
  <2>1. Waits(h, d) /\ d.stage > 0
    BY <1>6, <1>10
  <2>2. CASE g.done
    BY <1>3, <2>1, <2>2 DEF GoesOn
  <2>3. CASE ~g.done
    <3>1. c \in plan /\ c.stage <= g.stage
      BY SMT, <1>3, <1>4, <2>3 DEF GoesOn
    <3>2. d.stage < g.stage
      <4>1. c.stage \in Nat /\ d.stage \in Nat /\ g.stage \in Nat
        BY <1>3, <1>6, <3>1 DEF GoesOn
      <4>2. QED
        BY SMT, <1>10, <3>1, <4>1
    <3>3. QED
      BY ZenonT(40), <1>3, <2>1, <2>3, <3>2 DEF GoesOn
  <2>4. QED
    BY <1>3, <2>2, <2>3 DEF GoesOn
<1>11. ASSUME t.ended = "no"
       PROVE  /\ \A c \in plan : c \in t.flight <=> c.stage <= t.stage
              /\ \A c \in plan : c.stage < t.stage => ~Waits(h, c)
  <2>1. ~g.done /\ t.stage = g.stage /\ t.flight = g.sends
    BY SMT, <1>3, <1>4, <1>11 DEF GoesOn
  <2>2. /\ g.sends = {c \in plan : c.stage > 0 /\ c.stage <= g.stage}
        /\ \A c \in plan : c.stage > 0 /\ c.stage < g.stage => ~Waits(h, c)
    BY <1>3, <2>1 DEF GoesOn
  <2>3. QED
    BY <1>6, <2>1, <2>2
<1>12. ASSUME t.ended = "no", h.chained, NEW c \in plan \ t.flight
       PROVE  \E d \in t.flight : d.on = c.on /\ d.stage < c.stage
  <2>1. 1 \in DOMAIN h.stages
    BY SMT, <1>1, <1>2, PlanCalls, HandlersAssumption
  <2>2. PICK d \in plan : d.stage = 1 /\ d.on = c.on
    BY ZenonT(40), <1>2, <1>12, <2>1 DEF PlanOK
  <2>3. ~g.done /\ t.stage = g.stage
    BY SMT, <1>3, <1>4, <1>12 DEF GoesOn
  <2>4. d.stage <= t.stage
    BY SMT, <1>3, <2>2, <2>3 DEF GoesOn
  <2>5. d \in t.flight
    BY <1>11, <1>12, <2>4
  <2>6. c.stage > t.stage
    <3>1. ~(c.stage <= t.stage)
      BY <1>11, <1>12
    <3>2. c.stage \in Nat /\ t.stage \in Nat
      BY <1>3, <1>6, <1>12, <2>3 DEF GoesOn
    <3>3. QED
      BY SMT, <3>1, <3>2
  <2>7. d.stage < c.stage
    <3>1. c.stage \in Nat /\ d.stage \in Nat /\ t.stage \in Nat
      BY <1>3, <1>6, <1>12, <2>2, <2>3 DEF GoesOn
    <3>2. QED
      BY SMT, <2>4, <2>6, <3>1
  <2>8. QED
    BY <2>2, <2>5, <2>7
<1>13. ~Silent(h, t)
  <2>1. h.gate = "stepper" => h.says
    BY <1>1, HandlersAssumption
  <2>2. QED
    BY SMT, <1>4, <2>1 DEF Silent
<1>14. TaskOK(h, t)
  <2>1. t.plan = plan /\ t.answered = {} /\ t.earned = {} /\ t.flight \subseteq plan
    BY SMT, <1>3, <1>4 DEF GoesOn
  <2>2. Sets(t) /\ Accepted(h, t) /\ Announced(h, t)
    BY <1>9, <2>1 DEF Sets, Made, Accepted, Announced
  <2>3. Served(h, t) /\ InOrder(h, t)
    BY <1>7, <1>10, <2>1 DEF Served, InOrder, Made
  <2>4. ByStage(h, t) /\ ByChain(h, t)
    BY <1>11, <1>12, <2>1 DEF ByStage, ByChain, Made
  <2>5. QED
    BY <1>2, <1>13, <2>1, <2>2, <2>3, <2>4 DEF TaskOK, Heard
<1>15. Covers(h, t)
  <2>1. t.rows = rows /\ t.plan = plan
    BY SMT, <1>4
  <2>2. QED
    BY <1>1, <2>1, PlanCovers
<1>16. QED
  BY SMT, <1>4, <1>5, <1>8, <1>14, <1>15 DEF Begun

\* The task t of button b has gone on to now, with the calls of r.
Continued(b, h, t, r, now) ==
  /\ now \in TaskSet(b)
  /\ TaskOK(h, now)
  /\ now.option = t.option /\ now.rows = t.rows /\ now.plan = t.plan
  /\ now.dropped = t.dropped
  /\ r.sends \subseteq now.flight
  /\ now.ended = "no" => t.ended = "no"

\* A task is as good after an answer as before.
LEMMA SettledOK ==
  ASSUME NEW b \in Buttons, NEW t \in TaskSet(b), NEW h, h = b.options[t.option],
         TaskOK(h, t), NEW c \in t.flight, NEW out \in Outcomes(SpecOf(h, c)), NEW first
  PROVE  LET r == Reaction(h, t, c, out)
         IN  Continued(b, h, t, r, Settled(h, t, c, out, r, first))
<1> DEFINE failed == Fails(SpecOf(h, c), out)
           rest == t.flight \ {c}
           links == NextOf(h, t, c, out)
           g == GoOn(h, t.plan, t.stage)
           r == Reaction(h, t, c, out)
           now == Settled(h, t, c, out, r, first)
           waits == \/ ~Waits(h, c) \/ c.stage # t.stage
                    \/ \E d \in rest : d.stage = t.stage /\ Waits(h, d)
<1>1. h \in Handlers /\ TaskOK(h, t)
  BY OptionIsHandler DEF TaskSet
<1>2. /\ PlanOK(h, t.plan) /\ c \in t.plan /\ c \in CallSet
      /\ t.stage \in Nat /\ t.plan \in SUBSET CallSet
      /\ t.ended \in {"no", "done", "failed"}
  BY DEF TaskOK, TaskSet, Sets, Made
<1>3. /\ out \in {"accepted", "refused", "unauthorized", "lost", "zero"}
      /\ out = "zero" => SpecOf(h, c).reads = "truthy"
      /\ out = "lost" => SpecOf(h, c).reads \in {"array", "document"}
  BY <1>1, <1>2, OutcomeFacts
<1>4. Reacts(h, t, c, out, g, r)
  BY ReactionCases
<1>5. GoesOn(h, t.plan, t.stage, g)
  BY <1>2, GoOnFacts
<1>6. /\ links \subseteq t.plan
      /\ h.chained /\ ~failed => links = Links(t.plan, c)
  BY DEF NextOf, Links
<1>7. h.says \in BOOLEAN /\ h.chained \in BOOLEAN /\ (h.gate = "stepper" => h.says)
  BY <1>1, HandlersAssumption
<1> HIDE DEF failed, links, g, r, now
<1>8. r.stage \in Nat /\ r.sends \in SUBSET CallSet /\ r.ended \in {"no", "done", "failed"}
  <2>1. \/ \E e \in {"no", "done", "failed"} :
             Moved(r, t.stage, links, e) \/ Moved(r, t.stage, {}, e)
        \/ Moved(r, g.stage, g.sends, IF g.done THEN "done" ELSE "no")
    BY <1>2, <1>4, <1>7 DEF Reacts, links
  <2>2. g.stage \in Nat /\ g.sends \subseteq t.plan
    BY <1>5 DEF GoesOn
  <2>3. QED
    BY <1>2, <1>6, <2>1, <2>2 DEF Moved
<1>9. /\ now \in TaskSet(b)
      /\ now.option = t.option /\ now.rows = t.rows /\ now.plan = t.plan
      /\ now.dropped = t.dropped /\ now.stage = r.stage /\ now.ended = r.ended
      /\ now.flight = (t.flight \ {c}) \cup r.sends
      /\ now.answered = t.answered \cup {c}
      /\ now.earned = IF Checked(h, c) /\ out \in {"accepted", "lost"}
                      THEN t.earned \cup {c} ELSE t.earned
  <2>1. c \in CallSet /\ now = Settled(h, t, c, out, r, first)
    BY <1>2 DEF now
  <2>2. now \in TaskSet(b) /\ After(h, t, c, out, r, now)
    BY <1>8, <2>1, SettledFields
  <2>3. QED
    BY <2>2 DEF After
<1>10. Settles(h, t, c, out, r, now)
  <2>1. PlanFacts(h, t.plan)
    BY <1>1, <1>2, PlanCalls DEF PlanFacts
  <2>2. t.earned \subseteq now.earned /\ now.earned \subseteq now.answered
    BY <1>1, <1>9 DEF TaskOK, Sets
  <2>3. ~Fails(SpecOf(h, c), out) /\ out # "zero" /\ Checked(h, c) => c \in now.earned
    BY <1>3, <1>9 DEF Checked, Fails
  <2>4. QED
    BY <1>1, <1>2, <1>9, <2>1, <2>2, <2>3 DEF Settles
<1>11. Tidings(h, t, c, out, r, now)
  BY SettledTold DEF Tidings, now
<1>12. ASSUME t.ended # "no" PROVE TaskOK(h, now) /\ now.ended # "no"
  <2>1. r.sends = NextOf(h, t, c, out) /\ r.ended = t.ended /\ ~r.says
    <3>1. Moved(r, t.stage, links, t.ended) /\ ~r.says
      BY <1>4, <1>12 DEF Reacts, links
    <3>2. QED
      BY <3>1 DEF Moved, links
  <2>2. QED
    BY <1>1, <1>3, <1>9, <1>10, <1>11, <1>12, <2>1, SettlesEnded
<1>13. ASSUME t.ended = "no", failed PROVE TaskOK(h, now)
  <2>1. r.sends = {} /\ r.ended = "failed" /\ ~r.says /\ Fails(SpecOf(h, c), out)
    <3>1. Moved(r, t.stage, {}, "failed") /\ ~r.says
      BY <1>4, <1>13 DEF Reacts, failed
    <3>2. QED
      BY <1>13, <3>1 DEF Moved, failed
  <2>2. QED
    BY <1>1, <1>3, <1>10, <1>11, <1>13, <2>1, SettlesFailed
<1>14. ASSUME t.ended = "no", ~failed, out = "zero" PROVE TaskOK(h, now)
  <2>1. r.sends = {} /\ r.ended = "done" /\ ~r.says
    <3>1. Moved(r, t.stage, {}, "done") /\ ~r.says
      BY <1>4, <1>14 DEF Reacts, failed
    <3>2. QED
      BY <3>1 DEF Moved
  <2>2. QED
    BY <1>1, <1>3, <1>10, <1>11, <1>14, <2>1, SettlesZero
<1>15. ASSUME t.ended = "no", ~failed, out # "zero", h.chained PROVE TaskOK(h, now)
  <2>1. \/ /\ rest \cup Links(t.plan, c) = {}
           /\ r.sends = {} /\ r.ended = "done" /\ (h.gate = "stepper" => r.says)
        \/ r.sends = Links(t.plan, c) /\ r.ended = "no" /\ ~r.says
    <3>1. IF rest \cup links = {} THEN Moved(r, t.stage, {}, "done") /\ r.says = h.says
          ELSE Moved(r, t.stage, links, "no") /\ ~r.says
      BY <1>4, <1>15 DEF Reacts, failed, links
    <3>2. QED
      BY <1>6, <1>7, <1>15, <3>1 DEF Moved
  <2>2. ~Fails(SpecOf(h, c), out)
    BY <1>15 DEF failed
  <2>3. QED
    BY <1>1, <1>10, <1>11, <1>15, <2>1, <2>2, SettlesChain
<1>16. ASSUME t.ended = "no", ~failed, out # "zero", ~h.chained PROVE TaskOK(h, now)
  <2>1. ~Fails(SpecOf(h, c), out)
    BY <1>16 DEF failed
  <2>2. CASE waits
    <3>1. r.stage = t.stage /\ r.sends = {} /\ r.ended = "no" /\ ~r.says
      <4>1. Moved(r, t.stage, {}, "no") /\ ~r.says
        BY <1>4, <1>16, <2>2 DEF Reacts, failed
      <4>2. QED
        BY <4>1 DEF Moved
    <3>2. QED
      BY <1>1, <1>10, <1>11, <1>16, <2>1, <3>1, SettlesWaiting
  <2>3. CASE ~waits
    <3>1. Moved(r, g.stage, g.sends, IF g.done THEN "done" ELSE "no")
      BY <1>4, <1>16, <2>3 DEF Reacts, failed
    <3>2. r.says = (g.done /\ h.says)
      BY <1>4, <1>16, <2>3 DEF Reacts, failed
    <3>3. r.stage = g.stage /\ r.sends = g.sends /\ r.ended = IF g.done THEN "done" ELSE "no"
      BY <3>1 DEF Moved
    <3>4. \A d \in rest : d.stage = t.stage => ~Waits(h, d)
      BY <2>3
    <3>5. g.done => /\ r.sends = {d \in t.plan : d.stage > t.stage}
                    /\ \A d \in t.plan : d.stage > t.stage => ~Waits(h, d)
                    /\ r.ended = "done" /\ (h.gate = "stepper" => r.says)
      BY <1>5, <1>7, <3>2, <3>3 DEF GoesOn
    <3>6. ~g.done => /\ r.stage > t.stage
                     /\ r.sends = {d \in t.plan : d.stage > t.stage /\ d.stage <= r.stage}
                     /\ \A d \in t.plan : d.stage > t.stage /\ d.stage < r.stage => ~Waits(h, d)
                     /\ r.ended = "no" /\ ~r.says
      BY <1>5, <3>2, <3>3 DEF GoesOn
    <3>7. g.done \in BOOLEAN /\ r.stage \in Nat
      BY <1>5, <3>3 DEF GoesOn
    <3>8. Proceeds(h, t, c, r, g.done)
      BY <3>4, <3>5, <3>6, <3>7 DEF Proceeds, rest
    <3>9. QED
      BY <1>1, <1>10, <1>11, <1>16, <2>1, <3>8, SettlesStage
  <2>4. QED
    BY <2>2, <2>3
<1>17. QED
  <2>1. TaskOK(h, now) /\ (now.ended = "no" => t.ended = "no")
    BY <1>7, <1>12, <1>13, <1>14, <1>15, <1>16
  <2>2. /\ now \in TaskSet(b)
        /\ TaskOK(h, now)
        /\ now.option = t.option /\ now.rows = t.rows /\ now.plan = t.plan
        /\ now.dropped = t.dropped
        /\ r.sends \subseteq now.flight
    BY <1>9, <2>1
  <2>3. Continued(b, h, t, r, now)
    BY <2>1, <2>2 DEF Continued
  <2>4. QED
    BY <2>3 DEF now, r

----------------------------------------------------------------------------
-----------------------------------------------------------------------------
(* The submissions of a button. *)

\* A span is a part of the sequence in its order, and holds the chosen elements.
LEMMA SpanIsPart ==
  ASSUME NEW T, NEW ts \in Seq(T), NEW at \in SUBSET DOMAIN ts
  PROVE  /\ Span(ts, at) \in Seq(T)
         /\ \E m \in Nat :
              /\ \A i \in DOMAIN Span(ts, at) :
                   i + m \in DOMAIN ts /\ Span(ts, at)[i] = ts[i + m]
              /\ \A j \in at :
                   j - m \in DOMAIN Span(ts, at) /\ Span(ts, at)[j - m] = ts[j]
<1>1. CASE at = {}
  BY SMT, <1>1 DEF Span
<1>2. CASE at # {}
  <2>1. at \in SUBSET (1..Len(ts)) /\ Len(ts) \in Nat
    BY SMT
  <2> DEFINE lo == Min(at)
             hi == Max(at)
  <2>2. lo \in at /\ \A y \in at : lo <= y
    BY SMT, <1>2, <2>1, MinOfNats
  <2>3. hi \in at /\ \A y \in at : y <= hi
    BY <1>2, <2>1, MaxOfInterval
  <2> HIDE DEF lo, hi
  <2>4. Span(ts, at) = SubSeq(ts, lo, hi)
    BY <1>2 DEF Span, lo, hi
  <2>5. /\ lo \in 1..Len(ts) /\ hi \in 1..Len(ts) /\ lo <= hi
    BY <2>1, <2>2, <2>3
  <2>6. /\ SubSeq(ts, lo, hi) \in Seq(T)
        /\ DOMAIN SubSeq(ts, lo, hi) = 1..(hi - lo + 1)
        /\ \A i \in 1..(hi - lo + 1) : SubSeq(ts, lo, hi)[i] = ts[i + lo - 1]
    BY SMT, <2>1, <2>5
  <2>7. lo - 1 \in Nat
    BY SMT, <2>5
  <2>8. \A i \in DOMAIN Span(ts, at) :
          i + (lo - 1) \in DOMAIN ts /\ Span(ts, at)[i] = ts[i + (lo - 1)]
    <3> SUFFICES ASSUME NEW i \in DOMAIN Span(ts, at)
                 PROVE  i + (lo - 1) \in DOMAIN ts /\ Span(ts, at)[i] = ts[i + (lo - 1)]
      OBVIOUS
    <3>1. i \in 1..(hi - lo + 1)
      BY <2>4, <2>6
    <3>2. i + (lo - 1) \in 1..Len(ts) /\ i + lo - 1 = i + (lo - 1)
      BY SMT, <2>5, <3>1
    <3>3. Span(ts, at)[i] = ts[i + lo - 1]
      BY <2>4, <2>6, <3>1
    <3>4. QED
      BY SMT, <2>1, <3>2, <3>3
  <2>9. \A j \in at : /\ j - (lo - 1) \in DOMAIN Span(ts, at)
                      /\ Span(ts, at)[j - (lo - 1)] = ts[j]
    <3> SUFFICES ASSUME NEW j \in at
                 PROVE  /\ j - (lo - 1) \in DOMAIN Span(ts, at)
                        /\ Span(ts, at)[j - (lo - 1)] = ts[j]
      OBVIOUS
    <3>1. j \in Nat /\ lo <= j /\ j <= hi
      BY SMT, <2>1, <2>2, <2>3
    <3>2. j - (lo - 1) \in 1..(hi - lo + 1) /\ j - (lo - 1) + lo - 1 = j
      BY SMT, <2>5, <3>1
    <3>3. QED
      BY <2>4, <2>6, <3>2
  <2>10. QED
    BY <2>4, <2>6, <2>7, <2>8, <2>9
<1>3. QED
  BY <1>1, <1>2

GateOf(b, t) == b.options[t.option].gate
Sound(b, t) == TaskOK(b.options[t.option], t) /\ Covers(b.options[t.option], t)
TasksOK(b, ts) ==
  /\ ts \in Seq(TaskSet(b))
  /\ \A i \in DOMAIN ts : Sound(b, ts[i])

\* A handler that fetchRequest waits for.
ByFetch(b, t) == GateOf(b, t) \in {"dialog", "button"}
AnyHeld(b, ts) == \E i \in DOMAIN ts : Awaited(ts[i]) /\ ByFetch(b, ts[i])

\* A dialog stays open while its handler is waited for.
DialogsStay(b, op, ts) ==
  \A i \in DOMAIN ts :
    Awaited(ts[i]) /\ GateOf(b, ts[i]) = "dialog" => op # None /\ op.option = ts[i].option

\* OverlapHasACause, of given tasks.
Caused(b, m, s, d, ts) ==
  \A i, j \in DOMAIN ts :
    i < j /\ Live(ts[i]) /\ Live(ts[j]) =>
      /\ ByFetch(b, ts[i]) => ts[i].dropped \/ d
      /\ GateOf(b, ts[j]) \in {"steps", "stepper"} => m \/ s

\* The tasks us are some of ts, in their order, further on.
Shadows(us, ts) ==
  \E m \in Nat : \A i \in DOMAIN us :
    /\ i + m \in DOMAIN ts
    /\ us[i].option = ts[i + m].option
    /\ Live(us[i]) => Live(ts[i + m])
    /\ ts[i + m].dropped => us[i].dropped

\* What is said of all tasks holds of those that are left.
LEMMA ShadowsKeep ==
  ASSUME NEW b, NEW T, NEW ts \in Seq(T), NEW us \in Seq(T), Shadows(us, ts),
         NEW op, NEW m, NEW s, NEW d
  PROVE  /\ AnyLive(us) => AnyLive(ts)
         /\ AnyHeld(b, us) => AnyHeld(b, ts)
         /\ DialogsStay(b, op, ts) => DialogsStay(b, op, us)
         /\ Caused(b, m, s, d, ts) => Caused(b, m, s, d, us)
<1>1. PICK k \in Nat : \A i \in DOMAIN us :
        /\ i + k \in DOMAIN ts
        /\ us[i].option = ts[i + k].option
        /\ Live(us[i]) => Live(ts[i + k])
        /\ ts[i + k].dropped => us[i].dropped
  BY DEF Shadows
<1>2. AnyLive(us) => AnyLive(ts)
  BY <1>1 DEF AnyLive
<1>3. AnyHeld(b, us) => AnyHeld(b, ts)
  BY <1>1 DEF AnyHeld, Awaited, ByFetch, GateOf
<1>4. DialogsStay(b, op, ts) => DialogsStay(b, op, us)
  BY <1>1 DEF DialogsStay, Awaited, GateOf
<1>5. ASSUME Caused(b, m, s, d, ts), NEW i \in DOMAIN us, NEW j \in DOMAIN us,
             i < j, Live(us[i]), Live(us[j])
      PROVE  /\ ByFetch(b, us[i]) => us[i].dropped \/ d
             /\ GateOf(b, us[j]) \in {"steps", "stepper"} => m \/ s
  <2>1. i + k < j + k
    BY SMT, <1>1, <1>5
  <2>2. /\ ByFetch(b, ts[i + k]) => ts[i + k].dropped \/ d
        /\ GateOf(b, ts[j + k]) \in {"steps", "stepper"} => m \/ s
    BY <1>1, <1>5, <2>1 DEF Caused
  <2>3. QED
    BY <1>1, <2>2 DEF ByFetch, GateOf
<1>6. QED
  BY <1>2, <1>3, <1>4, <1>5 DEF Caused

\* The tasks of a span are well-formed, and are the chosen ones.
LEMMA SpanOK ==
  ASSUME NEW b, NEW ts, TasksOK(b, ts), NEW at \in SUBSET DOMAIN ts
  PROVE  /\ TasksOK(b, Span(ts, at))
         /\ Shadows(Span(ts, at), ts)
         /\ \A j \in at : \E i \in DOMAIN Span(ts, at) : Span(ts, at)[i] = ts[j]
<1> DEFINE us == Span(ts, at)
<1>1. ts \in Seq(TaskSet(b))
  BY DEF TasksOK
<1>2. /\ us \in Seq(TaskSet(b))
      /\ \E m \in Nat :
           /\ \A i \in DOMAIN us : i + m \in DOMAIN ts /\ us[i] = ts[i + m]
           /\ \A j \in at : j - m \in DOMAIN us /\ us[j - m] = ts[j]
  BY <1>1, SpanIsPart
<1> HIDE DEF us
<1>3. PICK m \in Nat :
        /\ \A i \in DOMAIN us : i + m \in DOMAIN ts /\ us[i] = ts[i + m]
        /\ \A j \in at : j - m \in DOMAIN us /\ us[j - m] = ts[j]
  BY <1>2
<1>4. TasksOK(b, us)
  BY <1>2, <1>3 DEF TasksOK
<1>5. Shadows(us, ts)
  BY <1>3 DEF Shadows
<1>6. \A j \in at : \E i \in DOMAIN us : us[i] = ts[j]
  BY <1>3
<1>7. QED
  BY <1>4, <1>5, <1>6 DEF us

\* Forgetting the tasks that are over loses none that is not.
LEMMA KeptOK ==
  ASSUME NEW b, NEW ts, TasksOK(b, ts)
  PROVE  /\ TasksOK(b, Kept(ts))
         /\ Shadows(Kept(ts), ts)
         /\ InFlight(ts) => InFlight(Kept(ts))
<1>1. AllUnder(ts) \in SUBSET DOMAIN ts
  BY DEF AllUnder
<1>2. /\ TasksOK(b, Kept(ts))
      /\ Shadows(Kept(ts), ts)
      /\ \A j \in AllUnder(ts) : \E i \in DOMAIN Kept(ts) : Kept(ts)[i] = ts[j]
  BY <1>1, SpanOK DEF Kept
<1>3. ASSUME InFlight(ts) PROVE InFlight(Kept(ts))
  <2>1. PICK j \in DOMAIN ts : ts[j].flight # {}
    BY <1>3 DEF InFlight
  <2>2. j \in AllUnder(ts)
    BY <2>1 DEF AllUnder, Under
  <2>3. QED
    BY <1>2, <2>1, <2>2 DEF InFlight
<1>4. QED
  BY <1>2, <1>3

\* Whether a task is dropped is nothing to its handler.
LEMMA DropIsOK ==
  ASSUME NEW b, NEW t \in TaskSet(b), Sound(b, t), NEW x \in BOOLEAN
  PROVE  LET u == [t EXCEPT !.dropped = x]
         IN  u \in TaskSet(b) /\ Sound(b, u)
<1> DEFINE u == [t EXCEPT !.dropped = x]
           h == b.options[t.option]
<1>1. u \in TaskSet(b)
  BY DEF TaskSet
<1>2. /\ u.plan = t.plan /\ u.stage = t.stage /\ u.flight = t.flight
      /\ u.option = t.option /\ u.rows = t.rows
      /\ u.answered = t.answered /\ u.earned = t.earned /\ u.told = t.told
      /\ u.ended = t.ended
  BY DEF TaskSet
<1> HIDE DEF u, h
<1>3. Made(u) = Made(t) /\ TaskOK(h, t) /\ Covers(h, t)
  BY <1>2 DEF Made, Sound, h
<1>4. Sets(u) /\ Accepted(h, u) /\ Announced(h, u) /\ Served(h, u)
  BY <1>2, <1>3 DEF TaskOK, Sets, Accepted, Announced, Served
<1>5. InOrder(h, u) /\ ByStage(h, u) /\ ByChain(h, u) /\ Heard(h, u)
  BY <1>2, <1>3 DEF TaskOK, InOrder, ByStage, ByChain, Heard, Silent
<1>6. TaskOK(h, u) /\ Covers(h, u)
  BY <1>2, <1>3, <1>4, <1>5 DEF TaskOK, Covers
<1>7. QED
  BY <1>1, <1>2, <1>6 DEF Sound, u, h

\* Forgetting and going on can be repeated.
LEMMA ShadowsOfShadows ==
  ASSUME NEW T, NEW ts \in Seq(T), NEW us \in Seq(T), NEW vs \in Seq(T),
         Shadows(us, ts), Shadows(vs, us)
  PROVE  Shadows(vs, ts)
<1>1. PICK m \in Nat : \A i \in DOMAIN us :
        /\ i + m \in DOMAIN ts
        /\ us[i].option = ts[i + m].option
        /\ Live(us[i]) => Live(ts[i + m])
        /\ ts[i + m].dropped => us[i].dropped
  BY DEF Shadows
<1>2. PICK n \in Nat : \A i \in DOMAIN vs :
        /\ i + n \in DOMAIN us
        /\ vs[i].option = us[i + n].option
        /\ Live(vs[i]) => Live(us[i + n])
        /\ us[i + n].dropped => vs[i].dropped
  BY DEF Shadows
<1>3. n + m \in Nat /\ \A i \in DOMAIN vs : (i + n) + m = i + (n + m)
  BY SMT, <1>1, <1>2
<1>4. \A i \in DOMAIN vs :
        /\ i + (n + m) \in DOMAIN ts
        /\ vs[i].option = ts[i + (n + m)].option
        /\ Live(vs[i]) => Live(ts[i + (n + m)])
        /\ ts[i + (n + m)].dropped => vs[i].dropped
  BY <1>1, <1>2, <1>3
<1>5. QED
  BY <1>3, <1>4 DEF Shadows

\* Leaving the page drops every task that runs, and changes nothing else.
LEMMA DroppedOK ==
  ASSUME NEW b, NEW ts, TasksOK(b, ts)
  PROVE  /\ TasksOK(b, Dropped(ts))
         /\ Shadows(Dropped(ts), ts)
         /\ InFlight(ts) => InFlight(Dropped(ts))
         /\ \A i \in DOMAIN Dropped(ts) : ~Awaited(Dropped(ts)[i])
<1> DEFINE us == Dropped(ts)
           x(i) == ts[i].dropped \/ Live(ts[i])
<1>1. ts \in Seq(TaskSet(b)) /\ DOMAIN ts = 1..Len(ts) /\ Len(ts) \in Nat
  BY SMT DEF TasksOK
<1>2. DOMAIN us = DOMAIN ts /\ \A i \in DOMAIN ts : us[i] = [ts[i] EXCEPT !.dropped = x(i)]
  BY DEF Dropped
<1>3. \A i \in DOMAIN ts : ts[i] \in TaskSet(b) /\ x(i) \in BOOLEAN
  <2>1. \A i \in DOMAIN ts : ts[i] \in TaskSet(b)
    BY SMT, <1>1
  <2>2. \A i \in DOMAIN ts : x(i) = TRUE \/ x(i) = FALSE
    OBVIOUS
  <2>3. QED
    BY <2>1, <2>2
<1>4. \A i \in DOMAIN ts : /\ us[i].option = ts[i].option /\ us[i].flight = ts[i].flight
                           /\ us[i].ended = ts[i].ended
                           /\ us[i].dropped = x(i)
  BY ZenonT(60), <1>2, <1>3 DEF TaskSet
<1>5. \A i \in DOMAIN ts : us[i] \in TaskSet(b) /\ Sound(b, us[i])
  <2> SUFFICES ASSUME NEW i \in DOMAIN ts
               PROVE  us[i] \in TaskSet(b) /\ Sound(b, us[i])
    OBVIOUS
  <2>1. Sound(b, ts[i])
    BY DEF TasksOK
  <2> HIDE DEF x, us
  <2>2. QED
    BY SMT, <1>2, <1>3, <2>1, DropIsOK
<1>6. us = [i \in 1..Len(ts) |-> us[i]]
  BY <1>1 DEF Dropped
<1> HIDE DEF us
<1>7. us \in Seq(TaskSet(b))
  BY SMT, <1>1, <1>5, <1>6
<1>8. TasksOK(b, us)
  BY <1>2, <1>5, <1>7 DEF TasksOK
<1>9. Shadows(us, ts)
  <2>1. \A i \in DOMAIN us : i + 0 = i
    BY SMT, <1>1, <1>2
  <2>2. \A i \in DOMAIN us : /\ us[i].option = ts[i].option
                             /\ Live(us[i]) => Live(ts[i])
                             /\ ts[i].dropped => us[i].dropped
    BY <1>2, <1>4 DEF Live
  <2>3. QED
    BY SMT, <1>2, <2>1, <2>2 DEF Shadows
<1>10. InFlight(ts) => InFlight(us)
  BY <1>2, <1>4 DEF InFlight
<1>11. \A i \in DOMAIN us : ~Awaited(us[i])
  BY <1>2, <1>4 DEF Awaited, Live
<1>12. QED
  BY <1>8, <1>9, <1>10, <1>11 DEF us

\* One more task.
LEMMA AppendedOK ==
  ASSUME NEW b, NEW ts, TasksOK(b, ts), NEW t \in TaskSet(b), Sound(b, t)
  PROVE  LET us == Append(ts, t)
         IN  /\ TasksOK(b, us)
             /\ DOMAIN us = (DOMAIN ts) \cup {Len(ts) + 1}
             /\ \A i \in DOMAIN ts : us[i] = ts[i] /\ i < Len(ts) + 1
             /\ us[Len(ts) + 1] = t
<1> DEFINE us == Append(ts, t)
<1>1. ts \in Seq(TaskSet(b)) /\ DOMAIN ts = 1..Len(ts) /\ Len(ts) \in Nat
  BY SMT DEF TasksOK
<1>2. us \in Seq(TaskSet(b)) /\ Len(us) = Len(ts) + 1
  BY SMT, <1>1
<1>3. DOMAIN us = 1..(Len(ts) + 1)
  BY SMT, <1>1, <1>2
<1>4. \A i \in DOMAIN ts : us[i] = ts[i] /\ i < Len(ts) + 1
  BY SMT, <1>1
<1>5. us[Len(ts) + 1] = t
  BY SMT, <1>1
<1>6. DOMAIN us = (DOMAIN ts) \cup {Len(ts) + 1}
  BY SMT, <1>1, <1>3
<1> HIDE DEF us
<1>7. TasksOK(b, us)
  BY <1>2, <1>4, <1>5, <1>6 DEF TasksOK
<1>8. QED
  BY <1>4, <1>5, <1>6, <1>7 DEF us

\* One task has got an answer.
LEMMA AnsweredOK ==
  ASSUME NEW b, NEW ts, TasksOK(b, ts), NEW i \in DOMAIN ts, NEW now \in TaskSet(b),
         Sound(b, now),
         now.option = ts[i].option, now.dropped = ts[i].dropped, Live(now) => Live(ts[i]),
         NEW at \in SUBSET DOMAIN ts
  PROVE  LET after == Span([ts EXCEPT ![i] = now], at \cup {i})
         IN  /\ TasksOK(b, after)
             /\ Shadows(after, ts) /\ Shadows(after, [ts EXCEPT ![i] = now])
             /\ now.flight # {} => InFlight(after)
<1> DEFINE us == [ts EXCEPT ![i] = now]
           after == Span(us, at \cup {i})
<1>1. ts \in Seq(TaskSet(b)) /\ DOMAIN ts = 1..Len(ts) /\ Len(ts) \in Nat
  BY SMT DEF TasksOK
<1>2. /\ us \in Seq(TaskSet(b)) /\ DOMAIN us = DOMAIN ts
      /\ us[i] = now
      /\ \A j \in DOMAIN ts : j # i => us[j] = ts[j]
  BY SMT, <1>1
<1> HIDE DEF us
<1>3. TasksOK(b, us)
  BY <1>2 DEF TasksOK
<1>4. Shadows(us, ts)
  <2>1. \A j \in DOMAIN us : j + 0 = j
    BY SMT, <1>1, <1>2
  <2>2. \A j \in DOMAIN us : /\ us[j].option = ts[j].option
                             /\ Live(us[j]) => Live(ts[j])
                             /\ ts[j].dropped => us[j].dropped
    BY <1>2
  <2>3. QED
    BY <1>2, <2>1, <2>2 DEF Shadows
<1>5. /\ TasksOK(b, after) /\ Shadows(after, us)
      /\ \A j \in at \cup {i} : \E k \in DOMAIN after : after[k] = us[j]
  <2>1. at \cup {i} \in SUBSET DOMAIN us
    BY <1>2
  <2>2. QED
    BY <1>3, <2>1, SpanOK
<1> HIDE DEF after
<1>6. Shadows(after, ts)
  BY <1>1, <1>2, <1>4, <1>5, ShadowsOfShadows DEF TasksOK
<1>7. now.flight # {} => InFlight(after)
  BY <1>2, <1>5 DEF InFlight
<1>8. QED
  BY <1>5, <1>6, <1>7 DEF after, us

-----------------------------------------------------------------------------
(* The inductive invariant. *)

\* The clicks whose timers run are on buttons that fetchRequest is behind.
ClickSet(b) == [option : DOMAIN b.options, rows : SUBSET Rows, dropped : BOOLEAN]
ClicksOK(b, cs) == cs \in Seq(ClickSet(b)) /\ \A k \in DOMAIN cs : ByFetch(b, cs[k])

\* What keeps such a button from starting a second handler (held: it waits for
\* one; d: doubled): it is disabled from the timer on, a click that is not
\* dropped waits only while nothing is held, and clicks are dropped together.
FetchOK(b, op, cs, ld, d, held) ==
  /\ ClicksOK(b, cs)
  /\ held => ld \/ d
  /\ \A k \in DOMAIN cs :
       /\ held => ~cs[k].dropped /\ d
       /\ ~cs[k].dropped /\ GateOf(b, cs[k]) = "dialog" =>
            op # None /\ op.option = cs[k].option
       /\ \A j \in DOMAIN cs : j < k /\ ~cs[j].dropped => ~cs[k].dropped /\ d

\* Clicks that are all dropped keep nobody waiting.
LEMMA UnheardOK ==
  ASSUME NEW b, NEW cs, ClicksOK(b, cs)
  PROVE  \A op, d : FetchOK(b, op, Unheard(cs), FALSE, d, FALSE)
<1> DEFINE us == Unheard(cs)
<1>1. cs \in Seq(ClickSet(b)) /\ DOMAIN cs = 1..Len(cs) /\ Len(cs) \in Nat
  BY SMT DEF ClicksOK
<1>2. DOMAIN us = DOMAIN cs /\ \A k \in DOMAIN cs : us[k] = [cs[k] EXCEPT !.dropped = TRUE]
  BY DEF Unheard
<1>3. us = [k \in 1..Len(cs) |-> us[k]]
  BY <1>1 DEF Unheard
<1> HIDE DEF us
<1>4. \A k \in DOMAIN cs : cs[k] \in ClickSet(b)
  BY SMT, <1>1
<1>5. \A k \in DOMAIN cs :
        us[k] \in ClickSet(b) /\ us[k].dropped /\ us[k].option = cs[k].option
  BY <1>2, <1>4 DEF ClickSet
<1>6. us \in Seq(ClickSet(b))
  BY SMT, <1>1, <1>3, <1>5
<1>7. ClicksOK(b, us)
  BY <1>2, <1>5, <1>6 DEF ClicksOK, ByFetch, GateOf
<1>8. QED
  BY <1>2, <1>5, <1>7 DEF FetchOK, us

\* The oldest click c is taken, and the clicks cs are left.
Taken(b, op, c, cs, ld, d, held) ==
  /\ c \in ClickSet(b) /\ ByFetch(b, c)
  /\ FetchOK(b, op, cs, ld, d, held)
  /\ held => ~c.dropped /\ d
  /\ ~c.dropped /\ GateOf(b, c) = "dialog" => op # None /\ op.option = c.option
  /\ ~c.dropped => \A k \in DOMAIN cs : ~cs[k].dropped /\ d

LEMMA TailOK ==
  ASSUME NEW b, NEW op, NEW cs, NEW ld, NEW d, NEW held, FetchOK(b, op, cs, ld, d, held),
         cs # <<>>
  PROVE  Taken(b, op, Head(cs), Tail(cs), ld, d, held)
<1> DEFINE c == Head(cs)
           us == Tail(cs)
<1>1. cs \in Seq(ClickSet(b)) /\ \A k \in DOMAIN cs : ByFetch(b, cs[k])
  BY DEF FetchOK, ClicksOK
<1>2. /\ 1 \in DOMAIN cs /\ c = cs[1] /\ c \in ClickSet(b)
      /\ us \in Seq(ClickSet(b))
      /\ \A k \in DOMAIN us : k + 1 \in DOMAIN cs /\ us[k] = cs[k + 1] /\ 1 < k + 1
      /\ \A j, k \in DOMAIN us : j < k => j + 1 < k + 1
  BY SMT, <1>1
<1> HIDE DEF c, us
<1>3. ClicksOK(b, us)
  BY <1>1, <1>2 DEF ClicksOK
<1>4. FetchOK(b, op, us, ld, d, held)
  BY <1>2, <1>3 DEF FetchOK
<1>5. /\ held => ~c.dropped /\ d
      /\ ~c.dropped /\ GateOf(b, c) = "dialog" => op # None /\ op.option = c.option
      /\ ~c.dropped => \A k \in DOMAIN us : ~us[k].dropped /\ d
  BY <1>2 DEF FetchOK
<1>6. QED
  BY <1>1, <1>2, <1>4, <1>5 DEF Taken, c, us

\* A button that is not disabled is clicked.
LEMMA ClickOK ==
  ASSUME NEW b, NEW op, NEW cs, NEW d \in BOOLEAN, NEW held,
         FetchOK(b, op, cs, FALSE, d, held),
         NEW c \in ClickSet(b), ByFetch(b, c), ~c.dropped,
         GateOf(b, c) = "dialog" => op # None /\ op.option = c.option
  PROVE  FetchOK(b, op, Append(cs, c), FALSE, d \/ Waiting(cs) # {}, held)
<1> DEFINE us == Append(cs, c)
           n == Len(cs) + 1
           d1 == d \/ Waiting(cs) # {}
<1>1. ClicksOK(b, cs) /\ cs \in Seq(ClickSet(b))
  BY DEF FetchOK, ClicksOK
<1>2. /\ us \in Seq(ClickSet(b)) /\ us[n] = c
      /\ DOMAIN us = (DOMAIN cs) \cup {n}
      /\ \A k \in DOMAIN cs : us[k] = cs[k] /\ ~(n < k)
      /\ ~(n < n)
  BY SMT, <1>1
<1> HIDE DEF us, n
<1>3. ClicksOK(b, us)
  BY <1>1, <1>2 DEF ClicksOK
<1>4. held => d
  BY DEF FetchOK
<1>5. \A j \in DOMAIN cs : ~cs[j].dropped => d1
  BY DEF Waiting
<1>6. d => d1
  OBVIOUS
<1> HIDE DEF d1
<1>7. \A k \in DOMAIN us :
        /\ held => ~us[k].dropped /\ d1
        /\ ~us[k].dropped /\ GateOf(b, us[k]) = "dialog" =>
             op # None /\ op.option = us[k].option
  BY <1>2, <1>4, <1>6 DEF FetchOK
<1>8. \A j, k \in DOMAIN us : j < k /\ ~us[j].dropped => ~us[k].dropped /\ d1
  BY <1>2, <1>5, <1>6 DEF FetchOK
<1>9. QED
  BY <1>3, <1>4, <1>6, <1>7, <1>8 DEF FetchOK, us, d1

Typed ==
  /\ button \in Buttons /\ selected \subseteq Rows
  /\ mobile \in BOOLEAN /\ signedIn \in BOOLEAN /\ canResetCache \in BOOLEAN
  /\ querying \in BOOLEAN /\ isLoading \in BOOLEAN /\ stray \in BOOLEAN
  /\ loading \in BOOLEAN /\ doubled \in BOOLEAN
  /\ open # None => /\ open.option \in DOMAIN button.options /\ open.rows \subseteq Rows
                    /\ button.options[open.option].gate # "button"

\* Of a handler that waits while isLoading is clear it is known that it was cleared.
StrayIsKnown == AnyLive(tasks) /\ ~isLoading => stray

Inv ==
  /\ Typed /\ TasksOK(button, tasks)
  /\ LoadingClears /\ StrayIsKnown
  /\ DialogsStay(button, open, tasks)
  /\ Caused(button, mobile, stray, doubled, tasks)
  /\ FetchOK(button, open, clicks, loading, doubled, AnyHeld(button, tasks))

\* Nothing has been submitted yet.
LEMMA InitInv == Init => Inv
<1> SUFFICES ASSUME Init PROVE Inv
  OBVIOUS
<1>1. Typed
  BY DEF Init, Typed
<1>2. tasks = <<>> /\ clicks = <<>> /\ isLoading = FALSE
  BY DEF Init
<1>3. TasksOK(button, tasks) /\ DialogsStay(button, open, tasks)
  BY SMT, <1>2 DEF TasksOK, DialogsStay
<1>4. LoadingClears /\ StrayIsKnown /\ Caused(button, mobile, stray, doubled, tasks)
  BY SMT, <1>2 DEF LoadingClears, StrayIsKnown, AnyLive, Caused
<1>5. FetchOK(button, open, clicks, loading, doubled, AnyHeld(button, tasks))
  BY SMT, <1>2 DEF FetchOK, ClicksOK, AnyHeld
<1>6. QED
  BY <1>1, <1>3, <1>4, <1>5 DEF Inv

\* The invariant of the tasks that are kept, and when all of them are dropped.
LEMMA KeptInv ==
  ASSUME Inv
  PROVE  /\ TasksOK(button, Kept(tasks))
         /\ InFlight(tasks) => InFlight(Kept(tasks))
         /\ AnyLive(Kept(tasks)) => AnyLive(tasks)
         /\ AnyHeld(button, Kept(tasks)) => AnyHeld(button, tasks)
         /\ DialogsStay(button, open, Kept(tasks))
         /\ Caused(button, mobile, stray, doubled, Kept(tasks))
<1>1. TasksOK(button, tasks)
  BY DEF Inv
<1>2. /\ TasksOK(button, Kept(tasks)) /\ Shadows(Kept(tasks), tasks)
      /\ InFlight(tasks) => InFlight(Kept(tasks))
  BY <1>1, KeptOK
<1>3. tasks \in Seq(TaskSet(button)) /\ Kept(tasks) \in Seq(TaskSet(button))
  BY <1>1, <1>2 DEF TasksOK
<1>4. QED
  <2>1. DialogsStay(button, open, tasks) /\ Caused(button, mobile, stray, doubled, tasks)
    BY DEF Inv
  <2>2. QED
    BY <1>2, <1>3, <2>1, ShadowsKeep

\* Dropping the tasks keeps what holds of them, and nothing waits for one.
LEMMA DroppedKeeps ==
  ASSUME NEW b, NEW ts, TasksOK(b, ts)
  PROVE  /\ TasksOK(b, Dropped(ts))
         /\ InFlight(ts) => InFlight(Dropped(ts))
         /\ AnyLive(Dropped(ts)) => AnyLive(ts)
         /\ ~AnyHeld(b, Dropped(ts))
         /\ \A op : DialogsStay(b, op, Dropped(ts))
         /\ \A m, s, d : Caused(b, m, s, d, ts) => Caused(b, m, s, d, Dropped(ts))
<1>1. /\ TasksOK(b, Dropped(ts)) /\ Shadows(Dropped(ts), ts)
      /\ InFlight(ts) => InFlight(Dropped(ts))
      /\ \A i \in DOMAIN Dropped(ts) : ~Awaited(Dropped(ts)[i])
  BY DroppedOK
<1>2. ts \in Seq(TaskSet(b)) /\ Dropped(ts) \in Seq(TaskSet(b))
  BY <1>1 DEF TasksOK
<1>3. ~AnyHeld(b, Dropped(ts)) /\ \A op : DialogsStay(b, op, Dropped(ts))
  BY <1>1 DEF DialogsStay, AnyHeld
<1>4. QED
  BY <1>1, <1>2, <1>3, ShadowsKeep

\* A step that only forgets tasks, and perhaps drops the others, keeps the
\* invariant when it neither starts to load nor forgets that loading was cleared.
LEMMA QuietStep ==
  ASSUME Inv, NEW op, NEW s, AnyLive(tasks) /\ stray => s, NEW us, NEW cs, NEW ld,
         \/ us = Kept(tasks) /\ op = open /\ cs = clicks /\ ld = loading
         \/ us = Kept(tasks) /\ open = None /\ cs = clicks /\ ld = loading
         \/ us = Dropped(Kept(tasks)) /\ cs = Unheard(clicks) /\ ld = FALSE
  PROVE  /\ TasksOK(button, us)
         /\ InFlight(tasks) => InFlight(us)
         /\ AnyLive(us) => AnyLive(tasks)
         /\ DialogsStay(button, op, us)
         /\ Caused(button, mobile, s, doubled, us)
         /\ FetchOK(button, op, cs, ld, doubled, AnyHeld(button, us))
<1> DEFINE ks == Kept(tasks)
<1>1. /\ TasksOK(button, ks)
      /\ InFlight(tasks) => InFlight(ks)
      /\ AnyLive(ks) => AnyLive(tasks)
      /\ AnyHeld(button, ks) => AnyHeld(button, tasks)
      /\ DialogsStay(button, open, ks)
      /\ Caused(button, mobile, stray, doubled, ks)
  BY KeptInv
<1> HIDE DEF ks
<1>2. /\ TasksOK(button, Dropped(ks))
      /\ InFlight(ks) => InFlight(Dropped(ks))
      /\ AnyLive(Dropped(ks)) => AnyLive(ks)
      /\ ~AnyHeld(button, Dropped(ks))
      /\ DialogsStay(button, op, Dropped(ks))
      /\ Caused(button, mobile, stray, doubled, Dropped(ks))
  BY <1>1, DroppedKeeps
<1>3. us = ks \/ us = Dropped(ks)
  BY DEF ks
<1>4. DialogsStay(button, op, us)
  BY <1>1, <1>2 DEF DialogsStay, ks
<1>5. AnyLive(us) => AnyLive(tasks)
  BY <1>1, <1>2, <1>3
<1>6. Caused(button, mobile, stray, doubled, us)
  BY <1>1, <1>2, <1>3
<1>7. Caused(button, mobile, s, doubled, us)
  BY <1>5, <1>6 DEF Caused, AnyLive
<1>8. FetchOK(button, op, cs, ld, doubled, AnyHeld(button, us))
  <2>1. FetchOK(button, open, clicks, loading, doubled, AnyHeld(button, tasks))
    BY DEF Inv
  <2>2. CASE us = ks /\ (op = open \/ open = None) /\ cs = clicks /\ ld = loading
    BY <1>1, <2>1, <2>2 DEF FetchOK
  <2>3. CASE us = Dropped(ks) /\ cs = Unheard(clicks) /\ ld = FALSE
    <3>1. FetchOK(button, op, Unheard(clicks), FALSE, doubled, FALSE)
      BY <2>1, UnheardOK DEF FetchOK
    <3>2. QED
      BY <1>2, <2>3, <3>1 DEF FetchOK
  <2>4. QED
    BY <2>2, <2>3 DEF ks
<1>9. QED
  BY <1>1, <1>2, <1>3, <1>4, <1>5, <1>7, <1>8

\* What the tasks are when the handler of t has started.
Joined(o, drop, t, us) ==
  /\ TasksOK(button, us) /\ t.option = o /\ t.dropped = drop
  /\ isLoading \/ t.flight # {} => querying \/ InFlight(us)
  /\ AnyLive(us) /\ ~(isLoading \/ t.flight # {}) => stray
  /\ DialogsStay(button, open, us)
  /\ Caused(button, mobile, stray, doubled, us)
  /\ AnyHeld(button, us) =>
       AnyHeld(button, tasks) \/ (ByFetch(button, t) /\ ~drop /\ Live(t))

LEMMA StartTasks ==
  ASSUME Inv, NEW o \in DOMAIN Options, NEW rows \in SUBSET Rows,
         NEW plan \in Plans(Options[o], rows), NEW drop \in BOOLEAN,
         NEW t, t = Started(o, Options[o], rows, plan, drop),
         Options[o].gate = "dialog" /\ ~drop => open # None /\ open.option = o,
         AnyHeld(button, tasks) => doubled,
         Options[o].gate \in {"steps", "stepper"} => mobile \/ ~isLoading
  PROVE  Joined(o, drop, t, Append(Kept(tasks), t))
<1> DEFINE ks == Kept(tasks)
           us == Append(ks, t)
           n == Len(ks) + 1
           busy == isLoading \/ t.flight # {}
<1>1. button \in Buttons
  BY DEF Inv, Typed
<1>2. /\ t \in TaskSet(button) /\ TaskOK(Options[o], t) /\ Covers(Options[o], t)
      /\ t.option = o
      /\ t.ended = "no" => t.flight # {}
  <2> DEFINE h == Options[o]
  <2>1. /\ o \in DOMAIN button.options /\ h = button.options[o]
        /\ plan \in Plans(h, rows) /\ t = Started(o, h, rows, plan, drop)
    BY DEF Options
  <2> HIDE DEF h
  <2>2. Begun(button, o, h, t)
    BY <1>1, <2>1, StartedOK
  <2>3. QED
    BY <2>2 DEF h, Begun
<1>3. t.dropped = drop
  BY SMT DEF Started
<1>4. /\ TasksOK(button, ks)
      /\ InFlight(tasks) => InFlight(ks)
      /\ AnyLive(ks) => AnyLive(tasks)
      /\ AnyHeld(button, ks) => AnyHeld(button, tasks)
      /\ DialogsStay(button, open, ks)
      /\ Caused(button, mobile, stray, doubled, ks)
  BY ZenonT(40), KeptInv
<1> HIDE DEF ks
<1>5. /\ TasksOK(button, us)
      /\ DOMAIN us = (DOMAIN ks) \cup {n}
      /\ \A i \in DOMAIN ks : us[i] = ks[i] /\ i < n
      /\ us[n] = t
  <2>1. Sound(button, t)
    BY <1>2 DEF Sound, Options
  <2>2. QED
    BY SMT, <1>2, <1>4, <2>1, AppendedOK
<1>6. n \in Nat /\ \A i \in DOMAIN ks : i \in Nat
  BY SMT, <1>4 DEF TasksOK
<1> HIDE DEF us, n
<1>7. busy => querying \/ InFlight(us)
  BY <1>4, <1>5 DEF Inv, LoadingClears, InFlight
<1>8. AnyLive(us) /\ ~busy => stray
  BY <1>2, <1>4, <1>5 DEF Inv, StrayIsKnown, AnyLive, Live
<1>9. DialogsStay(button, open, us)
  BY <1>2, <1>3, <1>4, <1>5 DEF DialogsStay, GateOf, Awaited, Options
<1>10. Caused(button, mobile, stray, doubled, us)
  <2> SUFFICES ASSUME NEW i \in DOMAIN us, NEW j \in DOMAIN us, i < j,
                      Live(us[i]), Live(us[j])
               PROVE  /\ ByFetch(button, us[i]) => us[i].dropped \/ doubled
                      /\ GateOf(button, us[j]) \in {"steps", "stepper"} => mobile \/ stray
    BY DEF Caused
  <2>1. i \in DOMAIN ks /\ us[i] = ks[i]
    BY SMT, <1>5, <1>6
  <2>2. CASE j \in DOMAIN ks
    BY <1>4, <1>5, <2>1, <2>2 DEF Caused
  <2>3. CASE j = n
    <3>1. ByFetch(button, us[i]) => us[i].dropped \/ doubled
      BY <1>4, <2>1 DEF AnyHeld, Awaited
    <3>2. AnyLive(tasks)
      BY <1>4, <2>1 DEF AnyLive
    <3>3. GateOf(button, us[j]) = Options[o].gate
      BY <1>2, <1>5, <2>3 DEF GateOf, Options
    <3>4. QED
      BY <3>1, <3>2, <3>3 DEF Inv, StrayIsKnown
  <2>4. QED
    BY <1>5, <2>2, <2>3
<1>11. AnyHeld(button, us) => AnyHeld(button, tasks) \/ (ByFetch(button, t) /\ ~drop /\ Live(t))
  <2> SUFFICES ASSUME NEW i \in DOMAIN us, Awaited(us[i]), ByFetch(button, us[i]), i # n
               PROVE  AnyHeld(button, tasks)
    BY <1>3, <1>5 DEF AnyHeld, Awaited
  <2>1. i \in DOMAIN ks /\ us[i] = ks[i]
    BY <1>5
  <2>2. QED
    BY <1>4, <2>1 DEF AnyHeld
<1>12. QED
  BY <1>2, <1>3, <1>5, <1>7, <1>8, <1>9, <1>10, <1>11 DEF Joined, us, ks

\* What is left to show of a step that starts a handler is what the clicks that
\* still wait have to do with it.
LEMMA BeginsInv ==
  ASSUME Inv, NEW t, NEW rest, Begins(t, rest),
         UNCHANGED <<button, mobile, signedIn, canResetCache, querying, stray>>,
         NEW us, us = Append(Kept(tasks), t), NEW o, NEW drop, Joined(o, drop, t, us),
         ClicksOK(button, rest), loading' \in BOOLEAN,
         Closes(t.option, t.ended, t.told) => loading' = FALSE,
         ~Closes(t.option, t.ended, t.told) =>
           FetchOK(button, open, rest, loading', doubled', AnyHeld(button, us))
  PROVE  Inv'
<1> DEFINE closes == Closes(t.option, t.ended, t.told)
<1>1. /\ tasks' = IF closes THEN Dropped(us) ELSE us
      /\ clicks' = IF closes THEN Unheard(rest) ELSE rest
      /\ doubled' = (doubled /\ (AnyLive(us) \/ rest # <<>>))
      /\ open' = IF closes THEN None ELSE open
      /\ selected' = selected \/ selected' = {}
      /\ isLoading' = (isLoading \/ t.flight # {})
  BY DEF Begins
<1>2. Caused(button, mobile, stray, doubled', us) /\ DialogsStay(button, open, us)
  BY <1>1 DEF Joined, Caused, AnyLive
<1>3. /\ TasksOK(button, tasks')
      /\ InFlight(us) => InFlight(tasks')
      /\ AnyLive(tasks') => AnyLive(us)
      /\ DialogsStay(button, open', tasks')
      /\ Caused(button, mobile, stray, doubled', tasks')
      /\ FetchOK(button, open', clicks', loading', doubled', AnyHeld(button, tasks'))
  <2>1. CASE closes
    <3>1. FetchOK(button, open', clicks', loading', doubled', FALSE)
      BY <1>1, <2>1, UnheardOK
    <3>2. /\ TasksOK(button, tasks')
          /\ InFlight(us) => InFlight(tasks')
          /\ AnyLive(tasks') => AnyLive(us)
          /\ ~AnyHeld(button, tasks')
          /\ DialogsStay(button, open', tasks')
          /\ Caused(button, mobile, stray, doubled', tasks')
      BY <1>1, <1>2, <2>1, DroppedKeeps DEF Joined
    <3>3. QED
      BY <3>1, <3>2 DEF FetchOK
  <2>2. CASE ~closes
    BY <1>1, <1>2, <2>2 DEF Joined
  <2>3. QED
    BY <2>1, <2>2
<1>4. Typed'
  <2>1. Typed
    BY DEF Inv
  <2>2. isLoading' \in BOOLEAN /\ doubled' \in BOOLEAN
    BY <1>1
  <2>3. QED
    BY <1>1, <2>1, <2>2 DEF Typed
<1>5. LoadingClears'
  BY <1>1, <1>3 DEF LoadingClears, Joined
<1>6. StrayIsKnown'
  BY <1>1, <1>3 DEF StrayIsKnown, Joined
<1>7. QED
  BY <1>3, <1>4, <1>5, <1>6 DEF Inv

\* A form has a page of its own: no dialog or button is waited for there.
LEMMA SubmitFormInv ==
  ASSUME Inv, SubmitForm
  PROVE  Inv'
<1> DEFINE o == open.option
<1>1. PICK plan \in Plans(Options[o], open.rows) :
        \E t \in {Started(o, Options[o], open.rows, plan, FALSE)} :
          /\ Begins(t, clicks)
          /\ loading' = (loading /\ ~Closes(t.option, t.ended, t.told))
  BY DEF SubmitForm
<1> DEFINE t == Started(o, Options[o], open.rows, plan, FALSE)
           us == Append(Kept(tasks), t)
           closes == Closes(t.option, t.ended, t.told)
<1>2. Begins(t, clicks) /\ loading' = (loading /\ ~closes)
  BY <1>1
<1>3. /\ open # None /\ Options[o].gate \in {"steps", "stepper"}
      /\ mobile \/ ~isLoading
      /\ UNCHANGED <<button, mobile, signedIn, canResetCache, querying, stray>>
  BY DEF SubmitForm
<1>4. /\ Typed /\ TasksOK(button, tasks) /\ DialogsStay(button, open, tasks)
      /\ FetchOK(button, open, clicks, loading, doubled, AnyHeld(button, tasks))
  BY DEF Inv
<1>5. o \in DOMAIN Options /\ open.rows \in SUBSET Rows
  BY <1>3, <1>4 DEF Typed, Options
<1>6. ~AnyHeld(button, tasks)
  <2> SUFFICES ASSUME NEW i \in DOMAIN tasks, Awaited(tasks[i]), ByFetch(button, tasks[i])
               PROVE  FALSE
    BY DEF AnyHeld
  <2>1. tasks[i] \in TaskSet(button)
    BY SMT, <1>4 DEF TasksOK
  <2>2. tasks[i].option \in DOMAIN button.options
    BY <2>1 DEF TaskSet
  <2>3. CASE GateOf(button, tasks[i]) = "dialog"
    BY <1>3, <1>4, <2>3 DEF DialogsStay, GateOf, Options
  <2>4. CASE GateOf(button, tasks[i]) = "button"
    BY <1>3, <1>4, <1>5, <2>2, <2>4, ButtonsAssumption DEF GateOf, Options, Typed
  <2>5. QED
    BY <2>3, <2>4 DEF ByFetch
<1> DEFINE drop == FALSE
<1>7. Joined(o, drop, t, us)
  <2> DEFINE rows == open.rows
  <2>1. drop \in BOOLEAN /\ t = Started(o, Options[o], rows, plan, drop)
    OBVIOUS
  <2>2. plan \in Plans(Options[o], rows) /\ rows \in SUBSET Rows
    BY <1>1, <1>5
  <2>3. /\ Options[o].gate = "dialog" /\ ~drop => open # None /\ open.option = o
        /\ AnyHeld(button, tasks) => doubled
        /\ Options[o].gate \in {"steps", "stepper"} => mobile \/ ~isLoading
    BY <1>3, <1>6
  <2> HIDE DEF o, t, drop, rows
  <2>4. QED
    BY <1>5, <2>1, <2>2, <2>3, StartTasks
<1>8. ~AnyHeld(button, us)
  BY <1>3, <1>6, <1>7 DEF Joined, ByFetch, GateOf, Options
<1> HIDE DEF t, us, drop
<1>9. ~closes => FetchOK(button, open, clicks, loading', doubled', AnyHeld(button, us))
  <2> SUFFICES ASSUME ~closes
               PROVE  FetchOK(button, open, clicks, loading', doubled', AnyHeld(button, us))
    OBVIOUS
  <2>1. doubled' = (doubled /\ (AnyLive(us) \/ clicks # <<>>))
    BY <1>2 DEF Begins, us
  <2>2. \A k \in DOMAIN clicks : clicks # <<>>
    BY SMT
  <2>3. QED
    BY <1>4, <1>8, <2>1, <2>2 DEF FetchOK
<1>10. ClicksOK(button, clicks) /\ loading' \in BOOLEAN /\ (closes => loading' = FALSE)
  BY <1>2, <1>4 DEF FetchOK
<1>11. us = Append(Kept(tasks), t)
  BY DEF us
<1>12. Begins(t, clicks)
  BY <1>2
<1>13. UNCHANGED <<button, mobile, signedIn, canResetCache, querying, stray>>
  BY <1>3
<1>14. QED
  BY ZenonT(40), <1>7, <1>9, <1>10, <1>11, <1>12, <1>13, BeginsInv

\* The timer fires: of the clicks, only one that was made before another was
\* waiting can find a handler that is waited for.
LEMMA DoFetchInv ==
  ASSUME Inv, DoFetch
  PROVE  Inv'
<1> DEFINE click == Head(clicks)
           rest == Tail(clicks)
           o == click.option
<1>1. PICK plan \in Plans(Options[o], click.rows) :
        \E t \in {Started(o, Options[o], click.rows, plan, click.dropped)} :
          /\ Begins(t, rest)
          /\ loading' = IF Closes(t.option, t.ended, t.told) THEN FALSE
                        ELSE IF t.dropped THEN loading ELSE Live(t)
  BY DEF DoFetch
<1> DEFINE t == Started(o, Options[o], click.rows, plan, click.dropped)
           us == Append(Kept(tasks), t)
           closes == Closes(t.option, t.ended, t.told)
<1>2. /\ Begins(t, rest)
      /\ loading' = IF closes THEN FALSE ELSE IF t.dropped THEN loading ELSE Live(t)
  BY <1>1
<1>3. clicks # <<>> /\ UNCHANGED <<button, mobile, signedIn, canResetCache, querying, stray>>
  BY DEF DoFetch
<1>4. Typed /\ FetchOK(button, open, clicks, loading, doubled, AnyHeld(button, tasks))
  BY DEF Inv
<1>5. /\ click \in ClickSet(button) /\ ByFetch(button, click)
      /\ FetchOK(button, open, rest, loading, doubled, AnyHeld(button, tasks))
      /\ AnyHeld(button, tasks) => ~click.dropped /\ doubled
      /\ ~click.dropped /\ GateOf(button, click) = "dialog" => open # None /\ open.option = o
      /\ ~click.dropped => \A k \in DOMAIN rest : ~rest[k].dropped /\ doubled
  <2>1. Taken(button, open, click, rest, loading, doubled, AnyHeld(button, tasks))
    BY <1>3, <1>4, TailOK
  <2>2. QED
    BY <2>1 DEF Taken
<1> HIDE DEF click, rest
<1>6. o \in DOMAIN Options /\ click.rows \in SUBSET Rows /\ click.dropped \in BOOLEAN
  BY <1>5 DEF ClickSet, Options
<1>7. Options[o].gate \in {"dialog", "button"}
  BY <1>5 DEF ByFetch, GateOf, Options
<1>8. Joined(o, click.dropped, t, us)
  <2>1. Options[o].gate = "dialog" /\ ~click.dropped => open # None /\ open.option = o
    BY <1>5 DEF GateOf, Options
  <2>2. Options[o].gate \in {"steps", "stepper"} => mobile \/ ~isLoading
    BY <1>7
  <2>3. AnyHeld(button, tasks) => doubled
    BY <1>5
  <2> DEFINE drop == click.dropped
             rows == click.rows
  <2>4. /\ t = Started(o, Options[o], rows, plan, drop)
        /\ plan \in Plans(Options[o], rows) /\ rows \in SUBSET Rows /\ drop \in BOOLEAN
    BY <1>1, <1>6
  <2>5. Options[o].gate = "dialog" /\ ~drop => open # None /\ open.option = o
    BY <2>1
  <2> HIDE DEF o, t, drop, rows
  <2>6. Joined(o, drop, t, us)
    BY <1>6, <2>2, <2>3, <2>4, <2>5, StartTasks
  <2>7. QED
    BY <2>6 DEF drop
<1> HIDE DEF t, us, o
<1>9. ~closes => FetchOK(button, open, rest, loading', doubled', AnyHeld(button, us))
  <2> SUFFICES ASSUME ~closes
               PROVE  FetchOK(button, open, rest, loading', doubled', AnyHeld(button, us))
    OBVIOUS
  <2>1. doubled' = (doubled /\ (AnyLive(us) \/ rest # <<>>))
    BY <1>2 DEF Begins, us
  <2>2. /\ \A k \in DOMAIN rest : rest # <<>>
        /\ AnyHeld(button, us) => AnyLive(us)
    <3>1. \A k \in DOMAIN rest : rest # <<>>
      BY SMT
    <3>2. AnyHeld(button, us) => AnyLive(us)
      BY DEF AnyHeld, AnyLive, Awaited
    <3>3. QED
      BY <3>1, <3>2
  <2>3. loading' = IF t.dropped THEN loading ELSE Live(t)
    BY <1>2
  <2>4. CASE click.dropped
    <3>1. ~AnyHeld(button, us)
      BY <1>5, <1>8, <2>4 DEF Joined
    <3>2. QED
      BY <1>5, <2>1, <2>2, <3>1 DEF FetchOK
  <2>5. CASE ~click.dropped
    <3>1. loading' = Live(t)
      BY <1>8, <2>3, <2>5 DEF Joined
    <3>2. AnyHeld(button, us) => loading' \/ doubled'
      BY <1>5, <1>8, <2>1, <2>2, <3>1 DEF Joined
    <3>3. \A k \in DOMAIN rest : ~rest[k].dropped /\ doubled'
      BY <1>5, <2>1, <2>2, <2>5
    <3>4. QED
      BY <1>5, <3>2, <3>3 DEF FetchOK
  <2>6. QED
    BY <2>4, <2>5
<1>10. ClicksOK(button, rest) /\ loading' \in BOOLEAN /\ (closes => loading' = FALSE)
  <2>1. Live(t) \in BOOLEAN
    BY DEF Live
  <2>2. QED
    BY <1>2, <1>4, <1>5, <2>1 DEF FetchOK, Typed
<1>11. us = Append(Kept(tasks), t)
  BY DEF us
<1>12. Begins(t, rest)
  BY <1>2
<1>13. UNCHANGED <<button, mobile, signedIn, canResetCache, querying, stray>>
  BY <1>3
<1>14. QED
  BY ZenonT(40), <1>8, <1>9, <1>10, <1>11, <1>12, <1>13, BeginsInv

\* A click: the button is not disabled, so whatever it waits for came of clicks
\* that were waiting together.
LEMMA ClickedInv ==
  ASSUME Inv, NEW o \in DOMAIN Options, NEW rows \in SUBSET Rows, Clicked(o, rows),
         Options[o].gate \in {"dialog", "button"},
         Options[o].gate = "dialog" => open # None /\ open.option = o
  PROVE  Inv'
<1> DEFINE c == [option |-> o, rows |-> rows, dropped |-> FALSE]
           d == doubled \/ Waiting(clicks) # {}
<1>1. /\ ~loading /\ clicks' = Append(clicks, c) /\ doubled' = d /\ tasks' = Kept(tasks)
      /\ UNCHANGED <<button, mobile, signedIn, canResetCache, selected, open, loading,
                     querying, isLoading, stray>>
  BY DEF Clicked
<1>2. Typed /\ FetchOK(button, open, clicks, loading, doubled, AnyHeld(button, tasks))
  BY DEF Inv
<1>3. /\ TasksOK(button, tasks')
      /\ InFlight(tasks) => InFlight(tasks')
      /\ AnyLive(tasks') => AnyLive(tasks)
      /\ AnyHeld(button, tasks') => AnyHeld(button, tasks)
      /\ DialogsStay(button, open, tasks')
      /\ Caused(button, mobile, stray, doubled, tasks')
  BY <1>1, KeptInv
<1>4. Caused(button, mobile, stray, doubled', tasks')
  BY <1>1, <1>3 DEF Caused
<1>5. FetchOK(button, open, clicks', FALSE, doubled', AnyHeld(button, tasks))
  <2>1. c \in ClickSet(button) /\ c.option = o /\ ~c.dropped
    BY DEF ClickSet, Options
  <2>2. loading = FALSE /\ doubled \in BOOLEAN
    BY <1>1, <1>2 DEF Typed
  <2> HIDE DEF c
  <2>3. ByFetch(button, c) /\ (GateOf(button, c) = "dialog" => open # None /\ open.option = c.option)
    BY <2>1 DEF ByFetch, GateOf, Options
  <2>4. FetchOK(button, open, clicks, FALSE, doubled, AnyHeld(button, tasks))
    BY <1>2, <2>2
  <2>5. QED
    BY <1>1, <2>1, <2>2, <2>3, <2>4, ClickOK
<1>6. FetchOK(button, open, clicks', loading', doubled', AnyHeld(button, tasks'))
  BY <1>1, <1>2, <1>3, <1>5 DEF FetchOK, Typed
<1>7. doubled' \in BOOLEAN
  BY <1>1
<1>8. Typed'
  BY <1>1, <1>2, <1>7 DEF Typed
<1>9. QED
  BY <1>1, <1>3, <1>4, <1>6, <1>8 DEF Inv, LoadingClears, StrayIsKnown

\* An answer, the reaction of the handler to it, and the page it may leave.
LEMMA AnswerInv ==
  ASSUME Inv, NEW i \in DOMAIN tasks, NEW c \in tasks[i].flight,
         NEW out \in Outcomes(SpecOf(HandlerOf(tasks[i]), c)), Answer(i, c, out)
  PROVE  Inv'
<1> DEFINE t == tasks[i]
           h == HandlerOf(t)
           r == Reaction(h, t, c, out)
           now == Settled(h, t, c, out, r, canResetCache)
           after == Span([tasks EXCEPT ![i] = now], AllUnder(tasks) \cup {i})
           ends == Live(t) /\ ~Live(now)
           leaves == Expires(out) \/ (ends /\ Closes(t.option, now.ended, now.told))
           enables == ends /\ Options[t.option].gate = "button" /\ ~t.dropped
<1>1. /\ Typed /\ TasksOK(button, tasks)
      /\ FetchOK(button, open, clicks, loading, doubled, AnyHeld(button, tasks))
  BY DEF Inv
<1>2. /\ t \in TaskSet(button) /\ h = button.options[t.option]
      /\ TaskOK(h, t) /\ Covers(h, t)
  BY SMT, <1>1 DEF TasksOK, Sound, HandlerOf, Options
<1>3. /\ now \in TaskSet(button)
      /\ Sound(button, now)
      /\ now.option = t.option /\ now.dropped = t.dropped
      /\ r.sends \subseteq now.flight
      /\ now.ended = "no" => t.ended = "no"
  <2>1. /\ button \in Buttons /\ c \in t.flight /\ out \in Outcomes(SpecOf(h, c))
        /\ r = Reaction(h, t, c, out) /\ now = Settled(h, t, c, out, r, canResetCache)
    BY <1>1 DEF Typed
  <2> HIDE DEF t, h, r, now
  <2>2. Continued(button, h, t, r, now)
    BY <1>2, <2>1, SettledOK
  <2>3. Covers(h, now)
    BY <1>2, <2>2 DEF Continued, Covers
  <2>4. QED
    BY <1>2, <2>2, <2>3 DEF Continued, Sound
<1>4. /\ tasks' = IF leaves THEN Dropped(after) ELSE after
      /\ clicks' = IF leaves THEN Unheard(clicks) ELSE clicks
      /\ loading' = (loading /\ ~leaves /\ ~enables)
      /\ doubled' = (doubled /\ (AnyLive(after) \/ clicks # <<>>))
      /\ isLoading' = (r.sends # {})
      /\ stray' = (AnyLive(tasks') /\ (stray \/ r.sends = {}))
      /\ signedIn' = (signedIn /\ ~Expires(out))
      /\ Noticed(out, SpecOf(h, c).mute)
      /\ open' = IF leaves THEN None ELSE open
      /\ selected' = selected \/ selected' = {}
      /\ button' = button /\ mobile' = mobile /\ querying' = querying
  <2>1. /\ tasks' = IF leaves THEN Dropped(after) ELSE after
        /\ clicks' = IF leaves THEN Unheard(clicks) ELSE clicks
    BY SMT DEF Answer
  <2>2. loading' = (loading /\ ~leaves /\ ~enables)
    BY SMT DEF Answer
  <2>3. doubled' = (doubled /\ (AnyLive(after) \/ clicks # <<>>))
    BY SMT DEF Answer
  <2>4. /\ isLoading' = (r.sends # {})
        /\ stray' = (AnyLive(tasks') /\ (stray \/ r.sends = {}))
        /\ signedIn' = (signedIn /\ ~Expires(out))
        /\ Noticed(out, SpecOf(h, c).mute)
    BY ZenonT(40) DEF Answer
  <2>5. open' = IF leaves THEN None ELSE open
    BY SMT DEF Answer
  <2>6. selected' = selected \/ selected' = {}
    BY ZenonT(40) DEF Answer
  <2>7. button' = button /\ mobile' = mobile /\ querying' = querying
    BY ZenonT(40) DEF Answer
  <2>8. QED
    BY <2>1, <2>2, <2>3, <2>4, <2>5, <2>6, <2>7
<1> HIDE DEF t, h, r, now, after, ends, leaves, enables
<1> DEFINE us == [tasks EXCEPT ![i] = now]
<1>5. /\ TasksOK(button, after)
      /\ Shadows(after, tasks) /\ Shadows(after, us)
      /\ now.flight # {} => InFlight(after)
  <2>1. AllUnder(tasks) \in SUBSET DOMAIN tasks
    BY DEF AllUnder
  <2>2. Live(now) => Live(t)
    BY <1>3 DEF Live
  <2>3. QED
    BY <1>1, <1>2, <1>3, <2>1, <2>2, AnsweredOK DEF after, t
<1>6. /\ AnyLive(after) => AnyLive(tasks)
      /\ AnyHeld(button, after) => AnyHeld(button, tasks)
      /\ DialogsStay(button, open, after)
      /\ Caused(button, mobile, stray, doubled, after)
  <2>1. tasks \in Seq(TaskSet(button)) /\ after \in Seq(TaskSet(button))
    BY <1>1, <1>5 DEF TasksOK
  <2>2. QED
    BY <1>5, <2>1, ShadowsKeep DEF Inv
<1>7. \* When the handler of a button ends, another that is waited for was started by
      \* a click that waited together with the click that started this one.
      AnyHeld(button, after) /\ enables => doubled
  <2> SUFFICES ASSUME AnyHeld(button, after), enables PROVE doubled
    OBVIOUS
  <2>1. /\ tasks \in Seq(TaskSet(button)) /\ DOMAIN us = DOMAIN tasks /\ us[i] = now
        /\ us \in Seq(TaskSet(button))
        /\ \A j \in DOMAIN tasks : j # i => us[j] = tasks[j]
        /\ \A j \in DOMAIN tasks : j # i => i < j \/ j < i
    BY SMT, <1>1, <1>3 DEF TasksOK
  <2> HIDE DEF us
  <2>2. after \in Seq(TaskSet(button))
    BY <1>5 DEF TasksOK
  <2>3. AnyHeld(button, us)
    BY <1>5, <2>1, <2>2, ShadowsKeep
  <2>4. PICK j \in DOMAIN us : Awaited(us[j]) /\ ByFetch(button, us[j])
    BY <2>3 DEF AnyHeld
  <2>5. Live(t) /\ ~Live(now) /\ ByFetch(button, t) /\ ~t.dropped
    BY <1>2 DEF enables, ends, ByFetch, GateOf, Options
  <2>6. j \in DOMAIN tasks /\ j # i /\ us[j] = tasks[j]
    BY <2>1, <2>4, <2>5 DEF Awaited
  <2>7. QED
    BY <2>1, <2>4, <2>5, <2>6 DEF Inv, Caused, Awaited, t
<1>8. /\ AnyHeld(button, after) => AnyLive(after)
      /\ \A k \in DOMAIN clicks : clicks # <<>>
  <2>1. AnyHeld(button, after) => AnyLive(after)
    BY DEF AnyHeld, AnyLive, Awaited
  <2>2. \A k \in DOMAIN clicks : clicks # <<>>
    BY SMT
  <2>3. QED
    BY <2>1, <2>2
<1>9. Caused(button, mobile, stray, doubled', after)
  BY <1>4, <1>6 DEF Caused, AnyLive
<1>10. ~leaves => FetchOK(button, open, clicks, loading', doubled', AnyHeld(button, after))
  <2> SUFFICES ASSUME ~leaves
               PROVE  FetchOK(button, open, clicks, loading', doubled', AnyHeld(button, after))
    OBVIOUS
  <2>1. \A k \in DOMAIN clicks : doubled => doubled'
    BY <1>4, <1>8
  <2>2. AnyHeld(button, after) /\ doubled => doubled'
    BY <1>4, <1>8
  <2>3. AnyHeld(button, after) => loading' \/ doubled'
    BY <1>1, <1>4, <1>6, <1>7, <2>2 DEF FetchOK
  <2>4. QED
    BY <1>1, <1>6, <2>1, <2>3 DEF FetchOK
<1>11. /\ TasksOK(button, tasks')
       /\ now.flight # {} => InFlight(tasks')
       /\ DialogsStay(button, open', tasks')
       /\ Caused(button, mobile, stray, doubled', tasks')
       /\ FetchOK(button, open', clicks', loading', doubled', AnyHeld(button, tasks'))
  <2>1. CASE leaves
    <3>1. FetchOK(button, open', clicks', loading', doubled', FALSE)
      <4>1. clicks' = Unheard(clicks) /\ loading' = FALSE
        BY <1>4, <2>1
      <4>2. ClicksOK(button, clicks)
        BY <1>1 DEF FetchOK
      <4>3. QED
        BY <4>1, <4>2, UnheardOK
    <3>2. /\ TasksOK(button, tasks') /\ ~AnyHeld(button, tasks')
          /\ now.flight # {} => InFlight(tasks')
          /\ DialogsStay(button, open', tasks')
          /\ Caused(button, mobile, stray, doubled', tasks')
      BY <1>4, <1>5, <1>9, <2>1, DroppedKeeps
    <3>3. QED
      BY <3>1, <3>2 DEF FetchOK
  <2>2. CASE ~leaves
    BY <1>4, <1>5, <1>6, <1>9, <1>10, <2>2
  <2>3. QED
    BY <2>1, <2>2
<1>12. LoadingClears'
  BY <1>3, <1>4, <1>11 DEF LoadingClears, InFlight
<1>13. StrayIsKnown' /\ Caused(button', mobile', stray', doubled', tasks')
  BY <1>4, <1>11 DEF StrayIsKnown, Caused, AnyLive
<1>14. Typed'
  <2>1. /\ signedIn' \in BOOLEAN /\ isLoading' \in BOOLEAN /\ stray' \in BOOLEAN
        /\ loading' \in BOOLEAN /\ doubled' \in BOOLEAN
    BY <1>4
  <2>2. canResetCache' \in BOOLEAN
    BY <1>1, <1>4 DEF Noticed, Typed
  <2>3. QED
    BY <1>1, <1>4, <2>1, <2>2 DEF Typed
<1>15. QED
  BY <1>4, <1>11, <1>12, <1>13, <1>14 DEF Inv

\* Every step keeps the invariant.
LEMMA NextInv == Inv /\ [Next]_vars => Inv'
<1> SUFFICES ASSUME Inv, [Next]_vars PROVE Inv'
  OBVIOUS
<1>1. Typed
  BY DEF Inv
<1>2. ASSUME NEW rows \in SUBSET Rows, Select(rows) PROVE Inv'
  <2>1. /\ selected' = rows /\ tasks' = Kept(tasks)
        /\ UNCHANGED <<button, mobile, signedIn, canResetCache, open, fetch, querying,
                       isLoading, stray>>
    BY <1>2 DEF Select
  <2>2. Typed'
    BY <1>1, <2>1 DEF Typed, fetch
  <2>3. /\ TasksOK(button, tasks')
        /\ InFlight(tasks) => InFlight(tasks')
        /\ AnyLive(tasks') => AnyLive(tasks)
        /\ DialogsStay(button, open, tasks')
        /\ Caused(button, mobile, stray, doubled, tasks')
        /\ FetchOK(button, open, clicks, loading, doubled, AnyHeld(button, tasks'))
    BY <2>1, QuietStep
  <2>4. QED
    BY <2>1, <2>2, <2>3 DEF Inv, LoadingClears, StrayIsKnown, fetch
<1>3. ASSUME NEW o \in DOMAIN Options, Open(o) PROVE Inv'
  <2>1. /\ open = None /\ Options[o].gate # "button"
        /\ open' = [option |-> o, rows |-> IF Options[o].gate = "stepper" THEN {} ELSE selected]
        /\ tasks' = Kept(tasks)
        /\ UNCHANGED <<button, mobile, signedIn, canResetCache, selected, fetch, querying,
                       isLoading, stray>>
    BY <1>3 DEF Open
  <2>2. Typed'
    BY <1>1, <2>1 DEF Typed, Options, fetch
  <2>3. /\ TasksOK(button, tasks')
        /\ InFlight(tasks) => InFlight(tasks')
        /\ AnyLive(tasks') => AnyLive(tasks)
        /\ DialogsStay(button, open', tasks')
        /\ Caused(button, mobile, stray, doubled, tasks')
        /\ FetchOK(button, open', clicks', loading', doubled, AnyHeld(button, tasks'))
    BY <2>1, QuietStep DEF fetch
  <2>4. QED
    BY <2>1, <2>2, <2>3 DEF Inv, LoadingClears, StrayIsKnown, fetch
<1>4. ASSUME Leave PROVE Inv'
  <2>1. /\ open' = None /\ tasks' = Dropped(Kept(tasks))
        /\ clicks' = Unheard(clicks) /\ loading' = FALSE
        /\ UNCHANGED <<button, mobile, signedIn, canResetCache, selected, querying,
                       isLoading, stray, doubled>>
    BY <1>4 DEF Leave
  <2>2. Typed'
    BY <1>1, <2>1 DEF Typed
  <2>3. /\ TasksOK(button, tasks')
        /\ InFlight(tasks) => InFlight(tasks')
        /\ AnyLive(tasks') => AnyLive(tasks)
        /\ DialogsStay(button, open', tasks')
        /\ Caused(button, mobile, stray, doubled, tasks')
        /\ FetchOK(button, open', clicks', loading', doubled, AnyHeld(button, tasks'))
    BY <2>1, QuietStep
  <2>4. QED
    BY <2>1, <2>2, <2>3 DEF Inv, LoadingClears, StrayIsKnown
<1>5. ASSUME StartQuery PROVE Inv'
  <2>1. /\ querying' = TRUE /\ isLoading' = TRUE /\ tasks' = Kept(tasks)
        /\ UNCHANGED <<button, mobile, signedIn, canResetCache, selected, open, fetch,
                       stray>>
    BY <1>5 DEF StartQuery
  <2>2. Typed'
    BY <1>1, <2>1 DEF Typed, fetch
  <2>3. /\ TasksOK(button, tasks')
        /\ DialogsStay(button, open, tasks')
        /\ Caused(button, mobile, stray, doubled, tasks')
        /\ FetchOK(button, open, clicks, loading, doubled, AnyHeld(button, tasks'))
    BY <2>1, QuietStep
  <2>4. QED
    BY <2>1, <2>2, <2>3 DEF Inv, LoadingClears, StrayIsKnown, fetch
<1>6. ASSUME NEW out, EndQuery(out) PROVE Inv'
  <2>1. /\ querying' = FALSE /\ isLoading' = FALSE
        /\ stray' = AnyLive(tasks)
        /\ tasks' = IF Expires(out) THEN Dropped(Kept(tasks)) ELSE Kept(tasks)
        /\ clicks' = IF Expires(out) THEN Unheard(clicks) ELSE clicks
        /\ loading' = (loading /\ ~Expires(out))
        /\ open' = IF Expires(out) THEN None ELSE open
        /\ signedIn' = (signedIn /\ ~Expires(out)) /\ Noticed(out, FALSE)
        /\ UNCHANGED <<button, mobile, selected, doubled>>
    BY <1>6 DEF EndQuery
  <2>2. Typed'
    <3>1. signedIn' \in BOOLEAN /\ loading' \in BOOLEAN
      BY <2>1
    <3>2. stray' \in BOOLEAN
      BY <2>1 DEF AnyLive
    <3>3. canResetCache' \in BOOLEAN
      BY <1>1, <2>1 DEF Noticed, Typed
    <3>4. QED
      BY <1>1, <2>1, <3>1, <3>2, <3>3 DEF Typed
  <2>3. /\ TasksOK(button, tasks')
        /\ AnyLive(tasks') => AnyLive(tasks)
        /\ DialogsStay(button, open', tasks')
        /\ Caused(button, mobile, stray', doubled, tasks')
        /\ FetchOK(button, open', clicks', loading', doubled, AnyHeld(button, tasks'))
    <3>1. CASE Expires(out)
      <4>1. /\ tasks' = Dropped(Kept(tasks)) /\ clicks' = Unheard(clicks) /\ loading' = FALSE
            /\ AnyLive(tasks) /\ stray => stray'
        BY <2>1, <3>1
      <4>2. QED
        BY <4>1, QuietStep
    <3>2. CASE ~Expires(out)
      <4>1. /\ tasks' = Kept(tasks) /\ open' = open /\ clicks' = clicks
            /\ loading' = loading /\ (AnyLive(tasks) /\ stray => stray')
        BY <1>1, <2>1, <3>2 DEF Typed
      <4>2. QED
        BY <4>1, QuietStep
    <3>3. QED
      BY <3>1, <3>2
  <2>4. QED
    BY <2>1, <2>2, <2>3 DEF Inv, LoadingClears, StrayIsKnown
<1>7. ASSUME SignIn PROVE Inv'
  <2>1. /\ signedIn' = TRUE /\ selected' = {} /\ tasks' = Kept(tasks)
        /\ UNCHANGED <<button, mobile, canResetCache, open, fetch, querying, isLoading, stray>>
    BY <1>7 DEF SignIn
  <2>2. Typed'
    BY <1>1, <2>1 DEF Typed, fetch
  <2>3. /\ TasksOK(button, tasks')
        /\ InFlight(tasks) => InFlight(tasks')
        /\ AnyLive(tasks') => AnyLive(tasks)
        /\ DialogsStay(button, open, tasks')
        /\ Caused(button, mobile, stray, doubled, tasks')
        /\ FetchOK(button, open, clicks, loading, doubled, AnyHeld(button, tasks'))
    BY <2>1, QuietStep
  <2>4. QED
    BY <2>1, <2>2, <2>3 DEF Inv, LoadingClears, StrayIsKnown, fetch
<1>8. ASSUME NEW o \in DOMAIN Options, ClickButton(o) PROVE Inv'
  <2>1. Clicked(o, selected) /\ Options[o].gate = "button"
    BY <1>8 DEF ClickButton
  <2>2. selected \in SUBSET Rows
    BY <1>1 DEF Typed
  <2>3. PICK rows \in SUBSET Rows : rows = selected
    BY <2>2
  <2>4. QED
    BY <2>1, <2>3, ClickedInv
<1>9. ASSUME Accept PROVE Inv'
  <2>1. /\ Clicked(open.option, open.rows)
        /\ open # None /\ Options[open.option].gate = "dialog"
    BY <1>9 DEF Accept
  <2>2. open.option \in DOMAIN Options /\ open.rows \in SUBSET Rows
    BY <1>1, <2>1 DEF Typed, Options
  <2>3. PICK o \in DOMAIN Options, rows \in SUBSET Rows : o = open.option /\ rows = open.rows
    BY <2>2
  <2>4. QED
    BY <2>1, <2>3, ClickedInv
<1>10. ASSUME NEW i \in DOMAIN tasks, AnswerTo(i) PROVE Inv'
  BY <1>10, AnswerInv DEF AnswerTo
<1>11. CASE SubmitForm \/ DoFetch
  BY <1>11, SubmitFormInv, DoFetchInv
<1>12. CASE UNCHANGED vars
  BY <1>12 DEF vars, Inv, Typed, LoadingClears, StrayIsKnown
<1>13. QED
  BY <1>2, <1>3, <1>4, <1>5, <1>6, <1>7, <1>8, <1>9, <1>10, <1>11, <1>12 DEF Next

-----------------------------------------------------------------------------
(* The theorems. *)

\* The invariant holds in every state.
LEMMA AlwaysInv == Spec => []Inv
BY InitInv, NextInv, PTL DEF Spec

\* What the invariant says of one task.
LEMMA TaskInv ==
  ASSUME Inv, NEW i \in DOMAIN tasks
  PROVE  LET t == tasks[i]
         IN  /\ button \in Buttons /\ t \in TaskSet(button)
             /\ HandlerOf(t) \in Handlers
             /\ TaskOK(HandlerOf(t), t) /\ Covers(HandlerOf(t), t)
<1> DEFINE t == tasks[i]
<1>1. button \in Buttons /\ t \in TaskSet(button)
  BY SMT DEF Inv, Typed, TasksOK
<1>2. /\ t.option \in DOMAIN button.options
      /\ TaskOK(HandlerOf(t), t) /\ Covers(HandlerOf(t), t)
  BY <1>1 DEF Inv, TasksOK, Sound, HandlerOf, Options, TaskSet
<1>3. HandlerOf(t) \in Handlers
  BY <1>1, <1>2, OptionIsHandler DEF HandlerOf, Options
<1>4. QED
  BY <1>1, <1>2, <1>3

\* The type invariant of the pages: a handler has in flight only calls of its
\* plan that have not been answered.
THEOREM PagesTypeOK == Spec => []TypeOK
<1>1. Inv => TypeOK
  <2> SUFFICES ASSUME Inv PROVE TypeOK
    OBVIOUS
  <2>1. Typed
    BY DEF Inv
  <2>2. button.needs \in {"any", "one", "some"} /\ selected \subseteq Rows
    BY <2>1, ButtonsAssumption DEF Typed
  <2>3. ASSUME NEW i \in DOMAIN tasks
        PROVE  /\ Calls(tasks[i]) \subseteq tasks[i].plan
               /\ tasks[i].flight \cap tasks[i].answered = {}
               /\ tasks[i].ended \in {"no", "done", "failed"}
    BY <2>3, TaskInv DEF TaskOK, Sets, Made, Calls, TaskSet
  <2>4. \A k \in DOMAIN clicks : clicks[k].option \in DOMAIN Options
    <3>1. clicks \in Seq(ClickSet(button))
      BY DEF Inv, FetchOK, ClicksOK
    <3>2. \A k \in DOMAIN clicks : clicks[k] \in ClickSet(button)
      BY SMT, <3>1
    <3>3. QED
      BY <3>2 DEF ClickSet, Options
  <2>5. QED
    BY <2>1, <2>2, <2>3, <2>4 DEF TypeOK, Typed, Options
<1>2. QED
  BY <1>1, AlwaysInv, PTL

\* isLoading is never left set without a request in flight, in any order in
\* which queries and submissions overlap.
THEOREM PagesLoadingClears == Spec => []LoadingClears
<1>1. Inv => LoadingClears
  BY DEF Inv
<1>2. QED
  BY <1>1, AlwaysInv, PTL

\* Two handlers of one button run at the same time only when the dialog of the
\* first was closed, its button was clicked again before the timer of fetchRequest
\* had fired, isLoading was cleared by another answer, or the stepper is the
\* mobile one.
THEOREM PagesOverlapHasACause == Spec => []OverlapHasACause
<1>1. Inv => OverlapHasACause
  <2> SUFFICES ASSUME Inv, NEW j \in DOMAIN tasks, NEW i \in 1..(j - 1),
                      Live(tasks[i]), Live(tasks[j])
               PROVE  /\ Gate(tasks[i]) \in {"dialog", "button"} =>
                           tasks[i].dropped \/ doubled
                      /\ Gate(tasks[j]) \in {"steps", "stepper"} => mobile \/ stray
    BY DEF OverlapHasACause
  <2>1. i \in DOMAIN tasks /\ i < j
    BY SMT DEF Inv, TasksOK
  <2>2. QED
    BY <2>1 DEF Inv, Caused, ByFetch, GateOf, Gate, HandlerOf, Options
<1>2. QED
  BY <1>1, AlwaysInv, PTL

\* A success that a page announces is earned by every call it checks.
THEOREM PagesSuccessIsEarned == Spec => []SuccessIsEarned
<1>1. Inv => SuccessIsEarned
  BY TaskInv DEF SuccessIsEarned, TaskOK, Announced, Checked
<1>2. QED
  BY <1>1, AlwaysInv, PTL

\* A button for several rows that got to its end has made a call for every row
\* it was submitted with, or, when its handler takes the first row only, for one.
THEOREM PagesEveryRowIsServed == Spec => []EveryRowIsServed
<1>1. Inv => EveryRowIsServed
  <2> SUFFICES ASSUME Inv, NEW i \in DOMAIN tasks, tasks[i].ended = "done",
                      button.needs = "some"
               PROVE  LET t == tasks[i]
                      IN  /\ \/ t.rows \subseteq {c.on : c \in Calls(t)}
                             \/ FirstOnly(HandlerOf(t)) /\ \E c \in Calls(t) : c.on \in t.rows
                          /\ \A c \in t.flight : ~SpecOf(HandlerOf(t), c).waits
    BY DEF EveryRowIsServed
  <2> DEFINE t == tasks[i]
             h == HandlerOf(t)
  <2>1. /\ button \in Buttons /\ t \in TaskSet(button)
        /\ TaskOK(h, t) /\ Covers(h, t)
    BY TaskInv
  <2>2. Calls(t) = t.plan /\ \A c \in t.flight : ~SpecOf(h, c).waits
    BY <2>1 DEF TaskOK, Served, Calls, Made, Waits
  <2>3. t.option \in DOMAIN button.options /\ h = button.options[t.option]
    BY <2>1 DEF TaskSet, HandlerOf, Options
  <2>4. \E k \in DOMAIN h.stages : \E n \in DOMAIN h.stages[k] :
          h.stages[k][n].of \in {"rows", "first"}
    BY <2>1, <2>3, RowsAreServed
  <2> HIDE DEF t, h
  <2>5. \/ t.rows \subseteq {c.on : c \in t.plan}
        \/ FirstOnly(h) /\ \E c \in t.plan : c.on \in t.rows
    BY <2>1, <2>4 DEF Covers, FirstOnly
  <2>6. QED
    BY <2>2, <2>5 DEF t, h
<1>2. QED
  BY <1>1, AlwaysInv, PTL

\* A call about a new object follows one that has created it.
THEOREM PagesFollowUpsOnNew == Spec => []FollowUpsOnNew
<1>1. Inv => FollowUpsOnNew
  <2> SUFFICES ASSUME Inv, NEW i \in DOMAIN tasks, NEW c \in Calls(tasks[i]),
                      SpecOf(HandlerOf(tasks[i]), c).fresh
               PROVE  \E d \in tasks[i].earned :
                        /\ SpecOf(HandlerOf(tasks[i]), d).makes
                        /\ HandlerOf(tasks[i]).chained => d.on = c.on
    BY DEF FollowUpsOnNew
  <2> DEFINE t == tasks[i]
             h == HandlerOf(t)
  <2>1. h \in Handlers /\ TaskOK(h, t)
    BY TaskInv
  <2>2. c \in Made(t)
    BY DEF Made, Calls
  <2>3. SpecOf(h, c).fresh
    OBVIOUS
  <2> HIDE DEF h, t
  <2>4. \E d \in t.earned : SpecOf(h, d).makes /\ (h.chained => d.on = c.on)
    BY <2>1, <2>2, <2>3, FreshFollows
  <2>5. QED
    BY <2>4 DEF t, h
<1>2. QED
  BY <1>1, AlwaysInv, PTL

\* No form ends without a word, but for the three that can.
THEOREM PagesNoSilentEnd == Spec => []NoSilentEnd
<1>1. Inv => NoSilentEnd
  BY TaskInv DEF NoSilentEnd, TaskOK, Heard, Silent, Hush, Gate
<1>2. QED
  BY <1>1, AlwaysInv, PTL

=============================================================================
