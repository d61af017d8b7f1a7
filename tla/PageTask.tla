-------------------------------- MODULE PageTask --------------------------------
(***************************************************************************)
(* One submission of a page of FireEdge: the handler of a dialog or a form *)
(* and the calls it makes.                                                 *)
(*                                                                         *)
(* A handler is given by its stages: the calls of a stage are sent         *)
(* together (Promise.all), the next stage when those it awaits have        *)
(* settled.  Between two events of the browser JavaScript runs to the next *)
(* await that has to wait for a call, so what a handler does after an      *)
(* answer is part of that answer's step.                                   *)
(*                                                                         *)
(* A task is a submission under way: [option, rows, plan, stage, flight,   *)
(* answered, earned, dropped, told, ended].  Its rows are those the user   *)
(* submitted; its plan is the set of calls it has to make; flight and      *)
(* answered are those it has made; earned those that were checked and not  *)
(* refused; told what the user got to see of it.                           *)
(***************************************************************************)
EXTENDS Naturals, FiniteSets, FiniteSetsExt, Sequences

CONSTANTS
  Buttons,      \* a set of [needs, options]: see PagePrograms
  Rows,         \* the rows of the table
  Items,        \* the entries of a list of a form
  Copies,       \* what a form creates several of
  It            \* the one object a form or a dialog is about

ASSUME RowsAssumption == IsFiniteSet(Rows) /\ IsFiniteSet(Items) /\ IsFiniteSet(Copies)

\* A button without a dialog has no option with one.
ASSUME ButtonsAssumption ==
  \A b \in Buttons :
    /\ b.needs \in {"any", "one", "some"}
    /\ \A o, p \in DOMAIN b.options :
         b.options[o].gate = "button" => b.options[p].gate = "button"

Handlers == UNION {{b.options[o] : o \in DOMAIN b.options} : b \in Buttons}

\* A form announces its success.  A chain has one call per stage, and checks it.
ASSUME HandlersAssumption ==
  \A h \in Handlers :
    /\ h.gate \in {"button", "dialog", "steps", "stepper"}
    /\ {h.chained, h.says} \subseteq BOOLEAN
    /\ Len(h.stages) \in Nat /\ DOMAIN h.stages = 1..Len(h.stages)
    /\ \A k \in DOMAIN h.stages : DOMAIN h.stages[k] \subseteq Nat
    /\ h.gate = "stepper" => h.says
    /\ h.chained => \A k \in DOMAIN h.stages :
                      DOMAIN h.stages[k] = {1} /\ h.stages[k][1].strict

\* A call that is unwrapped is awaited.  The form that takes ID 0 for a failure
\* makes one call.  What the base query does not notify of a form is notified by
\* the form.
ASSUME CallsAssumption ==
  \A h \in Handlers : \A k \in DOMAIN h.stages : \A n \in DOMAIN h.stages[k] :
    LET spec == h.stages[k][n]
    IN  /\ spec.of \in {"rows", "first", "one", "maybe", "some", "many"}
        /\ spec.reads \in {"", "local", "truthy", "array", "document"}
        /\ spec.strict => spec.waits
        /\ spec.reads = "truthy" =>
             Len(h.stages) = 1 /\ DOMAIN h.stages[1] = {1} /\ spec.of = "one"
        /\ h.gate = "stepper" /\ spec.strict /\ (spec.mute \/ spec.reads = "array") =>
             spec.tells

\* A call about a new object comes after one that creates it.
ASSUME FreshAssumption ==
  \A h \in Handlers : \A k \in DOMAIN h.stages : \A n \in DOMAIN h.stages[k] :
    h.stages[k][n].fresh =>
      \E j \in 1..(k - 1) : \E m \in DOMAIN h.stages[j] :
        /\ h.stages[j][m].makes /\ h.stages[j][m].strict
        /\ h.stages[j][m].of \in {"one", "many"}

\* A button for several rows makes calls about them.
ASSUME RowsAreServed ==
  \A b \in Buttons : b.needs = "some" => \A o \in DOMAIN b.options :
    \E k \in DOMAIN b.options[o].stages : \E n \in DOMAIN b.options[o].stages[k] :
      b.options[o].stages[k][n].of \in {"rows", "first"}

-----------------------------------------------------------------------------
(* The calls of a handler h. *)

\* A call is [stage, call, on]: of the call-th spec of a stage, about one object.
SpecOf(h, c) == h.stages[c.stage][c.call]

\* What the calls of a spec can be about: every row, one row, the object of
\* the form, or what the user put in a list of the form.
Targets(spec, rows) ==
  CASE spec.of = "rows"  -> {rows}
    [] spec.of = "first" -> {{r} : r \in rows}
    [] spec.of = "one"   -> {{It}}
    [] spec.of = "maybe" -> {{}, {It}}
    [] spec.of = "some"  -> SUBSET Items
    [] spec.of = "many"  -> (SUBSET Copies) \ {{}}

\* The calls a handler may have to make: the form's input, chosen by the user.
Plans(h, rows) ==
  LET At == UNION {{k} \X DOMAIN h.stages[k] : k \in DOMAIN h.stages}
      T(x) == Targets(h.stages[x[1]][x[2]], rows)
      All == UNION {{[stage |-> x[1], call |-> x[2], on |-> y] : y \in UNION T(x)} :
                      x \in At}
      On(plan, x) == {c.on : c \in {d \in plan : <<d.stage, d.call>> = x}}
  IN  {plan \in SUBSET All :
         /\ \A x \in At : On(plan, x) \in T(x)
         /\ h.chained => \A x, y \in At : On(plan, x) = On(plan, y)}

\* The stages after k that have a call to wait for.
Stops(h, plan, k) ==
  {c.stage : c \in {d \in plan : d.stage > k /\ SpecOf(h, d).waits}}

\* Mutant: the stage that has been answered is sent again.
GoOn_again(h, plan, k) ==
  LET stops == Stops(h, plan, k) \cup {c.stage : c \in {d \in plan : d.stage = k}}
  IN  IF stops = {}
      THEN [done |-> TRUE, stage |-> k, sends |-> {c \in plan : c.stage > k}]
      ELSE [done |-> FALSE, stage |-> Min(stops),
            sends |-> {c \in plan : c.stage = Min(stops)}]

\* The handler goes on from stage k up to the next call it has to wait for;
\* done when there is none.
GoOn(h, plan, k) ==
  LET stops == Stops(h, plan, k)
  IN  IF stops = {}
      THEN [done |-> TRUE, stage |-> k, sends |-> {c \in plan : c.stage > k}]
      ELSE [done |-> FALSE, stage |-> Min(stops),
            sends |-> {c \in plan : c.stage > k /\ c.stage <= Min(stops)}]

\* Mutant: the first router that is there starts the next call of every chain.
Links_all(plan, c) == {d \in plan : d.stage = c.stage + 1}

\* A chained handler makes one chain of calls per item, each on its own.
Links(plan, c) == {d \in plan : d.stage = c.stage + 1 /\ d.on = c.on}

Live(t) == t.ended = "no"
\* Its dialog or its button shows that it is running.
Awaited(t) == Live(t) /\ ~t.dropped
\* A handler that has ended and has no call in flight is forgotten by the step
\* after its last one, unless it is between two others.
Under(t) == Live(t) \/ t.flight # {}
Span(ts, at) == IF at = {} THEN <<>> ELSE SubSeq(ts, Min(at), Max(at))
AllUnder(ts) == {i \in DOMAIN ts : Under(ts[i])}
Kept(ts) == Span(ts, AllUnder(ts))
InFlight(ts) == \E i \in DOMAIN ts : ts[i].flight # {}
AnyLive(ts) == \E i \in DOMAIN ts : Live(ts[i])

\* A dialog or a form is left, or the page of a button: its handler runs on,
\* but nothing on the screen waits for it any more.
Dropped(ts) == [i \in DOMAIN ts |-> [ts[i] EXCEPT !.dropped = @ \/ Live(ts[i])]]

\* The handler starts.  FormStepper does not await it, ButtonToTriggerForm does.
Started(option, h, rows, plan, dropped) ==
  LET g == GoOn(h, plan, 0)
  IN  [option |-> option, rows |-> rows, plan |-> plan, stage |-> g.stage,
       flight |-> g.sends, answered |-> {}, earned |-> {}, dropped |-> dropped,
       told |-> IF g.done /\ h.says THEN {"success"} ELSE {},
       ended |-> IF g.done THEN "done" ELSE "no"]

-----------------------------------------------------------------------------
(* The answers.  "lost" is a call whose time is over or whose connection   *)
(* broke: the HTTP client returns the error as if it were a response, and  *)
(* the call is fulfilled with an empty object.  "zero" is an object that   *)
(* was created with ID 0.                                                  *)

\* A lost response nobody reads is as good as any other.
Outcomes(spec) ==
  CASE spec.reads = "local"  -> {"accepted"}
    [] spec.reads = "truthy" -> {"accepted", "refused", "unauthorized", "zero"}
    [] spec.reads = "array"  -> {"accepted", "refused", "lost"}
    [] spec.reads = "document" -> {"accepted", "refused", "lost", "unauthorized"}
    [] spec.reads = "" -> {"accepted", "refused", "unauthorized"}
                            \ (IF spec.mute THEN {"unauthorized"} ELSE {})

\* Mutant: unwrap() is forgotten, and only a response that is not there throws.
Fails_unchecked(spec, out) ==
  spec.strict /\ out = "lost" /\ spec.reads \in {"document", "array"}

\* unwrap() throws; so does taking apart a response that is not there.
Fails(spec, out) ==
  /\ spec.strict
  /\ \/ out \in {"refused", "unauthorized"}
     \/ out = "lost" /\ spec.reads \in {"document", "array"}

\* What the handler of task t does when c is answered.
Reaction(h, t, c, out) ==
  LET spec == SpecOf(h, c)
      rest == t.flight \ {c}
      waits == {d \in rest : d.stage = t.stage /\ SpecOf(h, d).waits}
      links == IF h.chained /\ ~Fails(spec, out)
               THEN Links(t.plan, c) ELSE {}
      Stay(sends) == [stage |-> t.stage, sends |-> sends, ended |-> t.ended, says |-> FALSE]
      End(how, says) == [stage |-> t.stage, sends |-> {}, ended |-> how, says |-> says]
      g == GoOn(h, t.plan, t.stage)
      next == IF ~spec.waits \/ c.stage # t.stage \/ waits # {} THEN Stay({})
              ELSE [stage |-> g.stage, sends |-> g.sends,
                    ended |-> IF g.done THEN "done" ELSE "no",
                    says |-> g.done /\ h.says]
  IN  IF ~Live(t) THEN Stay(links)
      ELSE IF Fails(spec, out) THEN End("failed", FALSE)
      ELSE IF out = "zero" THEN End("done", FALSE)
      ELSE IF ~h.chained THEN next
      ELSE IF rest \cup links = {} THEN End("done", h.says)
      ELSE Stay(links)

\* Mutant: the base query does not notify a refusal.
Tells_nothing(t, spec, out, says, first) ==
  {m \in {"success", "error", "login", "unnoticed"} :
     \/ m = "success" /\ says
     \/ m = "error" /\ Live(t) /\ Fails(spec, out) /\ spec.tells
     \/ m = "login" /\ out = "unauthorized" /\ first
     \/ m = "unnoticed" /\ out = "unauthorized" /\ ~first}

\* What the user gets to see of it: the notification of the base query, the
\* page's own messages, the login page on the first 401; "unnoticed" stands for
\* nothing, when the session had ended.
Tells(t, spec, out, says, first) ==
  {m \in {"success", "error", "login", "unnoticed"} :
     \/ m = "success" /\ says
     \/ m = "error" /\ out = "refused" /\ ~spec.mute
     \/ m = "error" /\ Live(t) /\ Fails(spec, out) /\ spec.tells
     \/ m = "login" /\ out = "unauthorized" /\ first
     \/ m = "unnoticed" /\ out = "unauthorized" /\ ~first}

\* The task, now that c is answered and the handler reacts by r.  What is shown
\* of a dialog besides its success is not kept: no property is about it.
Settled(h, t, c, out, r, first) ==
  LET spec == SpecOf(h, c)
  IN  [t EXCEPT
         !.stage = r.stage, !.ended = r.ended,
         !.flight = (@ \ {c}) \cup r.sends,
         !.answered = @ \cup {c},
         !.earned = IF spec.strict /\ out \in {"accepted", "lost"} THEN @ \cup {c} ELSE @,
         !.told = {m \in @ \cup Tells(t, spec, out, r.says, first) :
                     h.gate = "stepper" \/ m = "success"}]

=================================================================================
