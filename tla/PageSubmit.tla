------------------------------- MODULE PageSubmit -------------------------------
(***************************************************************************)
(* What FireEdge's pages do with the API: the buttons above a table, the   *)
(* dialogs they open, the forms they lead to, and the handlers that send   *)
(* the calls when one of them is submitted.                                *)
(*                                                                         *)
(*   Open, Leave      a button opens a dialog or a form for the rows that  *)
(*                    are selected then; both can be left at any time      *)
(*   Accept, ClickButton   the button of a dialog, or one without a        *)
(*                    dialog, is clicked; useFetch waits for a timer       *)
(*   DoFetch          the timer fires and the handler starts: its first    *)
(*                    calls are sent, and its button is disabled           *)
(*   SubmitForm       the same for a form with steps, without a timer      *)
(*   Answer           a call settles, and the handler goes on              *)
(*   StartQuery, EndQuery   a list of some page is read in the background  *)
(***************************************************************************)
EXTENDS PageTask

CONSTANTS
  MaxTasks,     \* bound on the submissions under way at a time
  MaxCalls,     \* bound on the calls of all of them
  None

ASSUME BoundsAssumption == {MaxTasks, MaxCalls} \subseteq Nat \ {0}

VARIABLES
  button,       \* the button this behaviour is about
  mobile,       \* the button's forms with steps are drawn for a small screen
  signedIn,     \* the session is valid as far as the client knows
  canResetCache,  \* unauthenticatedMiddleware: the next 401 ends the session
  selected,     \* the rows selected in the table
  open,         \* the dialog or form on the screen: [option, rows]
  clicks,       \* clicks whose timer is running, in order: [option, rows, dropped]
  loading,      \* useFetch: the button on the screen is disabled by its handler
  tasks,        \* the submissions under way, in order
  querying,     \* a query of some page is in flight
  isLoading,    \* state.general.isLoading
  stray,        \* history: isLoading was cleared while a handler was waiting
  doubled       \* history: a button was clicked while a click on it was waiting

vars == <<button, mobile, signedIn, canResetCache, selected, open, clicks, loading,
          tasks, querying, isLoading, stray, doubled>>
fetch == <<clicks, loading, doubled>>

-----------------------------------------------------------------------------
Options == button.options
HandlerOf(t) == Options[t.option]

\* The bounds on the submissions and on their calls.
Free == Len(Kept(tasks)) + Len(clicks) < MaxTasks
Room(plan) ==
  \E ts \in {Kept(tasks)} :
    Cardinality(plan) + MapThenSumSet(LAMBDA i : Cardinality(ts[i].plan), DOMAIN ts) <= MaxCalls

-----------------------------------------------------------------------------
Init ==
  /\ button \in Buttons
  /\ mobile \in BOOLEAN
  /\ mobile => \E o \in DOMAIN Options : Options[o].gate \in {"steps", "stepper"}
  /\ signedIn = TRUE
  /\ canResetCache = TRUE
  /\ selected = {}
  /\ open = None
  /\ clicks = <<>> /\ loading = FALSE
  /\ tasks = <<>>
  /\ querying = FALSE
  /\ isLoading = FALSE
  /\ stray = FALSE /\ doubled = FALSE

\* The user changes the selection; a dialog would cover the table, and a button
\* that needs no row does not look at it.
Select(rows) ==
  /\ signedIn /\ open = None /\ button.needs # "any" /\ rows # selected
  /\ selected' = rows
  /\ tasks' = Kept(tasks)
  /\ UNCHANGED <<button, mobile, signedIn, canResetCache, open, fetch, querying,
                 isLoading, stray>>

\* isDisabledByNumberOfSelectedRows.
Enabled(needs, rows) ==
  CASE needs = "any"  -> TRUE
    [] needs = "one"  -> Cardinality(rows) = 1
    [] needs = "some" -> rows # {}

\* The dialog keeps the rows that are selected now; a form is another page.
Open(option) ==
  /\ signedIn /\ open = None
  /\ option \in DOMAIN Options /\ Options[option].gate # "button"
  /\ Enabled(button.needs, selected)
  /\ open' = [option |-> option,
               rows |-> IF Options[option].gate = "stepper" THEN {} ELSE selected]
  /\ tasks' = Kept(tasks)
  /\ UNCHANGED <<button, mobile, signedIn, canResetCache, selected, fetch, querying,
                 isLoading, stray>>

\* Nothing on the screen waits for these clicks; their timers run on.
Unheard(cs) == [k \in DOMAIN cs |-> [cs[k] EXCEPT !.dropped = TRUE]]
Waiting(cs) == {k \in DOMAIN cs : ~cs[k].dropped}

Leave ==
  /\ signedIn
  /\ open # None \/ Waiting(clicks) # {} \/ \E i \in DOMAIN tasks : Awaited(tasks[i])
  /\ open' = None
  /\ tasks' = Dropped(Kept(tasks))
  /\ clicks' = Unheard(clicks) /\ loading' = FALSE
  /\ UNCHANGED <<button, mobile, signedIn, canResetCache, selected, querying,
                 isLoading, stray, doubled>>

\* A dialog goes when its handler has ended, however; a form when its handler
\* gets to history.push.
Closes(option, ended, told) ==
  CASE Options[option].gate = "stepper" -> "success" \in told
    [] Options[option].gate = "button"  -> FALSE
    [] OTHER                            -> ended # "no"

\* The handler of t starts; rest are the clicks that still wait.
Begins(t, rest) ==
  LET closes == Closes(t.option, t.ended, t.told)
      ts == Append(Kept(tasks), t)
  IN  /\ Room(t.plan)
      /\ tasks' = IF closes THEN Dropped(ts) ELSE ts
      /\ clicks' = IF closes THEN Unheard(rest) ELSE rest
      /\ doubled' = (doubled /\ (AnyLive(ts) \/ rest # <<>>))
      /\ open' = IF closes THEN None ELSE open
      /\ selected' = IF t.ended = "done" /\ HandlerOf(t).clears THEN {} ELSE selected
      /\ isLoading' = (isLoading \/ t.flight # {})

\* The button of a form is disabled by isLoading, which MobileStepper does not
\* look at.  handleNext validates and calls the handler without a wait.
SubmitForm ==
  /\ signedIn /\ open # None /\ Options[open.option].gate \in {"steps", "stepper"}
  /\ mobile \/ ~isLoading
  /\ Free
  /\ \E plan \in Plans(Options[open.option], open.rows) :
       \E t \in {Started(open.option, Options[open.option], open.rows, plan, FALSE)} :
         /\ Begins(t, clicks)
         /\ loading' = (loading /\ ~Closes(t.option, t.ended, t.told))
  /\ UNCHANGED <<button, mobile, signedIn, canResetCache, querying, stray>>

\* Mutant: the button does not get isSubmitting.
Clicked_again(option, rows) ==
  /\ Free
  /\ clicks' = Append(clicks, [option |-> option, rows |-> rows, dropped |-> FALSE])
  /\ doubled' = (doubled \/ Waiting(clicks) # {})
  /\ tasks' = Kept(tasks)
  /\ UNCHANGED <<button, mobile, signedIn, canResetCache, selected, open, loading,
                 querying, isLoading, stray>>

\* fetchRequest: the handler is called when fakeDelay's timer fires, and only
\* then is the button disabled.
Clicked(option, rows) ==
  /\ ~loading /\ Free
  /\ clicks' = Append(clicks, [option |-> option, rows |-> rows, dropped |-> FALSE])
  /\ doubled' = (doubled \/ Waiting(clicks) # {})
  /\ tasks' = Kept(tasks)
  /\ UNCHANGED <<button, mobile, signedIn, canResetCache, selected, open, loading,
                 querying, isLoading, stray>>

\* The button of a dialog.
Accept ==
  /\ signedIn /\ open # None /\ Options[open.option].gate = "dialog"
  /\ Clicked(open.option, open.rows)

\* An action without a dialog.
ClickButton(option) ==
  /\ signedIn /\ open = None
  /\ option \in DOMAIN Options /\ Options[option].gate = "button"
  /\ Enabled(button.needs, selected)
  /\ Clicked(option, selected)

\* Mutant: the rows are looked up when the handler runs.
DoFetch_late ==
  /\ clicks # <<>>
  /\ \E click \in {Head(clicks)} : \E plan \in Plans(Options[click.option], selected) :
       \E t \in {Started(click.option, Options[click.option], click.rows, plan, click.dropped)} :
         /\ Begins(t, Tail(clicks))
         /\ loading' = IF Closes(t.option, t.ended, t.told) THEN FALSE
                       ELSE IF t.dropped THEN loading ELSE Live(t)
  /\ UNCHANGED <<button, mobile, signedIn, canResetCache, querying, stray>>

\* The timer of the oldest click fires, whatever has become of its button.
DoFetch ==
  /\ clicks # <<>>
  /\ \E click \in {Head(clicks)} : \E plan \in Plans(Options[click.option], click.rows) :
       \E t \in {Started(click.option, Options[click.option], click.rows, plan, click.dropped)} :
         /\ Begins(t, Tail(clicks))
         /\ loading' = IF Closes(t.option, t.ended, t.told) THEN FALSE
                       ELSE IF t.dropped THEN loading ELSE Live(t)
  /\ UNCHANGED <<button, mobile, signedIn, canResetCache, querying, stray>>

-----------------------------------------------------------------------------
(* The answers. *)

\* unauthenticatedMiddleware logs out on the first 401; the next one is let
\* through until some other status has been seen.
Expires(out) == out = "unauthorized" /\ canResetCache
Noticed(out, mute) ==
  canResetCache' = IF mute \/ out \notin {"refused", "unauthorized"} THEN canResetCache
                                                                 ELSE out = "refused"

Answer(i, c, out) ==
  \E t \in {tasks[i]} : \E r \in {Reaction(HandlerOf(t), t, c, out)} : \E now \in {Settled(HandlerOf(t), t, c, out, r, canResetCache)} :
    LET after == Span([tasks EXCEPT ![i] = now], AllUnder(tasks) \cup {i})
        ends == Live(t) /\ ~Live(now)
        leaves == Expires(out) \/ (ends /\ Closes(t.option, now.ended, now.told))
        enables == ends /\ Options[t.option].gate = "button" /\ ~t.dropped
    IN  /\ tasks' = IF leaves THEN Dropped(after) ELSE after
        /\ clicks' = IF leaves THEN Unheard(clicks) ELSE clicks
        /\ loading' = (loading /\ ~leaves /\ ~enables)
        /\ doubled' = (doubled /\ (AnyLive(after) \/ clicks # <<>>))
        /\ isLoading' = (r.sends # {})
        /\ stray' = (AnyLive(tasks') /\ (stray \/ r.sends = {}))
        /\ signedIn' = (signedIn /\ ~Expires(out))
        /\ Noticed(out, SpecOf(HandlerOf(t), c).mute)
        /\ open' = IF leaves THEN None ELSE open
        /\ selected' = IF ends /\ now.ended = "done" /\ HandlerOf(t).clears
                       THEN {} ELSE selected
        /\ UNCHANGED <<button, mobile, querying>>

AnswerTo(i) ==
  \E c \in tasks[i].flight :
    \E out \in Outcomes(SpecOf(HandlerOf(tasks[i]), c)) : Answer(i, c, out)

\* Tables and forms read what they show, on their own and again after a change.
StartQuery ==
  /\ signedIn /\ ~querying
  /\ querying' = TRUE /\ isLoading' = TRUE
  /\ tasks' = Kept(tasks)
  /\ UNCHANGED <<button, mobile, signedIn, canResetCache, selected, open, fetch, stray>>

\* Mutant: isLoading is not cleared by '/rejected'.
EndQuery_rejected(out) ==
  /\ querying
  /\ querying' = FALSE /\ isLoading' = (isLoading /\ out # "accepted")
  /\ stray' = AnyLive(tasks)
  /\ tasks' = IF Expires(out) THEN Dropped(Kept(tasks)) ELSE Kept(tasks)
  /\ clicks' = IF Expires(out) THEN Unheard(clicks) ELSE clicks
  /\ loading' = (loading /\ ~Expires(out))
  /\ open' = IF Expires(out) THEN None ELSE open
  /\ signedIn' = (signedIn /\ ~Expires(out)) /\ Noticed(out, FALSE)
  /\ UNCHANGED <<button, mobile, selected, doubled>>

\* A query is aborted by AuthLayout only: on logout, which has cleared isLoading,
\* or for the same queries to be made again; neither needs a step of its own.
EndQuery(out) ==
  /\ querying
  /\ querying' = FALSE /\ isLoading' = FALSE
  /\ stray' = AnyLive(tasks)
  /\ tasks' = IF Expires(out) THEN Dropped(Kept(tasks)) ELSE Kept(tasks)
  /\ clicks' = IF Expires(out) THEN Unheard(clicks) ELSE clicks
  /\ loading' = (loading /\ ~Expires(out))
  /\ open' = IF Expires(out) THEN None ELSE open
  /\ signedIn' = (signedIn /\ ~Expires(out)) /\ Noticed(out, FALSE)
  /\ UNCHANGED <<button, mobile, selected, doubled>>

SignIn ==
  /\ ~signedIn
  /\ signedIn' = TRUE /\ selected' = {}
  /\ tasks' = Kept(tasks)
  /\ UNCHANGED <<button, mobile, canResetCache, open, fetch, querying, isLoading, stray>>

Next ==
  \/ \E rows \in SUBSET Rows : Select(rows)
  \/ \E option \in DOMAIN Options : Open(option) \/ ClickButton(option)
  \/ Leave \/ SubmitForm \/ Accept \/ DoFetch
  \/ \E i \in DOMAIN tasks : AnswerTo(i)
  \/ \E out \in {"accepted", "refused", "unauthorized"} : EndQuery(out)
  \/ StartQuery \/ SignIn

Spec == Init /\ [][Next]_vars

-----------------------------------------------------------------------------
(* Properties *)

Calls(t) == t.flight \cup t.answered
Gate(t) == HandlerOf(t).gate

\* The variables keep to their domains, and what is in flight of a task was
\* planned and has not been answered.
TypeOK ==
  /\ button.needs \in {"any", "one", "some"} /\ selected \subseteq Rows
  /\ {mobile, signedIn, canResetCache, loading, querying, isLoading, stray, doubled}
       \subseteq BOOLEAN
  /\ open # None => open.option \in DOMAIN Options
  /\ \A k \in DOMAIN clicks : clicks[k].option \in DOMAIN Options
  /\ \A i \in DOMAIN tasks :
       /\ Calls(tasks[i]) \subseteq tasks[i].plan
       /\ tasks[i].flight \cap tasks[i].answered = {}
       /\ tasks[i].ended \in {"no", "done", "failed"}

\* The one isLoading flag of the store, set by every '/pending' and cleared by
\* every '/fulfilled' and '/rejected', is never left set when no request is in
\* flight: a form whose button it disables can be submitted again.
LoadingClears == isLoading => querying \/ InFlight(tasks)

\* Two handlers of one button run at the same time only for a reason: the
\* dialog of the first was closed, or the page of its button left, while it was
\* running; or the button was clicked again before the timer of fetchRequest had
\* fired; or the second came through a form whose isLoading was cleared by the
\* answer to another request, or through the mobile stepper, which is never
\* disabled.
OverlapHasACause ==
  \A j \in DOMAIN tasks : \A i \in 1..(j - 1) :
    Live(tasks[i]) /\ Live(tasks[j]) =>
      /\ Gate(tasks[i]) \in {"dialog", "button"} => tasks[i].dropped \/ doubled
      /\ Gate(tasks[j]) \in {"steps", "stepper"} => mobile \/ stray

\* A page that announces success has made every call it unwraps, in every
\* stage, and waited for it, and none of these was refused.  A response that is
\* lost counts as given, as it does in the HTTP client.
SuccessIsEarned ==
  \A i \in DOMAIN tasks :
    LET t == tasks[i]
    IN  "success" \in t.told =>
          {c \in t.plan : SpecOf(HandlerOf(t), c).strict} \subseteq t.earned

\* A call about a new cluster, group or router is only made when the call that
\* creates it has not failed; in a chain, the one that creates this router.
FollowUpsOnNew ==
  \A i \in DOMAIN tasks : \A c \in Calls(tasks[i]) :
    LET t == tasks[i]
    IN  SpecOf(HandlerOf(t), c).fresh =>
          \E d \in t.earned :
            SpecOf(HandlerOf(t), d).makes /\ (HandlerOf(t).chained => d.on = c.on)

\* A handler that takes the first of the rows it is given.
FirstOnly(h) ==
  \E k \in DOMAIN h.stages : \E n \in DOMAIN h.stages[k] : h.stages[k][n].of = "first"

\* A button for several rows that got to the end of its handler has made a call
\* for every row that was selected when it was clicked, or when its dialog was
\* opened, and has waited for those it awaits, whatever was selected meanwhile,
\* refused on the way, or left.  RESTORE of the VMs serves one row: its option
\* says selected: { max: 1 }, but ActionItem looks for that at the button.
EveryRowIsServed ==
  \A i \in DOMAIN tasks :
    LET t == tasks[i]
    IN  t.ended = "done" /\ button.needs = "some" =>
          /\ \/ t.rows \subseteq {c.on : c \in Calls(t)}
             \/ FirstOnly(HandlerOf(t)) /\ \E c \in Calls(t) : c.on \in t.rows
          /\ \A c \in t.flight : ~SpecOf(HandlerOf(t), c).waits

\* No form ends without a word: a message of success or failure, or the login
\* page.  Three can: the first backup job has ID 0, which CreateBackupJob takes
\* for a failure; CreateServiceTemplate hides that a response was lost; and a
\* session that expires again, no other failure in between, is not noticed.
NoSilentEnd ==
  \A i \in DOMAIN tasks :
    LET t == tasks[i]
        Hushed(spec) == spec.reads = "truthy" \/ (spec.reads = "document" /\ ~spec.tells)
    IN  t.ended # "no" /\ Gate(t) = "stepper" /\ t.told = {} =>
          \E c \in t.answered : Hushed(SpecOf(HandlerOf(t), c))

=============================================================================
