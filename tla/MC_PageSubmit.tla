----------------------------- MODULE MC_PageSubmit -----------------------------
(***************************************************************************)
(* PageSubmit with every handler of the tables and forms.  Two handlers    *)
(* that differ in the names of their endpoints only behave alike and are   *)
(* checked once; of a run of stages that are alike one is kept.            *)
(***************************************************************************)
EXTENDS PageSubmit, PagePrograms, OneApiEndpoints, TLC
LOCAL INSTANCE SequencesExt

Listed(S) == FoldSet(LAMBDA x, list : Append(list, x), <<>>, S)

Shape(spec) == [f \in DOMAIN spec \ {"eps"} |-> spec[f]]
Runs(stages) ==
  LET starts == {k \in DOMAIN stages : k = 1 \/ stages[k] # stages[k - 1]}
      at == SetToSortSeq(starts, <)
  IN  [i \in DOMAIN at |-> stages[at[i]]]
ShapeOf(h) ==
  [h EXCEPT !.stages = Runs([k \in DOMAIN @ |-> [n \in DOMAIN @[k] |-> Shape(@[k][n])]])]

ButtonSet == UNION {{AllButtons[i][k] : k \in DOMAIN AllButtons[i]} : i \in DOMAIN AllButtons}
\* What a form does is the same for whatever row it was opened.
Needs(b) ==
  IF \A o \in DOMAIN b.options : b.options[o].gate = "stepper" THEN "any" ELSE b.needs
\* A button that has all the options of another one behaves like it, too.
Within(b, d) == b # d /\ b.needs = d.needs /\ b.options \subseteq d.options
Shapes ==
  LET kinds == {[needs |-> Needs(b),
                 options |-> {ShapeOf(b.options[o]) : o \in DOMAIN b.options}] :
                  b \in ButtonSet}
  IN  {[b EXCEPT !.options = Listed(@)] :
         b \in {x \in kinds : ~\E d \in kinds : Within(x, d)}}
ButtonShapes == Shapes

\* The rows are alike, and so are the copies.
Alike == Permutations(Rows) \cup Permutations(Copies)

\* The endpoints that are a queryFn of their own instead of a command.
QueryFns == {"createTicket", "downloadApp", "saveAsTemplate", "uploadImage"}

\* Every call of a page names an endpoint of the API.
ASSUME PagesNameEndpoints ==
  \A b \in ButtonSet : \A o \in DOMAIN b.options :
    \A k \in DOMAIN b.options[o].stages : \A n \in DOMAIN b.options[o].stages[k] :
      \A e \in b.options[o].stages[k][n].eps \ QueryFns :
        \E i \in DOMAIN EndpointTables : e \in DOMAIN EndpointTables[i]

=============================================================================
