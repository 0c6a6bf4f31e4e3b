----------------------------- MODULE ProgressBar -----------------------------
(***************************************************************************)
(* QExProgressBarModel and QExProgressBarView of                           *)
(* src/QtExt/qtext_progressbar.cpp: a model keeps the range and the value  *)
(* of a progress bar and tells them by signals, a view is a QProgressBar   *)
(* that shows a model.                                                     *)
(*                                                                         *)
(* Models and views live in one thread, so the slots run inside the call   *)
(* that emits the signal.  Connections are a set: to be called twice       *)
(* changes nothing.  Models outlive their views.                           *)
(***************************************************************************)
EXTENDS Integers

CONSTANTS
  Models, Views,
  Numbers,          (* what minimum, maximum and value are set to          *)
  DefaultMaximum,   (* 100 in the code                                     *)
  None              (* nullptr                                             *)

VARIABLES
  data,             (* m_value, m_minimum, m_maximum, reseted of each model *)
  bar,              (* what each view shows, as a QProgressBar              *)
  model,            (* the member of each view                              *)
  connections       (* pairs of a model and a view that has its signals     *)

vars == <<data, bar, model, connections>>

Init ==
  /\ data = [m \in Models |->
               [value |-> 0, minimum |-> 0, maximum |-> DefaultMaximum, reseted |-> TRUE]]
  /\ bar = [v \in Views |-> [value |-> -1, minimum |-> 0, maximum |-> DefaultMaximum]]
  /\ model = [v \in Views |-> None]
  /\ connections = {}

-----------------------------------------------------------------------------
(* Slots of QProgressBar: what bar b is afterwards. *)

AfterReset(b) == [b EXCEPT !.value = b.minimum - 1]

AfterSetRange(b, min, max) ==
  LET top == IF max < min THEN min ELSE max
      ranged == [b EXCEPT !.minimum = min, !.maximum = top]
  IN  IF ranged = b THEN b
      ELSE IF b.value < min - 1 \/ b.value > top THEN AfterReset(ranged) ELSE ranged

AfterSetMinimum(b, min) == AfterSetRange(b, min, IF b.maximum < min THEN min ELSE b.maximum)

AfterSetMaximum(b, max) == AfterSetRange(b, IF max < b.minimum THEN max ELSE b.minimum, max)

(* A value outside of the range is ignored, but for the range from 0 to 0. *)
AfterSetValue(b, v) ==
  IF (v < b.minimum \/ v > b.maximum) /\ (b.minimum # 0 \/ b.maximum # 0) THEN b
  ELSE [b EXCEPT !.value = v]

-----------------------------------------------------------------------------
(* Model m gets new data and emits a signal; a view whose slot it reaches shows
   shown[v] then. *)
Emit(m, new, shown) ==
  /\ data' = [data EXCEPT ![m] = new]
  /\ bar' = [v \in Views |-> IF <<m, v>> \in connections THEN shown[v] ELSE bar[v]]
  /\ UNCHANGED <<model, connections>>

SetMaximum(m, n) ==
  Emit(m, [data[m] EXCEPT !.maximum = n, !.reseted = FALSE],
       [v \in Views |-> AfterSetMaximum(bar[v], n)])

SetMinimum(m, n) ==
  Emit(m, [data[m] EXCEPT !.minimum = n, !.reseted = FALSE],
       [v \in Views |-> AfterSetMinimum(bar[v], n)])

SetRange(m, min, max) ==
  Emit(m, [data[m] EXCEPT !.minimum = min, !.maximum = max, !.reseted = FALSE],
       [v \in Views |-> AfterSetRange(bar[v], min, max)])

SetValue(m, n) ==
  Emit(m, [data[m] EXCEPT !.value = n, !.reseted = FALSE],
       [v \in Views |-> AfterSetValue(bar[v], n)])

(* QExProgressBarModel::reset tells nobody. *)
Reset(m) ==
  /\ data' = [data EXCEPT ![m].reseted = TRUE]
  /\ UNCHANGED <<bar, model, connections>>

(* setModel: disconnect(model) ends connections from the view to the model, of
   which there are none.  A model that was not reset resets the bar. *)
SetModel(v, m) ==
  /\ model' = [model EXCEPT ![v] = m]
  /\ connections' = connections \cup {<<m, v>>}
  /\ LET d == data[m]
         refreshed == AfterSetValue(AfterSetRange(bar[v], d.minimum, d.maximum), d.value)
     IN  bar' = [bar EXCEPT ![v] = IF d.reseted THEN refreshed ELSE AfterReset(refreshed)]
  /\ UNCHANGED data

(* setModel(nullptr) *)
SetNoModel(v) ==
  /\ model' = [model EXCEPT ![v] = None]
  /\ bar' = [bar EXCEPT ![v] = AfterReset(AfterSetValue(AfterSetRange(bar[v], 0, DefaultMaximum), 0))]
  /\ UNCHANGED <<data, connections>>

Next ==
  \/ \E m \in Models :
       \/ \E n \in Numbers : SetMaximum(m, n) \/ SetMinimum(m, n) \/ SetValue(m, n)
       \/ \E min, max \in Numbers : SetRange(m, min, max)
       \/ Reset(m)
       \/ \E v \in Views : SetModel(v, m)
  \/ \E v \in Views : SetNoModel(v)

Spec == Init /\ [][Next]_vars

-----------------------------------------------------------------------------
(* "disconnect previous model" (qtext_progressbar.cpp:67): once a view was given
   another model, changes of the model it had do not change it. *)
OnlyItsModelIsShown ==
  [][\A m \in Models, v \in Views :
       data'[m] # data[m] /\ bar'[v] # bar[v] => model[v] = m]_vars

=============================================================================
