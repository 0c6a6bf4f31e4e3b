---------------------------- MODULE PersistentMap ----------------------------
(***************************************************************************)
(* What a Configuration and its storage promise together, without locks,   *)
(* timers, watchers or temporary files: a map in memory and a copy of it   *)
(* that survives the process (IConfigStorage and IConfiguration in         *)
(* src/includes/OpenLibrary/utils_qt).                                     *)
(*                                                                         *)
(* An entry whose key goes on in the key of another one is not in the copy *)
(* (configuration_json_storage.cpp:38).                                    *)
(***************************************************************************)
EXTENDS SequencesExt

CONSTANTS Keys, Values

VARIABLES
  entries,   (* what clients see                                           *)
  copy,      (* what survives                                              *)
  phase,     (* open, closed or crashed                                    *)
  careful    (* the client sets entries where it may, and storage works;   *)
             (* never changes                                              *)

vars == <<entries, copy, phase, careful>>

Storable(map) ==
  Restrict(map, {p \in DOMAIN map : ~\E q \in DOMAIN map : IsStrictPrefix(p, q)})

Contents == UNION {[K -> Values] : K \in SUBSET Keys}

Empty == [k \in {} |-> k]

Init ==
  /\ phase = "open"
  /\ \E map \in Contents : copy \in {Empty, Storable(map)}
  /\ careful \in BOOLEAN
  /\ entries = copy \/ (~careful /\ entries = Empty)

Set ==
  /\ phase = "open"
  /\ \E k \in Keys, v \in Values :
       entries' = [i \in DOMAIN entries \cup {k} |-> IF i = k THEN v ELSE entries[i]]
  /\ UNCHANGED <<copy, phase, careful>>

(* The copy is replaced as a whole. *)
Save ==
  /\ phase = "open"
  /\ copy' = Storable(entries)
  /\ phase' \in {"open", "closed"}
  /\ UNCHANGED <<entries, careful>>

(* Nothing may be lost by closing, if the client is careful. *)
Close ==
  /\ phase = "open" /\ phase' = "closed"
  /\ careful => copy = Storable(entries)
  /\ UNCHANGED <<entries, copy, careful>>

Crash ==
  /\ phase = "open" /\ phase' = "crashed"
  /\ UNCHANGED <<entries, copy, careful>>

Open ==
  /\ phase # "open" /\ phase' = "open"
  /\ entries' = copy \/ (~careful /\ entries' = Empty)
  /\ UNCHANGED <<copy, careful>>

Next == Set \/ Save \/ Close \/ Crash \/ Open

Spec == Init /\ [][Next]_vars

=============================================================================
