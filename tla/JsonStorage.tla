---------------------------- MODULE JsonStorage -----------------------------
(***************************************************************************)
(* ConfigJsonStorage of src/utils_qt/configuration_json_storage.cpp, which *)
(* keeps the entries of a Configuration in a file, as nested JSON objects. *)
(*                                                                         *)
(* A JSON document is a function from the paths of its members (sequences  *)
(* of names) to their values; the value of a member that is an object is   *)
(* Object, its own members have longer paths.  Entries are functions from  *)
(* paths to values.  The file is replaced through a QSaveFile, which       *)
(* writes to a temporary file and renames it in commit().  save() and      *)
(* load() look at no result of the file operations, each of which may      *)
(* fail.  The model is of the build with NDEBUG.                           *)
(***************************************************************************)
EXTENDS SequencesExt

CONSTANTS
  Object,     (* the value of a member that is an object                   *)
  Absent      (* no file                                                   *)

VARIABLES
  file,       (* the document in m_configFile, or Absent                   *)
  temp,       (* the document in the temporary file of a save, or Absent   *)
  fails       (* whether the operations on files may fail; never changes   *)

EmptyDocument == [p \in {} |-> Object]

Branches(path) == {p \in Prefixes(path) : p \notin {<<>>, path}}

(* The objects on the way to path take the place of other values, and value
   takes the place of what path was, with everything below it. *)
WriteTo(obj, path, value) ==
  LET kept == {p \in DOMAIN obj : ~IsStrictPrefix(path, p)}
  IN  [p \in kept \cup Branches(path) \cup {path} |->
         IF p = path THEN value ELSE IF p \in Branches(path) THEN Object ELSE obj[p]]

(* The map of the entries is in lexicographic order.  What matters of it is
   that a path comes before those it is a prefix of. *)
InOrder(paths) ==
  CHOOSE order \in [1..Cardinality(paths) -> paths] :
    /\ Range(order) = paths
    /\ \A m, n \in DOMAIN order : IsStrictPrefix(order[m], order[n]) => m < n

(* The loop of save(). *)
Document(entries) ==
  FoldLeft(LAMBDA obj, path : WriteTo(obj, path, entries[path]),
           EmptyDocument, InOrder(DOMAIN entries))

(* readNode of the whole document. *)
ReadNode(obj) == RestrictValues(obj, LAMBDA value : value # Object)

(* What load() returns when nothing fails. *)
Stored == IF file = Absent THEN EmptyDocument ELSE ReadNode(file)

-----------------------------------------------------------------------------
(* Mutant: a QFile instead of a QSaveFile, which is truncated when it is opened. *)
WriteInPlace(entries) ==
  /\ temp' = Document(entries)
  /\ file' = Absent

(* save() up to commit(). *)
Write(entries) ==
  /\ \/ temp' = Document(entries)
     \/ fails /\ temp' = Absent
  /\ UNCHANGED file

(* QSaveFile::commit, which does nothing after a failed open or write. *)
Commit ==
  /\ \/ file' = IF temp = Absent THEN file ELSE temp
     \/ fails /\ UNCHANGED file
  /\ temp' = Absent

(* What load() may return; a file that cannot be read counts as empty. *)
Loaded == IF fails THEN {Stored, EmptyDocument} ELSE {Stored}

=============================================================================
