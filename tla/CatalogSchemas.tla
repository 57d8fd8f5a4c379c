--------------------------- MODULE CatalogSchemas ---------------------------
(***************************************************************************)
(* The contents of a writable catalog, and the answer of a DDL call on it. *)
(*                                                                         *)
(* A catalog is a map of schema paths to schemas, a schema two maps of     *)
(* names to objects: its tables and its views.  A call is refused, leaves  *)
(* things as they are, or changes them, and only then moves the version.   *)
(*                                                                         *)
(* A request r of a call has the fields                                    *)
(*   call                     the method                                   *)
(*   path, name, newName      the schema, the object, and its new name     *)
(*   onConflict               "ERROR", "IGNORE" or "REPLACE"               *)
(*   ignoreNotFound, cascade  as in the call                               *)
(*   value                    the object's columns or definition           *)
(*   comment                  a comment, or NoComment to take it away      *)
(*   constrained              constraint definitions come with the columns *)
(*   flat                     the column path is one plain identifier      *)
(*   negotiated               the call needs a profile nobody negotiated   *)
(***************************************************************************)
NoComment == 0

EmptyMap == [x \in {} |-> 0]

\* Map.set and Map.delete
Set(map, x, v) == [y \in DOMAIN map \cup {x} |-> IF y = x THEN v ELSE map[y]]
Delete(map, x) == [y \in DOMAIN map \ {x} |-> map[y]]

Schema(comment) == [comment |-> comment, tables |-> EmptyMap, views |-> EmptyMap]

\* A table or a view; columnComments are those of a view's column.
Object(value, comment, columnComment) ==
    [value |-> value, comment |-> comment, columnComment |-> columnComment]

\* What a call answers, and the schemas after it.
Outcome(refused, kept, schemas, changed) ==
    CASE refused -> [answer |-> "refused", schemas |-> schemas]
      [] ~refused /\ kept -> [answer |-> "kept", schemas |-> schemas]
      [] ~refused /\ ~kept -> [answer |-> "changed", schemas |-> changed]

HasTable(schemas, r) == r.path \in DOMAIN schemas /\ r.name \in DOMAIN schemas[r.path].tables
HasView(schemas, r) == r.path \in DOMAIN schemas /\ r.name \in DOMAIN schemas[r.path].views

PutTable(schemas, path, name, table) ==
    [schemas EXCEPT ![path].tables = Set(@, name, table)]
PutView(schemas, path, name, view) ==
    [schemas EXCEPT ![path].views = Set(@, name, view)]
DropTable(schemas, r) == [schemas EXCEPT ![r.path].tables = Delete(@, r.name)]
DropView(schemas, r) == [schemas EXCEPT ![r.path].views = Delete(@, r.name)]
=============================================================================
