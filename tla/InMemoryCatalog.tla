--------------------------- MODULE InMemoryCatalog ---------------------------
(***************************************************************************)
(* The DDL of InMemoryCatalog (examples/catalog.ts): what each method does *)
(* to the schemas of an attachment.  The version belongs to the catalog,   *)
(* and a change of any attachment moves it.                                *)
(***************************************************************************)
EXTENDS CatalogSchemas

Initial == Set(EmptyMap, <<"main">>, Schema(NoComment))

schemaCreate(s, r) ==
    LET exists == r.path \in DOMAIN s
    IN  Outcome(exists /\ r.onConflict = "ERROR", exists /\ r.onConflict = "IGNORE", s,
                Set(s, r.path, Schema(r.comment)))

\* cascade is not looked at: the schema's objects go with it.
schemaDrop(s, r) ==
    LET missing == r.path \notin DOMAIN s
    IN  Outcome(missing /\ ~r.ignoreNotFound, missing, s, Delete(s, r.path))

tableCreate(s, r) ==
    LET exists == HasTable(s, r)
    IN  Outcome(\/ r.constrained
                \/ r.path \notin DOMAIN s
                \/ (exists /\ r.onConflict = "ERROR"),
                exists /\ r.onConflict = "IGNORE", s,
                PutTable(s, r.path, r.name, Object(r.value, NoComment, NoComment)))

tableDrop(s, r) ==
    LET missing == ~HasTable(s, r)
    IN  Outcome(missing /\ ~r.ignoreNotFound, missing, s, DropTable(s, r))

\* A schema that is not there is an error whatever ignoreNotFound says.
MissingTable(s, r) == ~HasTable(s, r)
tableCommentSet(s, r) ==
    Outcome(r.path \notin DOMAIN s \/ (MissingTable(s, r) /\ ~r.ignoreNotFound),
            MissingTable(s, r), s,
            [s EXCEPT ![r.path].tables[r.name].comment = r.comment])

\* A table of the new name is overwritten.
tableRename(s, r) ==
    Outcome(r.path \notin DOMAIN s \/ (MissingTable(s, r) /\ ~r.ignoreNotFound),
            MissingTable(s, r), s,
            PutTable(DropTable(s, r), r.path, r.newName, s[r.path].tables[r.name]))

viewCreate(s, r) ==
    LET exists == HasView(s, r)
    IN  Outcome(r.path \notin DOMAIN s \/ (exists /\ r.onConflict = "ERROR"),
                exists /\ r.onConflict = "IGNORE", s,
                PutView(s, r.path, r.name, Object(r.value, r.comment, NoComment)))

viewDrop(s, r) ==
    LET missing == ~HasView(s, r)
    IN  Outcome(missing /\ ~r.ignoreNotFound, missing, s, DropView(s, r))

MissingView(s, r) == ~HasView(s, r)
viewRename(s, r) ==
    Outcome(r.path \notin DOMAIN s \/ (MissingView(s, r) /\ ~r.ignoreNotFound),
            MissingView(s, r), s,
            PutView(DropView(s, r), r.path, r.newName, s[r.path].views[r.name]))

viewCommentSet(s, r) ==
    Outcome(r.path \notin DOMAIN s \/ (MissingView(s, r) /\ ~r.ignoreNotFound),
            MissingView(s, r), s,
            [s EXCEPT ![r.path].views[r.name].comment = r.comment])

viewColumnCommentSet(s, r) ==
    Outcome(~r.flat \/ (MissingView(s, r) /\ ~r.ignoreNotFound), MissingView(s, r), s,
            [s EXCEPT ![r.path].views[r.name].columnComment = r.comment])

\* CatalogInterface refuses what a catalog does not override.
Overridden ==
    {"schemaCreate", "schemaDrop", "tableCreate", "tableDrop", "tableCommentSet", "tableRename",
     "viewCreate", "viewDrop", "viewRename", "viewCommentSet", "viewColumnCommentSet"}

Apply(s, r) ==
    CASE r.call = "schemaCreate" -> schemaCreate(s, r)
      [] r.call = "schemaDrop" -> schemaDrop(s, r)
      [] r.call = "tableCreate" -> tableCreate(s, r)
      [] r.call = "tableDrop" -> tableDrop(s, r)
      [] r.call = "tableCommentSet" -> tableCommentSet(s, r)
      [] r.call = "tableRename" -> tableRename(s, r)
      [] r.call = "viewCreate" -> viewCreate(s, r)
      [] r.call = "viewDrop" -> viewDrop(s, r)
      [] r.call = "viewRename" -> viewRename(s, r)
      [] r.call = "viewCommentSet" -> viewCommentSet(s, r)
      [] r.call = "viewColumnCommentSet" -> viewColumnCommentSet(s, r)
      [] r.call \notin Overridden -> Outcome(TRUE, FALSE, s, s)
=============================================================================
