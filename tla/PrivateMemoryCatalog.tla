------------------------- MODULE PrivateMemoryCatalog -------------------------
(***************************************************************************)
(* The DDL of PrivateMemoryCatalog (examples/catalog_contents.ts), whose   *)
(* attachments each have schemas and a version of their own.  It has no    *)
(* tableCommentSet, tableRename or viewRename: CatalogInterface refuses    *)
(* them.                                                                   *)
(***************************************************************************)
EXTENDS CatalogSchemas, Sequences
LOCAL INSTANCE SequencesExt

Initial == Set(EmptyMap, <<"main">>, Schema(NoComment))

\* A replaced schema starts empty; a nested one needs its parent.
schemaCreate(s, r) ==
    LET exists == r.path \in DOMAIN s
        orphan == Len(r.path) > 1 /\ Front(r.path) \notin DOMAIN s
    IN  Outcome(\/ exists /\ r.onConflict = "ERROR"
                \/ orphan /\ ~(exists /\ r.onConflict = "IGNORE"),
                exists /\ r.onConflict = "IGNORE", s,
                Set(s, r.path, Schema(r.comment)))

\* Schemas nested in it do not count as its contents, and stay.
schemaDrop(s, r) ==
    LET missing == r.path \notin DOMAIN s
        inUse == ~missing /\ (DOMAIN s[r.path].tables # {} \/ DOMAIN s[r.path].views # {})
    IN  Outcome((missing /\ ~r.ignoreNotFound) \/ (inUse /\ ~r.cascade), missing, s,
                Delete(s, r.path))

\* _replace: whether an object of that name is an error, or is kept.
Conflict(exists, r) == exists /\ r.onConflict = "ERROR"
Keeps(exists, r) == exists /\ r.onConflict = "IGNORE"

tableCreate(s, r) ==
    Outcome(r.constrained \/ r.path \notin DOMAIN s \/ Conflict(HasTable(s, r), r),
            Keeps(HasTable(s, r), r), s,
            PutTable(s, r.path, r.name, Object(r.value, NoComment, NoComment)))

tableDrop(s, r) ==
    LET missing == ~HasTable(s, r)
    IN  Outcome(missing /\ ~r.ignoreNotFound, missing, s, DropTable(s, r))

viewCreate(s, r) ==
    Outcome(r.path \notin DOMAIN s \/ Conflict(HasView(s, r), r), Keeps(HasView(s, r), r), s,
            PutView(s, r.path, r.name, Object(r.value, r.comment, NoComment)))

viewDrop(s, r) ==
    LET missing == ~HasView(s, r)
    IN  Outcome(missing /\ ~r.ignoreNotFound, missing, s, DropView(s, r))

viewCommentSet(s, r) ==
    LET missing == ~HasView(s, r)
    IN  Outcome(missing /\ ~r.ignoreNotFound, missing, s,
                [s EXCEPT ![r.path].views[r.name].comment = r.comment])

\* Mutant of viewColumnCommentSet: the version stays.
viewColumnCommentSetInPlace(s, r) ==
    [answer |-> "kept",
     schemas |-> IF HasView(s, r) THEN [s EXCEPT ![r.path].views[r.name].columnComment = r.comment]
                 ELSE s]

viewColumnCommentSet(s, r) ==
    LET missing == ~HasView(s, r)
    IN  Outcome(~r.flat \/ (missing /\ ~r.ignoreNotFound), missing, s,
                [s EXCEPT ![r.path].views[r.name].columnComment = r.comment])

\* CatalogInterface refuses what a catalog does not override.
Overridden ==
    {"schemaCreate", "schemaDrop", "tableCreate", "tableDrop", "viewCreate", "viewDrop",
     "viewCommentSet", "viewColumnCommentSet"}

Apply(s, r) ==
    CASE r.call = "schemaCreate" -> schemaCreate(s, r)
      [] r.call = "schemaDrop" -> schemaDrop(s, r)
      [] r.call = "tableCreate" -> tableCreate(s, r)
      [] r.call = "tableDrop" -> tableDrop(s, r)
      [] r.call = "viewCreate" -> viewCreate(s, r)
      [] r.call = "viewDrop" -> viewDrop(s, r)
      [] r.call = "viewCommentSet" -> viewCommentSet(s, r)
      [] r.call = "viewColumnCommentSet" -> viewColumnCommentSet(s, r)
      [] r.call \notin Overridden -> Outcome(TRUE, FALSE, s, s)
=============================================================================
