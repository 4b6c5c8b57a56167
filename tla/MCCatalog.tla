----------------------------- MODULE MCCatalog -----------------------------
(* A small instance of Catalog for TLC.                                     *)
EXTENDS Catalog

TwoSchemas == {"public", "user"}
TwoTempSchemas == {"pg_temp_1", "pg_temp_2"}

\* One name of the user's, one that pg_catalog has, too.
TwoNames == {"t", "pg_class"}
OneCatalogued == {"pg_class"}

SomePaths == {<<>>, <<"user", "public">>}

Frame(fields, rows) == [fields |-> fields, rows |-> rows]
TwoFrames == {Frame(<<"a">>, TRUE), Frame(<<"b", "a">>, FALSE)}

BothDialects == {"postgres", "redshift"}
OnlyPostgres == {"postgres"}

=============================================================================
