------------------------------ MODULE MCRollup ------------------------------
(***************************************************************************)
(* Small batches for Rollup.                                               *)
(***************************************************************************)
EXTENDS Rollup

Scope(name, version) == [name |-> name, version |-> version]
Get  == <<"http.method", "GET">>
Post == <<"http.method", "POST">>
User == <<"user", "u1">>

Point(name, type, attrs, kind, value) ==
    [res |-> "r", scope |-> Scope(<<"s">>, <<"1">>), name |-> name,
     type |-> type, attrs |-> attrs, kind |-> kind, value |-> value]

\* Points of one metric that fall together at the coarse level, some of them at
\* the medium level too; of other kinds and types; and another metric.
MCPoints ==
    { Point("m", "sum", <<Get>>, "int", 1),
      [Point("m", "sum", <<Get, User>>, "int", 2)
         EXCEPT !.scope = Scope(<<"s", "1">>, <<>>)],
      Point("m", "sum", <<Post>>, "double", 4),
      Point("m", "sum", <<>>, "empty", 0),
      Point("m", "gauge", <<Get>>, "int", 8),
      Point("m", "histogram", <<Get>>, "int", 16),
      Point("h", "histogram", <<Get>>, "int", 32) }

Record(severity, first, rest, attrs) ==
    [res |-> "r", scope |-> Scope(<<"s">>, <<"1">>), severity |-> severity,
     first |-> first, rest |-> rest, attrs |-> attrs]

MCRecords ==
    { Record("error", "cannot reach host at", " a", {"request_id"}),
      Record("error", "cannot reach host at", " b", {"user_id", "region"}),
      Record("error", "cannot reach host at", "", {}),
      Record("info", "cannot reach host at", " a", {}) }
=============================================================================
