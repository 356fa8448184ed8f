-------------------------- MODULE MCDatasetCreate --------------------------
(* Small instances of DatasetCreate. *)
EXTENDS DatasetCreate

CONSTANTS a, b, h

MCArrayVars  == {a, b}
MCHeaderVars == {h}
\* Two datasets that share a variable, one of them with a header-only variable.
MCSpecs      == {{a, b}, {b, h}}
=============================================================================
