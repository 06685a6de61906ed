---------------------------- MODULE MCFileImport ----------------------------
(* Spreadsheets for model checking FileImport.  Batches are of two rows.    *)
EXTENDS FileImport

CONSTANTS sheet, small, backend, worker, none

Ann == <<"ann", "lower">>
ANN == <<"ann", "mixed">>
Bob == <<"bob", "lower">>
Cat == <<"cat", "lower">>
Text == Bob                        \* what the other column says

Plain == <<"email", "name">>

(* Four rows: one of them empty, one a duplicate in another spelling. *)
Sheet  == [format |-> "xlsx", label |-> "csv", header |-> Plain,
           rows |-> << <<ANN, Text>>, <<Empty, Text>>, <<Ann, Text>>, <<Cat, Text>> >>]
(* One batch of CSV rows. *)
Small  == [format |-> "csv", label |-> "csv", header |-> Plain,
           rows |-> << <<ANN, Text>>, <<Bob, Text>> >>]

MCHandAdded == {<<1, ANN>>}

MCContents == [f \in Files |-> IF f = sheet THEN Sheet ELSE Small]
=============================================================================
