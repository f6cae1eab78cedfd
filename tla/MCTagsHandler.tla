---------------------------- MODULE MCTagsHandler ----------------------------
(***************************************************************************)
(* Small instances of TagsHandler: one threshold tag, two lists of         *)
(* Tagemons, two states of the AWS accounts.                               *)
(***************************************************************************)
EXTENDS TagsHandler, TLC

CONSTANTS Few, Many,       \* lists of Tagemons
          Before, After,   \* states of the AWS accounts
          Quota,           \* the metric of a threshold tag
          Database, Total  \* series: one resource, a count

Sample(metric, series, value) == [metric |-> metric, series |-> series, value |-> value]

AllSamples == {Sample(Quota, Database, 1), Sample(Quota, Database, 2)}
                \cup {Sample(NonCompliant, Total, n) : n \in 0..1}

(* The database has a quota and is compliant; after a change it has no     *)
(* quota any more, which only a list with the tag required minds.          *)
Found == [view \in {Few, Many}, state \in {Before, After} |->
            CASE state = Before -> {Sample(Quota, Database, IF view = Few THEN 1 ELSE 2),
                                    Sample(NonCompliant, Total, 0)}
              [] state = After  -> {Sample(NonCompliant, Total, IF view = Few THEN 0 ELSE 1)}]

(* Views that export one tag and two tags on metrics.                      *)
OneOrTwo == [view \in {Few, Many} |-> IF view = Few THEN {"team"} ELSE {"team", "env"}]

(* Views that each export one tag, but not the same.                       *)
OneEach == [view \in {Few, Many} |-> IF view = Few THEN {"team"} ELSE {"env"}]

=============================================================================
