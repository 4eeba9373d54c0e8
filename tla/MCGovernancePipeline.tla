------------------------ MODULE MCGovernancePipeline ------------------------
(* An instance of GovernancePipeline for TLC.                              *)
EXTENDS GovernancePipeline

Plain == [hasId |-> TRUE, hasPayload |-> TRUE, type |-> "other",
          command |-> {}, hasPath |-> FALSE, path |-> {}, timeout |-> "none"]

Request(id, text, action) == [id |-> id, text |-> text, action |-> action]

Reset == Request("a", "command=git reset --hard",
                 [Plain EXCEPT !.type = "shell", !.command = {"reset"}])

Format == Request("b", "command=mkfs.ext4",
                  [Plain EXCEPT !.type = "shell", !.command = {"dangerous"}])

Read == Request("c", "path=notes",
                [Plain EXCEPT !.type = "file_read", !.hasPath = TRUE])

(* {"path": "x;timeout=90"} and {"path": "x", "timeout": 90} print alike.  *)
DeleteOdd == Request("d", "path=x;timeout=90;",
                     [Plain EXCEPT !.type = "file_delete", !.hasPath = TRUE])

DeleteSlow == [DeleteOdd EXCEPT !.action.timeout = "beyond"]

MCRequests == {Reset, Format, Read, DeleteOdd, DeleteSlow}

MCRuleSets == {{}, {"GIT-002"}, {"GIT-001", "GIT-002"}}
=============================================================================
