------------------------------ MODULE MCGitSync ------------------------------
EXTENDS GitSync, TLC

CONSTANTS a, b, folder, request, case, feature

MachineSet == {a, b}
BranchSet == {Main, feature}
BrancherSet == {a}
LoserSet == {b}
FolderSet == {folder}
RequestSet == {request}
CaseSet == {case}

(* A folder with a request in it.                                          *)
Shared ==
    [r \in Rows |->
        IF r = folder THEN [v |-> 1, up |-> Root]
        ELSE IF r = request THEN [v |-> 1, up |-> folder]
        ELSE Absent]
=============================================================================
