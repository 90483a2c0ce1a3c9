-------------------------------- MODULE MCSync --------------------------------
(***************************************************************************)
(* An instance of Sync: two syncs of one process, and a history of three   *)
(* commits: a file and a README; the file under another name; the name     *)
(* taken back by a file that cannot be imported, and another README.  The  *)
(* walker collects READMEs, and isSyncable does not accept them.           *)
(***************************************************************************)
EXTENDS Sync

Walked == <<"README.md", "a.md", "b.md">>
Files(readme, a, b) ==
    [f \in {"README.md", "a.md", "b.md"} |->
        CASE f = "README.md" -> readme [] f = "a.md" -> a [] OTHER -> b]

History ==
    [first |-> Files("v1", "v1", "none"),
     second |-> Files("none", "none", "v2"),
     third |-> Files("v2", "broken", "none")]

Forward ==
    {<<c, c>> : c \in DOMAIN History}
    \cup {<<"first", "second">>, <<"first", "third">>, <<"second", "third">>}

SyncModes == {<<FALSE, FALSE>>, <<FALSE, TRUE>>}

OnePid == [p \in Procs |-> 1]

=============================================================================
