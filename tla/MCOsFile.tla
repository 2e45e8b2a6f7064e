------------------------------ MODULE MCOsFile ------------------------------
\* Two tasks on a root with one directory, one regular file and a devfs mounted on
\* the directory, with one device.
EXTENDS OsFile, TLC

DirectoriesDef == {<<>>, <<"d">>}
FilesDef == {<<"f">>}
BootMountDef == <<"d">>
MountPathsDef == {<<"d">>}
UnmountPathsDef == {<<"d">>, <<"d", "..">>}
StatPathsDef == {<<"f">>, <<"d", "x">>}
OpenPathsDef == {<<"f">>, <<"f", "">>, <<"d">>, <<"d", "x">>, <<"d", "", "x">>}

Symmetric == Permutations(Task)
=============================================================================
