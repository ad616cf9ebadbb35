------------------------------ MODULE MCConsole ------------------------------
(* A narrow terminal, every control a program may print on it, prompts of  *)
(* two widths, and a line that wraps and, after the wider prompt, fills    *)
(* its last row.                                                           *)
EXTENDS Console
MCSources == <<"kbd", "uart">>
MCControls ==
    {<<"put", "a">>, <<"SGR", 1>>, <<"DECSTBM", 1, 2>>, <<"DECSTBM", 2, 3>>,
     <<"CUP", 1, 1>>, <<"CUP", 9, 9>>, <<"CHA", 2>>, <<"VPA", 2>>}
    \cup {<<name>> : name \in {"LF", "CR", "BS", "FF", "RI", "RIS", "SCP", "RCP", "DECSC", "DECRC", "DECSTR"}}
    \cup ({"CUU", "CUD", "CUF", "CUB", "CNL", "CPL", "ECH", "ICH", "DCH", "IL", "DL", "SU", "SD"} \X {1})
    \cup ({"EL", "ED"} \X {0, 1, 2})
    \cup {<<"SD", 2>>, <<"DECOM", TRUE>>, <<"DECAWM", FALSE>>}
    \cup {<<"alt", save, clear>> : save, clear \in BOOLEAN}
    \cup {<<"primary", restore, mark>> : restore, mark \in BOOLEAN}
Text == <<<<"put", "x">>, <<"CR">>, <<"LF">>, <<"put", "y">>, <<"CR">>, <<"LF">>, <<"put", "z">>>>
MCOpenings == {Text}
MCPrompts == {<<<<"CUP", 1, 1>>, <<"put", ">">>>>, <<<<"CR">>, <<"put", ">">>, <<"put", ">">>>>}
MCKeys == <<3, 3>>
MCPast == <<<<"b", "b", "b", "b", "b">>>>
=============================================================================
