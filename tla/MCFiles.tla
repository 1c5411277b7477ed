------------------------------- MODULE MCFiles -------------------------------
(***************************************************************************)
(* An instance of Files for TLC.                                           *)
(***************************************************************************)
EXTENDS Files

CONSTANTS a, b

TwoNames == {a, b}

\* The name b begins with a.
Prefix == [n \in Names |-> IF n = a THEN {b} ELSE {}]

\* Two different values.
Apart == {<<x, y>> \in Values \X Values : x # y}

ValueSymmetry == Permutations(Values)

Mode(creat, dir, access) == [creat |-> creat, dir |-> dir, access |-> access]
Path(names) == [names |-> names, slash |-> FALSE]

\* Names in directories: look up, create and make a directory.
NameUse ==
    [paths   |-> [names : SeqOf(Names, 2), slash : BOOLEAN],
     modes   |-> {Mode(FALSE, FALSE, "O_RDONLY"), Mode(TRUE, FALSE, "O_RDONLY"), Mode(TRUE, TRUE, "O_RDONLY")},
     fds     |-> {},
     lens    |-> {},
     strs    |-> {},
     offsets |-> {0},
     harms   |-> 0]

\* One file, written and read across blocks, also through two control blocks.
DataUse ==
    [paths   |-> {Path(<<b>>)},
     modes   |-> {Mode(TRUE, FALSE, "O_RDWR")},
     fds     |-> {3, 4},
     lens    |-> {1, 3},
     strs    |-> {<<x>> : x \in Values} \cup {<<x, y, y>> : <<x, y>> \in Apart},
     offsets |-> 0 .. 4,
     harms   |-> 0]

\* Two files, written a block at a time until the disk is full, and unlinked
\* while they are open.
FullUse ==
    [paths   |-> {Path(<<b>>), Path(<<a, b>>)},
     modes   |-> {Mode(TRUE, FALSE, "O_WRONLY")},
     fds     |-> {3},
     lens    |-> {4},
     strs    |-> Apart,
     offsets |-> {0, 2, 4},
     harms   |-> 1]

\* The root directory, written and read like a file.
RootUse ==
    [paths   |-> {Path(<<>>), Path(<<b>>)},
     modes   |-> {Mode(TRUE, FALSE, "O_RDWR")},
     fds     |-> {3},
     lens    |-> {2},
     strs    |-> Apart,
     offsets |-> {0, 2, 4},
     harms   |-> 2]

\* Files in a new directory, whose first block holds what the buffer held.
CopyUse ==
    [paths   |-> {Path(<<b>>), Path(<<b, a>>), Path(<<b, b>>)},
     modes   |-> {Mode(TRUE, FALSE, "O_RDWR"), Mode(TRUE, TRUE, "O_RDONLY")},
     fds     |-> {3},
     lens    |-> {2},
     strs    |-> Apart,
     offsets |-> {0, 2},
     harms   |-> 1]

AllUses == {NameUse, DataUse, FullUse, CopyUse, RootUse}

=============================================================================
