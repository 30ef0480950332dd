------------------------------ MODULE MCFat16 ------------------------------
(* Sector 0 is the boot sector, 1 the table, 288 the root directory, and    *)
(* the data begin at 289.  The sector numbers use all three registers.      *)
EXTENDS Fat16

Sectors == {0, 1} \cup 287 .. 300
NothingRead == [kind |-> "nothing"]
IdentityRead == [kind |-> "identity"]

Boot(magic) ==
  [kind |-> "boot", magic |-> magic,
   header |-> [sectorSize |-> 4, secPerCluster |-> 1, reserved |-> 1,
               directories |-> 4]]
Slot(kind, name, cluster) == [kind |-> kind, name |-> name,
                              location |-> cluster]
Folder(slots) == [kind |-> "directory", slots |-> slots]
Text(n) == [kind |-> "data", text |-> n]

\* /home/james/login.profile begins in cluster "profile"; "home" is where it is
\* said to be, and the file goes on as "links" says.  Cluster 3 is that of usr.
Volume(magic, home, links, usr, profile) ==
  [s \in Sectors |->
     CASE s = 0 -> Boot(magic)
       [] s = 1 -> [kind |-> "table",
                    next |-> [c \in 0 .. 15 |->
                                CASE c \in DOMAIN links -> links[c]
                                  [] c \in {9, 10} -> 0
                                  [] OTHER -> 255]]
       [] s = 288 -> Folder(<<Slot("long", "home", 0), Slot("short", "HOME~1", home),
                              Slot("none", "", 0), Slot("short", "usr", 3),
                              Slot("short", "x", 9)>>)
       [] s = 289 -> Folder(<<Slot("short", ".", 2), Slot("short", "..", 0),
                              Slot("short", "james", 4)>>)
       [] s = 290 -> Folder(usr)
       [] s = 291 -> Folder(<<Slot("short", "notes", 6),
                              Slot("long", "login.profile", 0),
                              Slot("short", "LOGIN~1.PRO", profile)>>)
       [] OTHER -> Text(s)]

NoSlots == << >>
Label == <<Slot("other", "MUK", 0), Slot("long", "long", 0)>>

Good == Volume(TRUE, 2, (5 :> 7 @@ 7 :> 8), NoSlots, 5)
Empty == Volume(TRUE, 2, (5 :> 7 @@ 7 :> 8), NoSlots, 0)
Cyclic == Volume(TRUE, 2, (5 :> 7 @@ 7 :> 5), Label, 5)
Unformatted == Volume(FALSE, 2, (5 :> 7), NoSlots, 5)
High == Volume(TRUE, 13, (5 :> 23), NoSlots, 5)

AllVolumes == {Good, Empty, Cyclic, Unformatted, High}

\* What else may look like a directory: one that is empty, one that has
\* something without a name, and one whose entries lead nowhere.
NoDirectories ==
  {NoSlots, <<Slot("other", "", 0)>>,
   <<Slot("short", "usr", 13), Slot("short", "home", 200),
     Slot("short", "login.profile", 255)>>}
NoTables == {[c \in 0 .. 15 |-> 255], [c \in 0 .. 15 |-> 0]}

Listed == {<< >>, <<"usr">>, <<"home", "bin">>, <<"home", "..", "usr">>, <<"x">>}
OneLetter == {<<"x">>}
HomeOfJames == <<"home", "james">>
=============================================================================
