---------------------------- MODULE MCCollector -----------------------------
(***************************************************************************)
(* Values for the constants of Collector: what kernels and disks show that *)
(* the code has to cope with.                                              *)
(***************************************************************************)
EXTENDS Collector

Settings(enabled, mounts, sensors, token) ==
    [enabled |-> enabled, mounts |-> mounts, sensors |-> sensors, token |-> token]

Root    == <<47>>
Blank   == <<47, 97, 32, 10, 98>>       \* "/a", a space, a line feed, "b"
Literal == <<47, 92, 48, 52, 48>>       \* "/\040", as it reads
Share   == <<47, 110>>
Torn    == <<47, 12, 98>>               \* "/" FF "b"

\* Everything; lists of what to report; one category; none, which is refused.
MCConfig ==
    { Settings(Metric, None, None, None),
      Settings({"disk", "temperature"}, <<Root, Share, Literal>>,
               {<<107, 47, 67>>, <<110, 91, 104, 48, 93, 47, 67>>}, 1),
      Settings({"temperature"}, None, None, 1),
      Settings({}, None, None, None) }

MCPresented == {None, 1, 2}

MemoryOf(total, free, available, swap) ==
    [total |-> total, free |-> free, buffers |-> 0, cached |-> 1,
     available |-> available, swapTotal |-> swap, swapFree |-> swap \div 2]

\* With and without MemAvailable, more available than there is, nothing at all.
MCMeminfo ==
    { MemoryOf(8, 2, 4, 4), MemoryOf(8, 2, None, 0), MemoryOf(8, 2, 9, 0),
      MemoryOf(0, 0, 0, 0) }

Line(device, path, vfstype) == [device |-> device, path |-> path, vfstype |-> vfstype]

Ext4 == <<101, 120, 116, 52>>
Zfs  == <<122, 102, 115>>
Nfs  == <<110, 102, 115>>
Sda  == <<97>>
Sdb  == <<98, 32>>                      \* "b "

\* Up to two lines of these: a device twice, a network mount of it, blanks
\* and backslashes in a path, a blank in a device, and a form feed.
MountLines ==
    { Line(Sda, Root, Ext4), Line(Sda, Share, Zfs), Line(Sda, Blank, Nfs),
      Line(Sdb, Literal, Zfs), Line(<<99>>, Blank, Ext4), Line(<<100>>, Torn, Ext4) }
Tables == BoundedSeq(MountLines, 2)

Size(total, free) == [total |-> total, free |-> free]

\* All readable; one that is not; sizes of zero and less than what is free.
Usages ==
    { [p \in {Root, Blank, Literal, Share, Torn} |-> Size(8, 3)],
      [p \in {Root, Literal} |-> IF p = Root THEN Size(0, 0) ELSE Size(4, 5)] }

MCFilesystems == [table : Tables, usage : Usages]

Input(index, millidegrees, label) ==
    [index |-> index, millidegrees |-> millidegrees, label |-> label]

C == <<67>>

\* A label twice; a sensor that cannot be read beside one without a label.
SensorsOf(chip) ==
    { {Input(1, 1000 * (40 + chip), C), Input(2, 1000 * (50 + chip), C)},
      {Input(1, None, C), Input(2, -1000 * (5 + chip), <<>>)} }

\* Up to three chips, of the same or different names or without a name.
Chips(chip, names) == {{c} : c \in [index : {chip}, name : names, sensors : SensorsOf(chip)]}
MCHwmon ==
    {c[1] \cup c[2] \cup c[3] :
       c \in ({{}} \cup Chips(0, {<<110>>, <<107>>, <<>>}))
            \X ({{}} \cup Chips(1, {<<110>>, <<107>>, <<>>}))
            \X ({{}} \cup Chips(2, {<<110>>}))}
=============================================================================
