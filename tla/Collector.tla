----------------------------- MODULE Collector ------------------------------
(***************************************************************************)
(* One scrape of memory, disk and temperature: the collector reads /proc,  *)
(* statvfs and hwmon, one category after the other, into the flat map of   *)
(* its answer (silph-collector, silph-core metrics/), and the server turns *)
(* that map into points (Metric::process).  What the kernel shows may      *)
(* differ at each reading, so it is chosen when it is read.                *)
(*                                                                         *)
(* /proc/mounts, paths, chips' names and labels are sequences of ASCII     *)
(* codes, as what the code makes of them hangs on single ones.  A wire     *)
(* key is `name' or `name:instance'; a name is one symbol, since none has  *)
(* a colon, and the rest of the key is text.  cpu is in Scrape.tla.        *)
(***************************************************************************)
EXTENDS Integers, FiniteSets, SequencesExt

CONSTANTS
    Config,      \* the configurations a file may hold
    Presented,   \* the tokens scrapes come with
    Meminfo,     \* what /proc/meminfo may show
    Filesystems, \* what /proc/mounts and statvfs may show
    Hwmon,       \* what /sys/class/hwmon may show
    None,        \* a missing field, option or file
    Failed,      \* marks a category whose source could not be read
    NaN          \* the floating point value

Text   == Seq(Nat)
Metric == {"memory", "disk", "temperature"}

Mount  == [device : Text, path : Text, vfstype : Text]
Usage  == [total : Nat, free : Nat]
Sensor == [index : 0 .. 9, millidegrees : Int \cup {None}, label : Text]
Chip   == [index : 0 .. 9, name : Text, sensors : SUBSET Sensor]

\* Numbers are what the sources can hold.  Directories of one parent differ,
\* so the indices of chips do, and those of a chip's sensors.  Drivers name
\* their chips with words, without slashes (47) and brackets (91).
ASSUME CollectorAssumption ==
    /\ \A c \in Config :
          /\ c.enabled \subseteq Metric
          /\ c.mounts = None \/ c.mounts \in Seq(Text)
          /\ c.sensors = None \/ c.sensors \subseteq Text
    /\ Meminfo \subseteq
         [total : Nat, free : Nat, buffers : Nat, cached : Nat,
          available : Nat \cup {None}, swapTotal : Nat, swapFree : Nat]
    /\ \A fs \in Filesystems :
          /\ fs.table \in Seq(Mount)
          /\ DOMAIN fs.usage \subseteq Text
          /\ \A p \in DOMAIN fs.usage : fs.usage[p] \in Usage
    /\ \A chips \in Hwmon :
          /\ chips \subseteq Chip
          /\ \A c, d \in chips : c.index = d.index => c = d
          /\ \A c \in chips :
                /\ \A s, t \in c.sensors : s.index = t.index => s = t
                /\ \A i \in DOMAIN c.name : c.name[i] \notin {47, 91}
    /\ None \notin Text \cup Int \cup Usage \cup Config /\ NaN \notin Int
    /\ {None, Failed} \cap (Meminfo \cup Filesystems \cup Hwmon) = {}
    /\ None # Failed

VARIABLES
    phase,    \* what the collector is doing
    config,   \* its configuration
    todo,     \* categories of METRICS the request has still to collect
    wire,     \* the answer so far: raw values by wire key
    points,   \* what the server made of the last answer
    seen      \* history: what each category was shown, None where it was not asked

vars == <<phase, config, todo, wire, points, seen>>

METRICS == <<"memory", "disk", "temperature">>

\* OutputSpec: the series each category emits, and whether by instance.
\* (Mutant first: a copied entry.)
InstancedCopied(category) == category = "disk"
Instanced(category)       == category \in {"disk", "temperature"}
Outputs(category) ==
    CASE category = "memory"      -> {"memory_total", "memory_used", "memory_used_percent",
                                      "memory_swap_total", "memory_swap_used"}
      [] category = "disk"        -> {"disk_total", "disk_used", "disk_used_percent"}
      [] category = "temperature" -> {"temperature_celsius"}

Nothing == [m \in Metric |-> None]

Init ==
    /\ phase = "off" /\ config = None
    /\ todo = {} /\ wire = <<>>
    /\ points = {}
    /\ seen = Nothing

-----------------------------------------------------------------------------
(* Keys of the flat map                                                    *)

Colon == 58

\* MetricKey::into_wire_key
Plain(name)               == [name |-> name, rest |-> <<>>]
WithInstance(name, inst)  == [name |-> name, rest |-> <<Colon>> \o inst]

\* RawSnapshot::for_field: split_once(':'), the first colon.
ForField(map, name) ==
    {[instance |-> Tail(k.rest), value |-> map[k]] :
       k \in {j \in DOMAIN map : j.name = name /\ j.rest # <<>>}}

Pair(key, value) == [key |-> key, value |-> value]

\* BTreeMap::extend: the last value of a key stays.
At(pairs, key) == {i \in DOMAIN pairs : pairs[i].key = key}
Extend(map, pairs) ==
    [key \in DOMAIN map \cup {p.key : p \in ToSet(pairs)} |->
       IF At(pairs, key) = {} THEN map[key] ELSE pairs[Max(At(pairs, key))].value]

-----------------------------------------------------------------------------
(* Memory::collect and process                                             *)

MemoryPairs(info) ==
    << Pair(Plain("memory_total"), info.total),
       Pair(Plain("memory_free"), info.free),
       Pair(Plain("memory_buffers"), info.buffers),
       Pair(Plain("memory_cached"), info.cached),
       Pair(Plain("memory_swap_total"), info.swapTotal),
       Pair(Plain("memory_swap_free"), info.swapFree) >>
    \o IF info.available = None THEN <<>>
       ELSE << Pair(Plain("memory_available"), info.available) >>

Point(name, instance, value) == [name |-> name, instance |-> instance, value |-> value]

Percent(used, total) == IF total = 0 THEN NaN ELSE (100 * used) \div total

\* (total - free).max(0.0)
Used(total, free) == Max({total - free, 0})

\* A percentage only of what has a size.  (Mutant first: of anything.)
HasSizeAny(total) == TRUE
HasSize(total)    == total > 0

MemoryPoints(map) ==
    LET Has(name) == Plain(name) \in DOMAIN map
        Get(name) == map[Plain(name)]
        left      == IF Has("memory_available") THEN Get("memory_available")
                     ELSE Get("memory_free")
        used      == Used(Get("memory_total"), left)
        swap      == Used(Get("memory_swap_total"), Get("memory_swap_free"))
    IN  IF ~Has("memory_total") THEN {} ELSE
        {Point("memory_total", None, Get("memory_total"))}
        \cup (IF ~Has("memory_available") /\ ~Has("memory_free") THEN {} ELSE
              {Point("memory_used", None, used)}
              \cup {Point("memory_used_percent", None, Percent(used, t)) :
                      t \in {x \in {Get("memory_total")} : HasSize(x)}})
        \cup (IF ~Has("memory_swap_total") \/ ~Has("memory_swap_free") THEN {} ELSE
              {Point("memory_swap_total", None, Get("memory_swap_total")),
               Point("memory_swap_used", None, swap)})

-----------------------------------------------------------------------------
(* Disk::collect and process                                               *)

Backslash == 92

\* The kernel's mangle_path, as /proc/mounts has it.
Mangle(path) ==
    FlattenSeq([i \in DOMAIN path |->
      IF path[i] \in {9, 10, 32, Backslash}
      THEN <<Backslash, 48 + (path[i] \div 64), 48 + ((path[i] \div 8) % 8),
             48 + (path[i] % 8)>>
      ELSE <<path[i]>>])

Octal(c) == c \in 48 .. 55

\* u8::from_str_radix(.., 8) of the three characters after a backslash: it
\* also takes a leading plus.  None where there is no ASCII code.
Escape(field, at) ==
    LET a == field[at + 1]
        b == field[at + 2]
        c == field[at + 3]
        code == (IF a = 43 THEN 0 ELSE 64 * (a - 48)) + 8 * (b - 48) + c - 48
    IN  IF at + 3 <= Len(field) /\ (Octal(a) \/ a = 43) /\ Octal(b) /\ Octal(c) /\ code < 128
        THEN <<code>> ELSE <<>>

\* unmangle_octal.  (Mutant first: the rest is looked at from the escape's
\* first digit on.)
ResumeAfterSlash(at, escape) == at + 1
ResumeAfter(at, escape)      == IF escape = <<>> THEN at + 1 ELSE at + 4
Unmangle(field) ==
    LET from[at \in 1 .. Len(field) + 4] ==
          IF at > Len(field) THEN <<>>
          ELSE IF field[at] # Backslash THEN <<field[at]>> \o from[at + 1]
          ELSE LET escape == Escape(field, at)
               IN  (IF escape = <<>> THEN <<Backslash>> ELSE escape)
                     \o from[ResumeAfter(at, escape)]
    IN  from[1]

\* ext4, ext3, xfs, btrfs, f2fs, vfat and zfs.
FSTYPE_ALLOWLIST ==
    { <<101, 120, 116, 52>>, <<101, 120, 116, 51>>, <<120, 102, 115>>,
      <<98, 116, 114, 102, 115>>, <<102, 50, 102, 115>>, <<118, 102, 97, 116>>,
      <<122, 102, 115>> }

\* The pieces between the runs of such characters: none is empty, but for one
\* after the last run.
Grow(pieces, c, marks) ==
    IF c \notin marks THEN [pieces EXCEPT ![Len(pieces)] = Append(@, c)]
    ELSE IF pieces[Len(pieces)] = <<>> THEN pieces
    ELSE Append(pieces, <<>>)
Parts(text, marks) ==
    LET upto[i \in 0 .. Len(text)] ==
          IF i = 0 THEN << <<>> >> ELSE Grow(upto[i - 1], text[i], marks)
    IN  upto[Len(text)]

\* str::lines: those that are empty have no fields.
Lines(text) == Parts(text, {10})

\* split_ascii_whitespace: an empty one at the end names no filesystem.
Whitespace   == {9, 10, 12, 13, 32}
Fields(line) == Parts(line, Whitespace)

\* select_mounts: the first mount of each device with a local filesystem.
SelectMounts(text) ==
    FoldLeft(LAMBDA acc, line :
               IF \/ Len(Fields(line)) < 3
                  \/ Fields(line)[3] \notin FSTYPE_ALLOWLIST
                  \/ Fields(line)[1] \in acc.devices
               THEN acc
               ELSE [devices |-> acc.devices \cup {Fields(line)[1]},
                     mounts  |-> Append(acc.mounts, Unmangle(Fields(line)[2]))],
             [devices |-> {}, mounts |-> <<>>], Lines(text)).mounts

\* The kernel's text for a mount table: a line for each mount, of its device,
\* its path, its type, its options, here rw, and two zeros.
Ended(parts, mark) == FlattenSeq([i \in DOMAIN parts |-> Append(parts[i], mark)])
Row(mount) ==
    Ended(<< Mangle(mount.device), Mangle(mount.path), Mangle(mount.vfstype),
             <<114, 119>>, <<48>> >>, 32) \o <<48>>
ProcMounts(table) == Ended([i \in DOMAIN table |-> Row(table[i])], 10)

\* statvfs of a path that is no mount, or cannot be read, fails.
Statvfs(fs, path) == IF path \in DOMAIN fs.usage THEN fs.usage[path] ELSE None

DiskPairs(fs) ==
    LET mounts == IF config.mounts # None THEN config.mounts ELSE SelectMounts(ProcMounts(fs.table))
    IN  FlattenSeq([i \in DOMAIN mounts |->
          LET usage == Statvfs(fs, mounts[i])
          IN  IF usage = None THEN <<>>
              ELSE << Pair(WithInstance("disk_total", mounts[i]), usage.total),
                      Pair(WithInstance("disk_free", mounts[i]), usage.free) >>])

DiskPoints(map) ==
    UNION {LET free == map[WithInstance("disk_free", d.instance)]
               used == Used(d.value, free)
           IN  {Point("disk_total", d.instance, d.value),
                Point("disk_used", d.instance, used)}
               \cup {Point("disk_used_percent", d.instance, Percent(used, t)) :
                       t \in {x \in {d.value} : HasSize(x)}} :
             d \in {e \in ForField(map, "disk_total") :
                      WithInstance("disk_free", e.instance) \in DOMAIN map}}

-----------------------------------------------------------------------------
(* Temperature::collect and process                                        *)

\* hwmon<index>, shortened.
Dir(chip) == <<104, 48 + chip.index>>

ChipName(chip) == IF chip.name = <<>> THEN Dir(chip) ELSE chip.name

\* Chips of one name are told apart by their directories.  (Mutant first: no
\* name is taken to be shared.)
SharedNever(chips, chip) == FALSE
Shared(chips, chip) ==
    Cardinality({c \in chips : ChipName(c) = ChipName(chip)}) > 1
Qualified(chips, chip) ==
    IF Shared(chips, chip) THEN ChipName(chip) \o <<91>> \o Dir(chip) \o <<93>>
    ELSE ChipName(chip)

\* The label, or the attribute's stem, temp<index>.
Label(sensor) == IF sensor.label = <<>> THEN <<116, 48 + sensor.index>> ELSE sensor.label

SensorInstance(chips, chip, sensor) == Qualified(chips, chip) \o <<47>> \o Label(sensor)

\* Sensors that cannot be read are passed over, and chips that cannot be listed.
Readable(chips) ==
    {r \in UNION {{c} \X c.sensors : c \in chips} : r[2].millidegrees # None}

\* By the chip's index, then the sensor's.
Before(q, r) ==
    \/ q[1].index < r[1].index
    \/ (q[1].index = r[1].index /\ q[2].index < r[2].index)

InOrder(reads) ==
    [k \in 1 .. Cardinality(reads) |->
       CHOOSE r \in reads : Cardinality({q \in reads : Before(q, r)}) = k - 1]

Allowed(instance) == config.sensors = None \/ instance \in config.sensors

TemperaturePairs(chips) ==
    LET Name(r) == SensorInstance(chips, r[1], r[2])
        sensors == InOrder({r \in Readable(chips) : Allowed(Name(r))})
    IN  [i \in DOMAIN sensors |->
           Pair(WithInstance("temperature_celsius", Name(sensors[i])),
                sensors[i][2].millidegrees \div 1000)]

TemperaturePoints(map) ==
    {Point("temperature_celsius", s.instance, s.value) :
       s \in ForField(map, "temperature_celsius")}

-----------------------------------------------------------------------------
(* The collector's process and its requests                                *)

\* Config::from_toml: without a category it is refused.
Start(c) ==
    /\ phase = "off"
    /\ c.enabled # {}
    /\ phase' = "idle"
    /\ config' = c
    /\ UNCHANGED <<todo, wire, points, seen>>

\* A signal lets the answer in flight be finished first; a kill does not.
Stop ==
    /\ phase # "off"
    /\ phase' = "off"
    /\ config' = None
    /\ todo' = {} /\ wire' = <<>>
    /\ points' = {} /\ seen' = Nothing

\* require_bearer
Authorized(token) == config.token = None \/ token = config.token

\* A scrape without the token learns nothing.
Scrape(token) ==
    /\ phase = "idle"
    /\ IF Authorized(token)
       THEN /\ phase' = "collecting"
            /\ todo' = config.enabled
       ELSE UNCHANGED <<phase, todo>>
    /\ wire' = <<>>
    /\ points' = {}
    /\ seen' = Nothing
    /\ UNCHANGED config

\* The first of these categories in the order of METRICS.
Turn(ms) ==
    CHOOSE m \in ms :
       \A i, j \in DOMAIN METRICS : METRICS[i] = m /\ METRICS[j] \in ms => i <= j

\* One turn of the loop of metrics(): what is shown, and the pairs of it.
\* A category whose source cannot be read adds nothing.  (Mutant first: it
\* ends the loop.)
AfterFailureNone(rest) == {}
AfterFailure(rest)     == rest

CollectOne(category, shown, pairs) ==
    /\ phase = "collecting"
    /\ todo # {} /\ Turn(todo) = category
    /\ wire' = Extend(wire, pairs)
    /\ seen' = [seen EXCEPT ![category] = shown]
    /\ todo' = todo \ {category}
    /\ UNCHANGED <<phase, config, points>>

CollectFails ==
    /\ phase = "collecting"
    /\ todo # {}
    /\ Turn(todo) = "disk" => config.mounts = None
    /\ todo' = AfterFailure(todo \ {Turn(todo)})
    /\ seen' = [seen EXCEPT ![Turn(todo)] = Failed]
    /\ UNCHANGED <<phase, config, wire, points>>

CollectMemory      == \E m \in Meminfo : CollectOne("memory", m, MemoryPairs(m))
CollectDisk        == \E f \in Filesystems : CollectOne("disk", f, DiskPairs(f))
CollectTemperature == \E h \in Hwmon : CollectOne("temperature", h, TemperaturePairs(h))

\* The answer is sent, and the server processes it.
Process(map) == MemoryPoints(map) \cup DiskPoints(map) \cup TemperaturePoints(map)
Respond ==
    /\ phase = "collecting"
    /\ todo = {}
    /\ points' = Process(wire)
    /\ phase' = "idle"
    /\ UNCHANGED <<config, todo, wire, seen>>

Next ==
    \/ \E c \in Config : Start(c)
    \/ Stop
    \/ \E t \in Presented : Scrape(t)
    \/ CollectMemory \/ CollectDisk \/ CollectTemperature
    \/ CollectFails
    \/ Respond

Spec == Init /\ [][Next]_vars

-----------------------------------------------------------------------------

WasRead(category) == seen[category] \notin {None, Failed}

PointsOf(name) == {p \in points : p.name = name}

\* Every point is of a series its category declares, with an instance where
\* that is declared instanced and only there: otherwise the query API never
\* asks the store for it (metric.rs:76-84, api.rs:184-195).
TypeOK ==
    /\ phase \in {"off", "idle", "collecting"}
    /\ config \in Config \cup {None}
    /\ \A p \in points :
          \E m \in Metric :
             p.name \in Outputs(m) /\ (p.instance # None <=> Instanced(m))

\* No series has readings of two chips.  Each sensor that can be read, is
\* allowed and shares its label with no other such sensor of its chip has one
\* point, with its value, whatever other chips or sensors share names or fail,
\* and every point is the reading of an allowed sensor (temperature.rs:66-121).
\* Sensors of one chip that share a label are one series, although "one
\* series per sensor" (temperature.rs:6) and "by default every readable sensor
\* is reported" (temperature.rs:11-12) are said of all.
SensorsApart ==
    phase = "idle" /\ WasRead("temperature") =>
       LET chips   == seen["temperature"]
           Read    == Readable(chips)
           Name(r) == SensorInstance(chips, r[1], r[2])
           Alone(r) == \A q \in Read :
                         q[1] = r[1] /\ Label(q[2]) = Label(r[2]) => q = r
           Told(r) == Point("temperature_celsius", Name(r), r[2].millidegrees \div 1000)
       IN  /\ \A q, r \in Read : Name(q) = Name(r) => q[1] = r[1]
           /\ \A r \in Read :
                Alone(r) /\ Allowed(Name(r)) =>
                  {p \in PointsOf("temperature_celsius") : p.instance = Name(r)} = {Told(r)}
           /\ PointsOf("temperature_celsius")
                \subseteq {Told(r) : r \in {q \in Read : Allowed(Name(q))}}

\* What a field of /proc/mounts can hold for the split to leave it whole: the
\* kernel escapes the other blanks, and an empty field is no field.
Legible(text)  == text # <<>> /\ \A i \in DOMAIN text : text[i] \notin {12, 13}
LegibleRow(mount) == Legible(mount.device) /\ Legible(mount.path) /\ Legible(mount.vfstype)

\* The paths of the first mounts of local devices.
LocalMounts(table) ==
    {table[i].path :
       i \in {k \in DOMAIN table :
                /\ table[k].vfstype \in FSTYPE_ALLOWLIST
                /\ \A j \in 1 .. k - 1 : \/ table[j].device # table[k].device
                                         \/ table[j].vfstype \notin FSTYPE_ALLOWLIST}}

\* Where mounts are found by themselves, each local device that can be read is
\* reported once, at its first mount, under the path it really has, spaces,
\* tabs, line feeds and backslashes in it included, although the text is split
\* at blanks before it is unescaped; as long as no field of the table is empty
\* or has one of the blanks the kernel does not escape (disk.rs:102-152).  One
\* that has falls apart at line 109, though lines 102-104 except no mount.
DisksOnce ==
    phase = "idle" /\ WasRead("disk") /\ config.mounts = None =>
       LET table == seen["disk"].table
       IN  (\A i \in DOMAIN table : LegibleRow(table[i])) =>
              {p.instance : p \in PointsOf("disk_total")}
                = LocalMounts(table) \cap DOMAIN seen["disk"].usage

\* Every point can be stored: none is NaN, which the store would refuse along
\* with all of its host's other points; what is used is no more than there is,
\* and a percentage is one (storage.rs:359-362, memory.rs:71-82, disk.rs:87-96).
PointsStorable ==
    \A p \in points :
       /\ p.value # NaN
       /\ p.name \in {"memory_used_percent", "disk_used_percent"} => p.value \in 0 .. 100
       /\ p.name = "disk_used" =>
             \E t \in PointsOf("disk_total") : t.instance = p.instance /\ p.value \in 0 .. t.value

\* A category that fails takes no other with it, and one that is not enabled
\* is not seen: each enabled one is asked, and the points are those each that
\* could be read gives alone (lib.rs:67-82 of silph-collector).
CategoriesIndependent ==
    /\ phase = "collecting" /\ todo = {} =>
          \A m \in Metric : m \in config.enabled <=> seen[m] # None
    /\ phase = "idle" => points = UNION {
         CASE m = "memory"      -> MemoryPoints(Extend(<<>>, MemoryPairs(seen[m])))
           [] m = "disk"        -> DiskPoints(Extend(<<>>, DiskPairs(seen[m])))
           [] m = "temperature" -> TemperaturePoints(Extend(<<>>, TemperaturePairs(seen[m]))) :
         m \in {c \in Metric : WasRead(c)}}
=============================================================================
