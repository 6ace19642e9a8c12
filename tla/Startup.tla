-------------------------------- MODULE Startup --------------------------------
(***************************************************************************)
(* From main to the first clock and out again: the edits of a platform     *)
(* definition and parse_options on a PlatformSpec, the constructor of      *)
(* Platform, load_images, and the destructors on every way out             *)
(* (src/sim_main.cpp, src/platform.cpp).                                   *)
(*                                                                         *)
(* A step of the definition or an option of the command line is a record   *)
(* with a field op.  A device has an id, a type and properties; the types  *)
(* are those of register_builtin_devices with what startup sees of them,   *)
(* and "custom" is a loadable device whose load may break the promise of   *)
(* its can_load.                                                           *)
(***************************************************************************)
EXTENDS Connect, Loader, HostServices

CONSTANTS
  Defaults,      \* the PlatformSpec of default_platform
  Invocations,   \* the builds and command lines to try: args and narrow
  Malformed,     \* the device names that validate_name refuses
  Limit          \* 2^32

VARIABLES
  args,       \* steps and options not handled yet
  options,    \* help, and the targets of --load and --elf
  narrow,     \* ADDRESS_BITS is 32
  configured, \* devices whose properties are checked
  created,    \* the devices, with the descriptors they hold
  host, mappings_,
  mapped,     \* mappings of the specification already handled
  requests,   \* images of load_images not planned yet
  chunks,     \* chunks_ of the plan
  checked,    \* chunks that passed the first loop of apply
  loaded,     \* chunks loaded, and the bytes loaded of the next one
  memory,     \* the bytes of every loadable device
  error       \* the exception on its way to main, or "none"

planVars    == <<requests, chunks, checked, loaded, memory>>
buildVars   == <<configured, created, host, mappings_, mapped>>
startupVars == <<spec, pc, args, options, narrow, error, connectVars, buildVars, planVars>>

Init ==
  /\ \E v \in Invocations : args = v.args /\ narrow = v.narrow
  /\ spec = Defaults /\ pc = "options" /\ error = "none"
  /\ options = [help |-> FALSE, loads |-> <<>>, elves |-> <<>>]
  /\ ConnectInit
  /\ configured = 0 /\ created = <<>> /\ host = HostInit
  /\ mappings_ = <<>> /\ mapped = 0
  /\ requests = <<>> /\ chunks = <<>> /\ checked = 0 /\ loaded = <<0, 0>> /\ memory = <<>>

(* An exception leaves for main; the destructors are on its way.           *)
Throw(what) ==
  /\ error' = what /\ pc' = "unwind"
  /\ UNCHANGED <<spec, args, options, narrow, connectVars, buildVars, planVars>>

-----------------------------------------------------------------------------
(* PlatformSpec: device, remove, map and set.                              *)
IdsOf(devices) == {devices[k].id : k \in DOMAIN devices}

Without(id) ==
  [devices |-> SelectSeq(spec.devices, LAMBDA d : d.id # id),
   mappings |-> SelectSeq(spec.mappings, LAMBDA m : m.device # id),
   connections |-> SelectSeq(spec.connections, LAMBDA c : id \notin {c.source, c.destination})]

Remapped(m) ==
  [spec EXCEPT !.mappings = Append(SelectSeq(@, LAMBDA n : n.device # m.device), m)]

WithProperty(id, key, value) ==
  LET first == Min({k \in DOMAIN spec.devices : spec.devices[k].id = id})
  IN  [spec EXCEPT !.devices[first].properties =
         [x \in DOMAIN @ \cup {key} |-> IF x = key THEN value ELSE @[x]]]

(* A step names a device that the specification does not have, or is no    *)
(* option at all.                                                          *)
Refused(a) ==
  \/ a.op = "unknown"
  \/ a.op \in {"remove", "set"} /\ a.id \notin Device
  \/ a.op = "map" /\ a.mapping.device \notin Device

(* What a step does to the specification, and to the options.              *)
Edited(a) ==
  CASE a.op = "device"  -> [spec EXCEPT !.devices = Append(@, a.device)]
    [] a.op = "mapping" -> [spec EXCEPT !.mappings = Append(@, a.mapping)]
    [] a.op = "connect" -> [spec EXCEPT !.connections = Append(@, a.connection)]
    [] a.op = "map"     -> Remapped(a.mapping)
    [] a.op = "remove"  -> Without(a.id)
    [] a.op = "set"     -> WithProperty(a.id, a.key, a.value)
    [] OTHER            -> spec

Chosen(a) ==
  CASE a.op = "help" -> [options EXCEPT !.help = TRUE]
    [] a.op = "load" -> [options EXCEPT !.loads = Append(@, a)]
    [] a.op = "elf"  -> [options EXCEPT !.elves = Append(@, a)]
    [] OTHER         -> options

Argument ==
  /\ pc = "options" /\ args # <<>> /\ ~Refused(Head(args))
  /\ args' = Tail(args)
  /\ spec' = Edited(Head(args))
  /\ options' = Chosen(Head(args))
  /\ UNCHANGED <<pc, narrow, error, connectVars, buildVars, planVars>>

BadArgument ==
  /\ pc = "options" /\ args # <<>> /\ Refused(Head(args))
  /\ Throw("option")

(* --help prints and returns; otherwise the platform is constructed.       *)
ArgumentsDone ==
  /\ pc = "options" /\ args = <<>>
  /\ pc' = IF options.help THEN "done" ELSE "configure"
  /\ UNCHANGED <<spec, args, options, narrow, error, connectVars, buildVars, planVars>>

-----------------------------------------------------------------------------
(* DeviceRegistry: the options of each type.  The text of an unsigned one  *)
(* is the number parse_unsigned gives, -1 when it throws; their defaults   *)
(* (65536, 16 and 1024) are all 1 here.  No built-in type has a Boolean    *)
(* option, the custom one does.                                            *)
TextOption(default)   == [kind |-> "string", default |-> default]
NumberOption(maximum) == [kind |-> "unsigned", default |-> 1, minimum |-> 1, maximum |-> maximum]
FlagOption            == [kind |-> "boolean", default |-> "false"]

MemoryOptions == [size |-> NumberOption(Top), image |-> TextOption("")]

Schema ==
  [rom |-> MemoryOptions, ram |-> MemoryOptions, exit |-> <<>>,
   uart |-> [input |-> TextOption("-"), output |-> TextOption("-"),
             character_cycles |-> NumberOption(Top \div 4),
             input_poll_cycles |-> NumberOption(Top)],
   custom |-> [size |-> NumberOption(Top), flag |-> FlagOption]]

OptionsOf(d) == DOMAIN Schema[d.type]

Property(d, key) ==
  IF key \in DOMAIN d.properties THEN d.properties[key] ELSE Schema[d.type][key].default

ValidOption(option, value) ==
  CASE option.kind = "unsigned" -> value \in option.minimum .. option.maximum
    [] option.kind = "boolean"  -> value \in {"true", "false"}
    [] option.kind = "string"   -> TRUE

(* validate_name, configure, and the check for a second device of that id. *)
ValidDevice(k) ==
  LET d == spec.devices[k]
  IN  /\ d.id \notin Malformed
      /\ d.type \in DOMAIN Schema
      /\ DOMAIN d.properties \subseteq OptionsOf(d)
      /\ \A key \in OptionsOf(d) : ValidOption(Schema[d.type][key], Property(d, key))
      /\ d.id \notin IdsOf(SubSeq(spec.devices, 1, k - 1))

Configure ==
  /\ pc = "configure" /\ configured < Len(spec.devices) /\ ValidDevice(configured + 1)
  /\ configured' = configured + 1
  /\ UNCHANGED <<spec, pc, args, options, narrow, error, connectVars, created, host,
                 mappings_, mapped, planVars>>

BadDevice ==
  /\ pc = "configure" /\ configured < Len(spec.devices) /\ ~ValidDevice(configured + 1)
  /\ Throw("config")

(* Factories run when every device is configured.  Mutant: when this one   *)
(* is.                                                                     *)
MayCreateEarly == configured > Len(created)
MayCreate == configured = Len(spec.devices)

(* What the factory of d opened, when it throws at `fails': in the fopen   *)
(* of a file, or behind both.  tcsetattr succeeds if `set'.                *)
HostAfter(d, fails, set) ==
  IF d.type # "uart" \/ fails = "input" THEN host
  ELSE LET open == open_input(host, Property(d, "input"), set)
       IN  IF fails = "output" THEN open ELSE open_output(open, Property(d, "output"))

Create ==
  /\ pc = "configure" /\ MayCreate /\ Len(created) < Len(spec.devices)
  /\ LET d == spec.devices[Len(created) + 1]
     IN  \E set \in BOOLEAN :
           /\ host' = HostAfter(d, "none", set)
           /\ created' = Append(created, [id |-> d.id, type |-> d.type,
                                          held |-> Len(host.files) + 1 .. Len(host'.files)])
           /\ memory' = IF "size" \in OptionsOf(d)
                        THEN [x \in DOMAIN memory \cup {d.id} |->
                                IF x = d.id THEN [o \in 0 .. Property(d, "size") - 1 |-> <<"fresh", 0>>]
                                ELSE memory[x]]
                        ELSE memory
  /\ UNCHANGED <<spec, pc, args, options, narrow, error, connectVars, configured,
                 mappings_, mapped, requests, chunks, checked, loaded>>

(* A file cannot be opened, memory is short, also for the device itself    *)
(* when its files are open already, or the factory gives null.             *)
CreateFails ==
  /\ pc = "configure" /\ MayCreate /\ Len(created) < Len(spec.devices)
  /\ LET d == spec.devices[Len(created) + 1]
     IN  \E fails \in {"input", "output", "device"}, set \in BOOLEAN : host' = HostAfter(d, fails, set)
  /\ error' = "create" /\ pc' = "unwind"
  /\ UNCHANGED <<spec, args, options, narrow, connectVars, configured, created,
                 mappings_, mapped, planVars>>

Created ==
  /\ pc = "configure" /\ configured = Len(spec.devices) /\ Len(created) = Len(spec.devices)
  /\ pc' = "map"
  /\ UNCHANGED <<spec, args, options, narrow, error, connectVars, buildVars, planVars>>

-----------------------------------------------------------------------------
(* The mapping exists in the address space of the bus.                     *)
Fits(m) ==
  /\ narrow => m.base < Limit /\ m.size <= Limit - m.base
  /\ m.device \in Device
  /\ Representable(m)

Map ==
  /\ pc = "map" /\ mapped < Len(spec.mappings)
  /\ LET m == spec.mappings[mapped + 1]
     IN  /\ Fits(m) /\ ~Overlaps(mappings_, m)
         /\ mappings_' = Inserted(mappings_, m)
  /\ mapped' = mapped + 1
  /\ UNCHANGED <<spec, pc, args, options, narrow, error, connectVars, configured, created,
                 host, planVars>>

BadMapping ==
  /\ pc = "map" /\ mapped < Len(spec.mappings)
  /\ LET m == spec.mappings[mapped + 1]
     IN  \/ ~Fits(m) /\ Throw("mapping")
         \/ Fits(m) /\ Overlaps(mappings_, m) /\ Throw("overlap")

(* The address space is frozen.  A device with an image needs exactly one  *)
(* mapping.                                                                *)
WithImage == SelectSeq(spec.devices, LAMBDA d : "image" \in OptionsOf(d) /\ Property(d, "image") # "")
MappingsOf(id) == SelectSeq(spec.mappings, LAMBDA m : m.device = id)

Freeze ==
  /\ pc = "map" /\ mapped = Len(spec.mappings)
  /\ \A k \in DOMAIN WithImage : Len(MappingsOf(WithImage[k].id)) = 1
  /\ requests' = [k \in DOMAIN WithImage |->
                    [op |-> "raw", file |-> Property(WithImage[k], "image"),
                     address |-> MappingsOf(WithImage[k].id)[1].base]]
                  \o options.loads \o options.elves
  /\ pc' = "connect"
  /\ UNCHANGED <<spec, args, options, narrow, error, connectVars, buildVars, chunks, checked,
                 loaded, memory>>

BadImageOption ==
  /\ pc = "map" /\ mapped = Len(spec.mappings)
  /\ \E k \in DOMAIN WithImage : Len(MappingsOf(WithImage[k].id)) # 1
  /\ Throw("image option")

(* connect; its caller then resets the devices, which keeps their images.  *)
ConnectStep ==
  /\ ConnectNext
  /\ UNCHANGED <<spec, args, options, narrow, error, buildVars, planVars>>

ConnectFails == (BadConnection /\ Throw("connection")) \/ (Cycle /\ Throw("cycle"))

-----------------------------------------------------------------------------
(* load_images.  The capacity of every loadable device.                    *)
Ram == [d \in DOMAIN memory |-> Cardinality(DOMAIN memory[d])]

(* --load: the only mapping with that name, or else a number; -1 when the  *)
(* text is none, or the name belongs to two mappings.                      *)
AddressOf(target) ==
  LET named == {k \in DOMAIN mappings_ : mappings_[k].device = target.name}
  IN  CASE named = {}             -> target.number
        [] Cardinality(named) = 1 -> mappings_[CHOOSE k \in named : TRUE].base
        [] OTHER                  -> -1

RequestAddress(r) == IF r.op = "load" THEN AddressOf(r.target) ELSE r.address

ValidRequest(r) ==
  IF r.op = "elf" THEN ValidElf(mappings_, Ram, r.file)
  ELSE RequestAddress(r) # -1 /\ ValidRaw(mappings_, Ram, r.file, RequestAddress(r))

Additions(r) ==
  IF r.op = "elf" THEN LoadSegments(r.file) ELSE RawSegments(r.file, RequestAddress(r))

Plan ==
  /\ pc = "plan" /\ requests # <<>> /\ ValidRequest(Head(requests))
  /\ chunks' = chunks \o Additions(Head(requests))
  /\ requests' = Tail(requests)
  /\ UNCHANGED <<spec, pc, args, options, narrow, error, connectVars, buildVars, checked,
                 loaded, memory>>

BadRequest ==
  /\ pc = "plan" /\ requests # <<>> /\ ~ValidRequest(Head(requests))
  /\ Throw("image")

Planned == pc = "plan" /\ requests = <<>>

Preflight ==
  /\ Planned /\ checked < Len(chunks) /\ ValidChunk(mappings_, Ram, chunks, checked + 1)
  /\ checked' = checked + 1
  /\ UNCHANGED <<spec, pc, args, options, narrow, error, connectVars, buildVars, requests,
                 chunks, loaded, memory>>

BadChunk ==
  /\ Planned /\ checked < Len(chunks) /\ ~ValidChunk(mappings_, Ram, chunks, checked + 1)
  /\ Throw("image")

(* Loading starts when every chunk is checked.  Mutant: when this one is.  *)
MayLoadEarly == checked > loaded[1]
MayLoad == checked = Len(chunks)

NextChunk == chunks[loaded[1] + 1]
NextSize  == PieceSize(NextChunk, loaded[2])

(* One call of AddressSpace::load.                                         *)
LoadPiece ==
  /\ Planned /\ MayLoad /\ loaded[1] < Len(chunks)
  /\ Loads(mappings_, Ram, NextChunk, loaded[2], NextSize)
  /\ memory' = Loaded(mappings_, memory, NextChunk, loaded[2], NextSize)
  /\ loaded' = IF loaded[2] + NextSize = NextChunk.memory_size
               THEN <<loaded[1] + 1, 0>> ELSE <<loaded[1], loaded[2] + NextSize>>
  /\ UNCHANGED <<spec, pc, args, options, narrow, error, connectVars, buildVars, requests,
                 chunks, checked>>

HasCustom == \E k \in DOMAIN created : created[k].type = "custom"

(* The device refuses a piece: it must not, but a custom one may.          *)
LoadRejected ==
  /\ Planned /\ MayLoad /\ loaded[1] < Len(chunks)
  /\ \/ ~Loads(mappings_, Ram, NextChunk, loaded[2], NextSize)
     \/ LET k == resolve(mappings_, NextChunk.load_address, NextChunk.memory_size)
        IN  k # 0 /\ \E n \in DOMAIN created : created[n].id = mappings_[k].device
                                            /\ created[n].type = "custom"
  /\ Throw("rejected")

-----------------------------------------------------------------------------
(* The clocks of the simulation (SimLoop) begin, and end one way or        *)
(* another; then, as after any exception, the members of Platform are      *)
(* destroyed in reverse: the devices, and at last host_.                   *)
Begin ==
  /\ Planned /\ checked = Len(chunks) /\ loaded[1] = Len(chunks)
  /\ pc' = "running"
  /\ UNCHANGED <<spec, args, options, narrow, error, connectVars, buildVars, planVars>>

Simulate == pc = "running" /\ \E what \in {"none", "simulation"} : Throw(what)

DestroyDevices ==
  /\ pc = "unwind"
  /\ created' = <<>> /\ pc' = "unwind host"
  /\ UNCHANGED <<spec, args, options, narrow, error, connectVars, configured, host,
                 mappings_, mapped, planVars>>

DestroyHost ==
  /\ pc = "unwind host"
  /\ host' = Restored(host) /\ pc' = "done"
  /\ UNCHANGED <<spec, args, options, narrow, error, connectVars, configured, created,
                 mappings_, mapped, planVars>>

Done == pc = "done" /\ UNCHANGED startupVars

Next ==
  \/ Argument \/ BadArgument \/ ArgumentsDone
  \/ Configure \/ BadDevice \/ Create \/ CreateFails \/ Created
  \/ Map \/ BadMapping \/ Freeze \/ BadImageOption
  \/ ConnectStep \/ ConnectFails
  \/ Plan \/ BadRequest \/ Preflight \/ BadChunk \/ LoadPiece \/ LoadRejected
  \/ Begin \/ Simulate \/ DestroyDevices \/ DestroyHost \/ Done

Spec == Init /\ [][Next]_startupVars

-----------------------------------------------------------------------------
Edges == {<<spec.connections[k].source, spec.connections[k].destination>> :
            k \in DOMAIN spec.connections}

(* A set of devices that all have a driver in the set.                     *)
Cyclic(devices) == devices # {} /\ \A d \in devices : \E e \in devices : <<e, d>> \in Edges

(* connect accepts exactly the platforms that one pass of settle can       *)
(* serve: the order holds every device once and after all its drivers, no  *)
(* input has two drivers, and only a real cycle is refused as one.         *)
SettleOrderIsExact ==
  /\ pc \in {"plan", "running"} =>
       /\ IsInjective(order) /\ Range(order) = Device
       /\ \A k, l \in DOMAIN order : <<order[k], order[l]>> \in Edges => k < l
       /\ \A k, l \in DOMAIN spec.connections :
            /\ spec.connections[k].destination = spec.connections[l].destination
            /\ spec.connections[k].port = spec.connections[l].port
            => k = l
  /\ error = "cycle" => \E devices \in SUBSET Device : Cyclic(devices)

(* Whatever the order in which mappings are added: the vector holds them   *)
(* without a common byte, resolve finds a range exactly if one mapping     *)
(* holds all of it, and a mapping is refused as overlapping only if it     *)
(* shares an address with an earlier one.                                  *)
AddressMapIsExact ==
  /\ Disjoint(mappings_)
  /\ pc = "connect" =>
       /\ Range(mappings_) = Range(spec.mappings)
       /\ \A address, length \in 0 .. Top :
            LET k == resolve(mappings_, address, length)
            IN  \A n \in DOMAIN mappings_ : n = k <=> Holds(mappings_[n], address, length)
  /\ error = "overlap" =>
       LET m == spec.mappings[mapped + 1]
       IN  \E k \in 1 .. mapped, a \in m.base .. End(m) - 1 : Holds(spec.mappings[k], a, 1)

(* An image that is refused, for itself or beside the others, changes no   *)
(* byte of any device; and once all are checked no device refuses a piece, *)
(* unless it breaks its own promise.                                       *)
LoadIsAllOrNothing ==
  /\ error \notin {"none", "simulation", "rejected"} =>
       \A d \in DOMAIN memory : \A o \in DOMAIN memory[d] : memory[d][o] = <<"fresh", 0>>
  /\ error = "rejected" /\ pc = "unwind" => HasCustom

(* The bytes that the request r puts at bus address a.                     *)
BytesOf(r, a) ==
  IF r.op = "elf"
  THEN {IF a - LoadAddress(p) < p.filesz THEN <<r.file, p.offset + a - LoadAddress(p)>>
        ELSE <<"zero", 0>> :
          p \in {q \in Range(File[r.file].ph) : q.load /\ a \in LoadAddress(q) .. LoadAddress(q) + q.memsz - 1}}
  ELSE {<<r.file, a - x>> : x \in {y \in {RequestAddress(r)} : a \in y .. y + File[r.file].size - 1}}

(* The requests of the user, as they stand in the specification.           *)
Requested ==
  UNION {{[op |-> "raw", file |-> Property(d, "image"), address |-> m.base] :
            m \in {n \in Range(spec.mappings) : n.device = d.id}} : d \in Range(WithImage)}
  \cup Range(options.loads) \cup Range(options.elves)

Sources(d, o) ==
  UNION {BytesOf(r, m.base + o) :
           r \in Requested, m \in {n \in Range(spec.mappings) : n.device = d /\ o < n.size}}

(* When the clocks begin, every byte of every memory is the one byte that  *)
(* an image, a --load, a segment or its BSS puts at one of its addresses,  *)
(* through whichever window, or else untouched.                            *)
LoadedBytesAreExact ==
  pc = "running" =>
    \A d \in DOMAIN memory : \A o \in DOMAIN memory[d] :
      IF Sources(d, o) = {} THEN memory[d][o] = <<"fresh", 0>>
      ELSE Sources(d, o) = {memory[d][o]}

(* --help and an invocation with a bad option or property, of any device,  *)
(* leave the host as it was: no file truncated, no terminal changed.       *)
NothingBeforeValidation ==
  error \in {"option", "config"} \/ options.help => host = HostInit

(* Two inputs reach the terminal through different descriptors.            *)
Shared(tty) ==
  \E k, l \in DOMAIN spec.devices :
    LET p == Property(spec.devices[k], "input")
        q == Property(spec.devices[l], "input")
    IN  /\ k # l /\ spec.devices[k].type = "uart" /\ spec.devices[l].type = "uart"
        /\ {p, q} # {"-"} /\ {p, q} \subseteq DOMAIN TtyOf
        /\ TtyOf[p] = tty /\ TtyOf[q] = tty

(* No device ever holds a closed file; and however the process ends, the   *)
(* files are closed and every terminal is in the mode it had, unless it    *)
(* was opened through two descriptors.                                     *)
HostIsRestored ==
  /\ \A k \in DOMAIN created : created[k].held \subseteq 1 .. Len(host.files)
  /\ pc = "done" => /\ host.files = <<>>
                    /\ \A t \in Tty : ~Shared(t) => host.mode[t] = "cooked"
=============================================================================
