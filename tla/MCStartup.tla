------------------------------- MODULE MCStartup -------------------------------
(* A ROM of 3 bytes, a RAM of 4, a UART and three images, in an address      *)
(* space of 32 bytes.  The command lines come in families: up to three       *)
(* connections of three devices, up to three edits of the address map, up to *)
(* two images of any kind with an alias of the RAM or a custom memory        *)
(* beside it, and up to two edits of devices and properties.                 *)
EXTENDS Startup

Dev(id, type, properties) == [id |-> id, type |-> type, properties |-> properties]
At(device, base, size)    == [device |-> device, base |-> base, size |-> size]

MCDefaults ==
  [devices |-> <<Dev("rom", "rom", [size |-> 3]), Dev("ram", "ram", [size |-> 4]),
                 Dev("uart", "uart", [input |-> "log"])>>,
   mappings |-> <<At("ram", 8, 4), At("rom", 0, 3), At("uart", 4, 2)>>,
   connections |-> <<>>]

Lists(set, n)  == UNION {[1 .. k -> set] : k \in 0 .. n}

Wires == {[op |-> "connect",
           connection |-> [source |-> s, destination |-> d, port |-> p,
                           fits |-> ~(d = "uart" /\ p = "b")]] :
            s \in {"rom", "ram", "uart"}, d \in {"rom", "ram", "uart"}, p \in {"a", "b"}}

Edits ==
  {[op |-> "mapping", mapping |-> At("ram", b, s)] : b \in {3, 5, 7, 12, 30}, s \in {0, 1, 2}}
  \cup {[op |-> "map", mapping |-> At("rom", b, 3)] : b \in {0, 5, 12, 15, 29}}
  \cup {[op |-> "map", mapping |-> At("nobody", 20, 1)], [op |-> "mapping", mapping |-> At("nobody", 20, 1)]}

Alias  == [op |-> "mapping", mapping |-> At("ram", 16, 6)]
Custom == <<[op |-> "device", device |-> Dev("flash", "custom", [size |-> 2])],
            [op |-> "mapping", mapping |-> At("flash", 24, 2)]>>

Raw(size) == [size |-> size, ident |-> FALSE, class |-> 0, ehsize |-> 0, phoff |-> 0,
              phentsize |-> 0, phnum |-> 0, ph |-> <<>>]
Ph(offset, vaddr, paddr, filesz, memsz, align) ==
  [load |-> TRUE, offset |-> offset, vaddr |-> vaddr, paddr |-> paddr, filesz |-> filesz,
   memsz |-> memsz, align |-> align]
Note == [load |-> FALSE, offset |-> 31, vaddr |-> 31, paddr |-> 0, filesz |-> 31, memsz |-> 0,
         align |-> 3]
Elf(class, ph) ==
  [size |-> 12, ident |-> TRUE, class |-> class, ehsize |-> 4, phoff |-> 4, phentsize |-> 2,
   phnum |-> Len(ph), ph |-> ph]

MCFile ==
  [none |-> Raw(0), one |-> Raw(1), three |-> Raw(3), five |-> Raw(5),
   data |-> Elf(32, <<Note, Ph(9, 1, 9, 1, 3, 4)>>),
   text |-> Elf(32, <<Ph(8, 1, 0, 2, 2, 1), Ph(10, 8, 0, 0, 1, 0)>>),
   both |-> Elf(64, <<Ph(9, 9, 0, 1, 2, 1), Ph(8, 8, 0, 1, 2, 1)>>),
   long |-> Elf(32, <<Ph(11, 8, 0, 2, 2, 0)>>),
   high |-> Elf(32, <<Ph(8, 30, 0, 1, 3, 0)>>),
   skew |-> Elf(32, <<Ph(8, 9, 0, 1, 1, 2)>>),
   odd  |-> Elf(32, <<Ph(9, 9, 0, 1, 1, 3)>>),
   many |-> [Elf(32, <<>>) EXCEPT !.phnum = 5],
   io   |-> Elf(32, <<Ph(8, 4, 0, 1, 1, 0)>>)]

LoadAt(file, name, number) == [op |-> "load", file |-> file, target |-> [name |-> name, number |-> number]]
Images ==
  {LoadAt(f, "at", n) : f \in {"none", "one", "three"}, n \in {-1, 1, 8, 9, 17, 31}}
  \cup {LoadAt(f, n, -1) : f \in {"five", "one"}, n \in {"ram", "rom", "flash", "uart"}}
  \cup {[op |-> "elf", file |-> f] : f \in DOMAIN MCFile \ {"none", "one", "three"}}
  \cup {[op |-> "set", id |-> d, key |-> "image", value |-> f] : d \in {"rom", "ram"}, f \in {"one", "missing"}}

Set(id, key, value) == [op |-> "set", id |-> id, key |-> key, value |-> value]
Settings ==
  {Set("uart", "input", p) : p \in {"-", "tty", "pts", "log"}}
  \cup {[op |-> "device", device |-> Dev(id, "uart", [input |-> p, output |-> "out"])] :
          id \in {"uart", "uart2"}, p \in {"-", "tty", "log"}}
  \cup {Set("uart", "output", "out"), Set("ram", "size", 0), Set("ram", "size", 2), Set("uart", "image", "one"),
        Set("ram", "size", -1), Set("uart", "character_cycles", 7), Set("uart", "character_cycles", 8),
        Set("uart", "input_poll_cycles", 0), [op |-> "device", device |-> Dev("a.b", "exit", <<>>)],
        Set("nobody", "input", "-"), [op |-> "remove", id |-> "uart"], [op |-> "remove", id |-> "ram"],
        [op |-> "device", device |-> Dev("x", "strange", <<>>)],
        [op |-> "device", device |-> Dev("y", "custom", [flag |-> "true"])],
        [op |-> "device", device |-> Dev("y", "custom", [flag |-> "maybe"])], [op |-> "help"], [op |-> "unknown"]}

WithImages == {a \o b : a \in {<<>>, <<Alias>>, Custom}, b \in Lists(Images, 2)}

MCInvocations ==
  [args : Lists(Wires, 3) \cup Lists(Edits, 3) \cup Lists(Settings, 2) \cup WithImages, narrow : {FALSE}]
  \cup [args : Lists(Edits, 2) \cup Lists(Images, 1), narrow : {TRUE}]

MCMalformed == {"", "a.b"}
MCTty   == {"console", "other"}
MCTtyOf == [path \in {"-", "tty", "pts"} |-> IF path = "pts" THEN "other" ELSE "console"]
MCHeaderSize == [class \in {32, 64} |-> IF class = 32 THEN 3 ELSE 4]
MCEntrySize  == [class \in {32, 64} |-> IF class = 32 THEN 1 ELSE 2]
=============================================================================
