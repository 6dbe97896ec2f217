# LinuxICE: models, checks and proofs

LinuxICE is a loadable kernel module for x86-64 Linux that stops the running
system on Ctrl-Q, on an INT3 or on a single-step trap, and shows a debugger's
screen until the user types the command `X` (go on) or `T` (go on for one
instruction). It is about 1500 lines of C and assembly and has no locks: it works
by patching the IDT, the entry of Linux's `kbd_event` and the saved flags of
interrupt frames, and most of what can go wrong is in the order of a few stores
and in the interrupts that come between them. This directory holds TLA+ models of
that logic and of the vendored disassembler that the code pane and an ioctl
depend on, the TLC configurations that check them and the proofs that TLAPS
checks. `PROJECT.json` maps every definition to the source lines it stands for.

Paths below are those of the repository (`src/` is its source directory,
`include/` its headers).

## 1. Inventory

### Components

| Component | State | Operations | Modelled by |
|---|---|---|---|
| Interrupt handlers (`src/int_handler.c`) | `ice.regs`, `ice.running_state`, `apic_tmict`, the interrupt frames | `int_handler`, `ice_do_timer`, `ice_do_int3`, `ice_do_debug` | `IceSession` |
| Entry stub (`src/asm.S`) | the frame, segment registers, GS base | `do_fake_stub`, `pushaq`, `popaq` | `StubFrame`; its masking and TF in `IceSession` |
| Debugger loop (`src/mainloop.c`) | the session in progress | `run_debugger` | `IceSession` |
| IDT hook (`src/hook_idt.c`, `SET_INT_HANDLER_OFFSET`) | `ice_idt`, `ori_idt`, `ori_idtr`, `is_inited` | `hook_idt_init`, `hook_idt`, `unhook_idt`, `restore_idt` | `IceSession` (vector 0xef, store by store), `IceModule` (table, IDTR) |
| Keyboard handler (`src/input.c`) | `func_key`, `keyq` | `kbd_handler`, `put_key`, `get_key`, `get_key_async` | `IceSession` (state), `Keyboard` (modifiers, keymaps), `KeyQueue` |
| `kbd_event` patch (`src/hook_kbd.c`) | five patched bytes, `ori_entry` | `hook_kbd`, `unhook_kbd`, `fake_kbd_event` | `IceModule`; routing also in `IceSession` |
| Load and unload (`src/hello.c`) | all hooks, the views | `hello_init`, `hello_exit` | `IceModule` |
| Commands (`src/command.c`) | `command[]`, `help_line` | `exec_command`, `get_helpline`, `cmdX`, `cmdT` | `CommandLine`, `IceSession` |
| Command line editor (`src/ui/text_edit.c`, `get_command` in `src/ui/ui.c`) | `text`, `next`, `cursor` | add, delete, clear | `CommandLine` |
| List views (`src/ui/list_view.c`, output and panes in `src/ui/ui.c`) | circular lists, `top_line` | add, scroll, refresh, clear, delete | `ListView` |
| Disassembler glue (`src/disassembler.c`, `print_code`, the ioctl of `src/chrdev.c`) | `temp`, cursor and size | `ice_new_disasm`, `ice_disasm_format`, `print_code` | `DisasmPane` |
| `3rd/distorm3`: decoder (`prefix.c`, `instructions.c`, `operands.c`, `decoder.c`, `insts.c`) | prefix state, the tables, the result array | `prefixes_decode`, `inst_lookup`, `operands_extract`, `decode_inst`, `decode_internal` | `InstTree`, `InstInfo`, `Prefixes`, `InstLookup`, `Operands`, `DecodeInst`, `LinearSweep`, `Distorm` |
| `3rd/distorm3`: interface and callers (`distorm.c`, the linux example, the python bindings) | `nextOffset`, the caller's listing | `distorm_decompose`, resuming a call | `Distorm` |
| Screen layout, register pane (`src/ui/ui.c`) | `prev_regs` (colours only) | `show_mainui`, `update_*` | not modelled |
| Rest of the character device, symbols (`src/kallsyms.c`), `3rd/kernelfb` | none shared | I/O, drawing | not modelled |

### How they interact

* Linux's input core calls `kbd_event`, whose first bytes jump to
  `fake_kbd_event`. That routes the event by `running_state`: to the debugger
  alone, or first to `kbd_handler` and then, with the patch taken out for the
  duration of the call, to Linux.
* `kbd_handler` writes `running_state := ENTERING` and hooks vector 0xef (the
  local APIC timer). The timer interrupt then enters `int_0xef`, `int_handler`,
  `ice_do_timer`, which writes `ice.regs` and `RUNNING` and calls
  `run_debugger`. INT3 and #DB come the same way at once.
* `run_debugger` executes with interrupts enabled. Ticks of the hooked timer nest
  in it (they re-arm the timer and return, and thereby end the `hlt` of
  `get_key`); keyboard interrupts nest in it and feed `keyq`. The command `T`
  writes TF through `ice.regs` into the frame that will be resumed. On the way
  out it unhooks the vector, writes `NOT_RUNNING`, and the stub of `asm.S`
  executes `cli` and `iretq`.
* `hello_init` patches `kbd_event` and then hooks vectors 1 and 3; `hello_exit`
  restores IDTR and then the bytes of `kbd_event`. Each event for Linux takes the
  patch out and puts it back, and `hook_idt` copies the table again if
  `is_inited` is not set, so keyboard interrupts meet load and unload half-way.
* `print_code` has `ice_disasm_format` print what `distorm_decompose` returns into
  the static `temp` and cuts it into the lines of a list view; the ioctl has it
  printed into a buffer for a process.
* All this shares `ice`, `ice_idt[0xef]`, `keyq` and `cmd_edit` without a lock.

### What is hard about it, and what makes it correct

* Nested interrupts: one debugger at a time, in the frame `ice.regs` points to,
  although ticks and keys nest in it.
* Entry and exit are several stores: the vector must lead to the debugger only
  while a break-in is wanted or a session runs, and no key may vanish into a
  debugger that is not there.
* The single-step flag must end up in the frame that is resumed.
* The timer must go on ticking, and a requested break-in must happen.
* A lock-free ring between an interrupt handler (or another CPU) and the reader.
* The hand-made data structures of the user interface: a NUL-terminated buffer
  into which NULs can be typed, a circular list scrolled by a raw pointer.
* Two layouts written down twice: the pushes and `struct ice_regs`.
* The decoder's many places that advance a pointer and a length that must agree,
  three masks of prefixes, operands that share fields, an array that may be too
  small and a caller that goes on behind what it got.

`PROJECT.json` lists under `hazards` each of these at its line with the
properties that cover it, and those that nothing covers yet.

## 2. Modules

### IceSession: the break-in protocol

The hooked CPU (the one whose IDTR points to `ice_idt`) is a stack of interrupt
frames. The top frame executes; the empty stack is Linux. A frame has the place
its handler has reached (`pc`), the bits of its saved flags that matter (`tf`,
`if`), and the command that ended a session in it. `Executes(kinds, pc)` says that
such a frame is on top and that no single-step trap is due.

| Code | Actions |
|---|---|
| gate, push of the context | `Enter` in `TimerToIce`, `Int3`, `DebugTrap`, `KbdInterrupt` |
| re-arm, EOI, test of `running_state` | `IceDispatch` |
| `cli; ice.regs = regs; running_state = RUNNING; [sti]` | `IceClaim` (interrupts are masked: one step) |
| `hook_idt(0xef, int_0xef)` of INT3 and #DB | `IceHookTimer` (masked: one step) |
| `run_debugger` up to its loop: clears TF | `DebuggerStart` |
| one turn of `get_command` | `GetKey` |
| `exec_command`, `cmdX`, `cmdT`, `clear_command` | `ExecCommand` |
| `unhook_idt(0xef)`; `running_state = NOT_RUNNING` | `DebuggerUnhook`; `DebuggerClear` |
| `cli`; `popaq`, `iretq` | `StubCli`; `StubReturn` |
| test in `fake_kbd_event`; body of `kbd_handler` | `FakeKbdEvent`; `KbdHandler` |
| `running_state = ENTERING`; `hook_idt` | `KbdRequest`; `KbdHookFirst`, `KbdHookLast` |

The keyboard handler is stepped access by access because another CPU may execute
it (`KbdSites`); `SET_INT_HANDLER_OFFSET` is two steps, between which the
descriptor has half of each offset. `hook_idt` and `hook_kbd` end with `sti`
wherever they are called from, so `KbdSetsIF(TRUE)` enables interrupts inside the
keyboard interrupt: that is how a session can come to run on top of it.

`IceDebugger` is the abstract promise: running, breaking, paused, and whether a
trap is due. `IceSession` implements it under `mode` (from `running_state`) and
`step` (TF set in the CPU or in a saved frame).

### KeyQueue: the ring

`put_key` and `get_key` are stepped one access of the volatile ring at a time,
with the `hlt` a step of its own. A writer on the reader's CPU runs to its end
before the reader goes on; one on another CPU interleaves freely. `KeyFifo` is the
bounded queue that the ring implements.

### CommandLine: editor, help line, commands

Characters are strings of length one; `NUL` is the character that the Alt keymap
yields for most keys, which `get_command` appends like any other. `text` is the
array, `CString(text)` what C's string functions see. `CommandPrompt` is the
promise: a bounded line, of which the first word is executed.

### ListView: output view and panes

`view[v].items` is the list in order, `view[v].top` is `top_line`. `Behind(v)` is
the circle that `list_for_each_entry_safe(v, n, top_line)` walks, the list head
included. Items come from a heap that gives out again what was freed, so that a
pointer kept too long would be seen. `ui_listview_additem`, `scrolldown` and
`refresh` are operators and `output_addline`, `show_mainui` and `ui_clean` the
actions, whole, as nothing that runs during them touches the views.

The kmallocs of an item and of its text can fail each: without a text the line is
lost, without an item its text is written through NULL (`oops`). `made` is what
`ui_init` obtained: without a frame buffer there are no views, and each view may be
NULL by itself, which `ui_listview_additem` and `clear` test and `scrolldown` and
`refresh` do not.

### IceModule: the patches, load and unload

`code` is the opcode byte and the offset of `kbd_event`'s first instruction,
written one after the other (`Patch1`, `Patch2`; `Unhook1`, `Unhook2`), `ori_entry`
what `hook_kbd` saved. A CPU has a stack of keyboard interrupts and sessions above
the process that loads or unloads the module; `Runs(p, at)` says that `p` is on
top and where it is. `CallKbdEvent` executes whatever the bytes are: Linux's code,
the jump, or half of each ("wild"). `home` is the CPU of the module's process,
chosen once: the keyboards' CPU or another. A session is a start and an end.

### Keyboard: modifiers and keymaps

`func_key` against `down`, the keys really held, and `linuxDown`, what Linux's
keyboard driver has been told. The three keymaps are one flat memory
(`KeymapByte`), as the code indexes it, with codes too large for one of them; the
source initialises 112 of the 128 entries of each and leaves NUL in the others.
Keys may be held when the module is loaded, whose presses only Linux has seen.

### StubFrame: the entry stub

One action per instruction of `asm.S`, over lists of the registers that `pushaq`
and `popaq` name; `IntHandler` clobbers what the ABI lets C code clobber. The GS base
is not a function of the code segment: what `T` steps may be kernel code behind the
`swapgs` of its way to user code (`GsBases`), which the stub's test cannot see.

### DisasmPane: text of a disassembly

Buffers are functions from addresses, some of which lie behind the buffer and
belong to somebody else. A line is its length; a character is the line and the
round it was printed in, so that text left over from an earlier session shows;
`shown` is what `print_code` gives to `ui_listview_additem`. No `kmalloc` on the way is
checked: without memory for the result there is no line, and `temp` stays as it was;
without memory for its copy, or for the ioctl's buffer (`FormatNull`), a NULL is
written to, which kills the ioctl's process (`killed`) or ends the debugger (`oops`).

### distorm3

`InstTree` and `InstInfo` are the generated tables of `insts.c`: the types of the
trie's nodes, and the rows with their flags and operands. The indices that the code
packs into the nodes are not written down: rows and tables are numbered in the order
of the nodes, and `InstructionsTree` joins each node with what its index leads to.
`Prefixes` is `prefix.c`; `InstLookup`
walks the tree as `instructions.c` does (mandatory prefixes, VEX, 3DNow!, rows
chosen by ModR/M); `Operands` is `operands.c` by operand type; `DecodeInst` is
`decode_inst` and the parts of `decode_internal` around it. All are pure operators
on a work record with the fields of `_CodeInfo`, `_PrefixState` and `_DInst`:
`left` is `codeLen`, and `Eat` and `Read` move the pointer and the length as the
code does, together or apart. `Distorm` is a state machine of one call and its
caller, one step per turn of the loop in `decode_internal`; `LinearSweep` is what
it promises: each entry begins where the one before it ends, and with
`DF_RETURN_FC_ONLY` only what controls the flow is listed.

The tables are too large to be read row by row; the decoder as modelled was
compared with the compiled library on several thousand random codes in the three
modes, entry by entry, without a difference.

## 3. Runs

| Run | Configuration | What it checks |
|---|---|---|
| `session_up` | keyboard on the hooked CPU, 5 frames, all events, fairness | `TypeOK`, `SessionExclusive`, `HookedOnlyWhileEngaged`, `ResumeHonoured`, `OnlyHotkeyIsPreempted`, `BoundedNesting`, `NextTimerPauses`, `BreakHonoured`, refinement of `IceDebugger` |
| `session_smp` | keyboard on another CPU, 3 frames | `RunningSession` |
| `session_smp_next` | keyboard on another CPU | violates `NextTimerPauses` (finding) |
| `key_queue` | ring of 4 slots, 2 keys, both sites | `TypeOK`, `NoLap`, `DropOnlyWhenFull`, `KeyWakesReader`, refinement of `KeyFifo` |
| `list_views` | 6 addresses, two lines fit, allocations of items and texts that succeed and that may fail, any views and the frame buffer missing | `TopLinked`, `HeapOwned`, `TailShown` |
| `command_line` | buffer of 4, all characters, two widths | `Terminated`, `HelpTellsTruth`, refinement of `CommandPrompt` |
| `command_help` | the same with the key H | violates `HForHelp` (finding) |
| `module_life` | two keyboards on one CPU, the module on it or on another, 3 events, fairness | `NeverTorn`, `DeliveredOnce`, `CleanUnload`, `HookedAgain` |
| `keyboard` | 8 keys, 3 held at once, from any held at load | `ModifiersAgree`, `StuckOnlyByBreak`, `KeymapOverrun` |
| `stub_frame` | three vectors, user and kernel mode, each GS base that can be in use | `HandlerSees`, `Transparent` |
| `code_pane` | `temp` of 6 characters, buffers of 0 to 7, up to 3 lines of 2 or 3 characters, any kmalloc failing, three rounds | `InBounds`, `ShownIsListing`, `NeededIsHonest` |
| `distorm` | 166 200 codes and calls | `SelfContained`, `WellFormed`, `PrefixesHonest`, `EnoughRoom`, `AllListed`, refinement of `LinearSweep` whole (`Sweeps`) and filtered (`FilterExact`) |

Where a module's `TypeOK` is not listed it is a conjunct of the module's first
invariant.

### Bounds, and why they are enough

* `MaxDepth`: frames on the hooked CPU. A keyboard interrupt is let in only while
  it leaves room for a session and a tick above it, so the deepest pattern the
  code has (keyboard handler interrupted by a session interrupted by a tick)
  always fits, and with 5 frames also fits on two sessions that were caught while
  returning. Without that reservation a bound would cut behaviours off in the
  middle and liveness would fail at the bound. With the keyboard on another CPU
  three frames hold a session, a second one that SMP allows, and a tick.
* `MaxKeys` and `MaxText` are 1 in the session runs: one queued key and one typed
  character reach full and empty, `X` and `T`, and a command that is too long.
  What longer ones add is checked in `KeyQueue` and `CommandLine`.
* The ring of 4 slots wraps, fills (3 keys) and empties in every alignment of
  head and tail.
* `CommandLine` has a buffer of 4 characters and a font 2 pixels wide; width 5
  makes the rectangle full first (2 characters), width 9 the buffer (3).
* `ListView` has views 5 pixels high with a font of 2, so two lines fit and a pixel
  is left over; 6 addresses hold up to six lines of output (it scrolls four
  times) or share them with a pane of up to three, one more than fit. A run stops
  when the heap is used up or the module is unloaded: `CHECK_DEADLOCK FALSE` there.
  Whether an allocation may fail is chosen once (`scarce`).
* `IceModule`: three events make one interrupt nest in another's unpatched window
  and leave one for unloading; `MaxCalls` of 2 activations is one more than a
  correct patch needs, so a patch that calls itself is seen as "wild". It stops
  when the module is gone and the events are used up.
* `Keyboard`: both Ctrl keys, Shift, Alt, Q, ENTER, 125 (Meta), for which no keymap has
  an entry, and 464, a code behind all keymaps whose low byte is in Shift's; three keys held give Ctrl+Ctrl+Q and
  Ctrl+Shift+Q in every order of press and release.
* `DisasmPane`: every buffer size ends inside a line, at its newline, just behind
  it or behind the whole listing; a round follows longer and shorter ones, and one
  without memory reads what two earlier rounds left in `temp`.
* `Distorm`: each of the 256 bytes as an opcode behind 16 leads that reach every
  table (two and three byte maps, mandatory prefixes, REX, 3DNow!, WAIT), with
  eight tails (ModR/M with and without SIB, displacements of each size, mod 3, and
  too few bytes), in three modes; the same behind VEX prefixes with each field
  set and not, in the 32- and the 64-bit mode; all pairs of ten prefixes before thirty opcodes; all codes of up to
  four of five bytes (a prefix, REX, the escape, NOP, RET), and runs of 13 to 16
  prefixes, against arrays of 0, 1, 3 and 15 entries. The properties of
  instructions look at what a call returns, as until then it only adds entries. A run
  stops when the caller has what it wants.

### Fairness

Handlers execute when they are on top of the stack, the timer counts down, an
unmasked pending timer interrupt and a due trap are taken, and Linux does not mask
interrupts for ever. Strong fairness is needed because each is disabled for a
while by whatever nests on top; the code does not choose between them, the
hardware does, and it executes instructions between two interrupts. The timer's
vector 0xef is above all device vectors, so keyboard interrupts do not shut it
out. No fairness is assumed of the user or of Linux's INT3s: a session that gets
no `X` lasts for ever. In `KeyQueue` the tick is fair because `ice_do_timer`
re-arms the timer on every tick (checked by `BreakHonoured` in `IceSession`), and
nobody need ever press a key. `IceModule` assumes that a CPU executes what is on
top of its stack; nobody need unload the module, and a session may last for ever.
`Distorm` is one thread that runs on; one action at a time is enabled, so its fairness is
that of a step while one is `Running`, written out with `InLoop` for the condition that
enables `Turn`.

### What the checks show

With the keyboard served by the hooked CPU the protocol is right: one session at
a time, the vector hooked only while engaged, TF in the right frame, a bounded
stack, every requested break-in honoured. `OnlyHotkeyIsPreempted` says where it is
weakest: the `sti` at the end of `hook_idt` lets the session start on top of the
keyboard interrupt that asked for it, and then that keyboard is silent for the
whole session. The property shows it cannot happen to any other key.

With the keyboard served by another CPU the test and the store of `running_state`
in `kbd_handler` are not atomic against the hooked CPU: `SessionExclusive`,
`HookedOnlyWhileEngaged` and `NextTimerPauses` do not hold there. What is left is
`RunningSession`: RUNNING always stands for a session that will read keys.

`IceModule` shows that saving `kbd_event`'s bytes anew for every event is right
as long as one CPU serves the keyboards, nested events included, and that each
event goes to the debugger or to Linux once. It also shows what is not right: with
the module loaded or unloaded on another CPU, half of a patch can be executed
(`NeverTorn` and `CleanUnload` are conditional on `OneCpu`); and Ctrl-Q between
`restore_idt` and `unhook_kbd`, or inside `hook_idt_init`, leaves IDTR in memory
that is freed or a session without views (`late` records exactly these windows).

`Keyboard` confines what the code does not prevent: a key stays pressed for Linux
only if it was down when a break-in was requested; a modifier is overlooked
only when both its keys were held at once, or one when the module was loaded, and
until they are up. A NUL, which cuts the command line short for C, is typed with Alt
but also with any key that the keymaps have no entry for, such as Meta.

`StubFrame` shows that each interrupted code gets its registers and its GS base back,
and names what `int_handler` cannot rely on: stepped by `T` through the kernel's return
to user code, behind `swapgs`, the debugger runs with the user's GS base.

Memory that is not found is where the code is weakest. No list and no buffer is
damaged (`HeapOwned`, `TopLinked`, `InBounds`), but a failing `kmalloc` of a list
item, of a view or of the copy of a disassembly ends in a NULL dereference, as does
a first output line without a frame buffer; and without memory for the
disassembly the code pane gets the rest of an old line as if it were this
session's (`ShownIsListing` says what it can be).

For distorm3, every instruction is determined by its own bytes, names registers
that exist in its mode and a mnemonic of its own row; arrays of as many entries
as bytes, which `ice_new_disasm` allocates, are never too small; callers that
resume get the linear sweep. A prefix reported as unused can be left out, with the
exceptions that `Ordinary` names.

### Findings

1. `include/linuxice.h:63` says of `ENTERING` "System will be paused in the next
   timer interrupt." `kbd_handler` stores `ENTERING` before it hooks the vector,
   so a timer interrupt of the hooked CPU may come in between and go to Linux
   when the handler executes on another CPU (`session_smp_next`). On one CPU
   the sentence holds, and is proved (`NextTimerInterruptPauses`).
2. `command.c:22` offers "Enter a command (H for help)"; there is no command H
   (`command_help`).

### Observed while modelling

No run states these; they are where the models had to follow the code against
what it or its documentation says.

* `distorm.h:243` says that prefixes in `unusedPrefixesMask` are not used. Of two
  prefixes of one type the earlier is in the mask, but its bit stays in
  `decodedPrefixes`, which operands are extracted by: `2E 3E 01 04 24` in 32 bits
  has another segment than `3E 01 04 24`.
* `decoder.c:505` says that REX must precede the first byte of the instruction. A
  misplaced one is dropped from `decodedPrefixes` but not from `vrex`:
  `41 F3 FF C1` is INC of R9D, without the `41` INC of ECX.
* `instructions.c:242` says that REX before VEX is #UD; the dropped REX is not seen
  by that test, and `48 C4 E2 79 00 C1` is decoded.
* `operands.c:940` says that IN and OUT do not support REX.W; `48 ED` is IN of RAX.
* A 66 before CLFLUSH (`66 0F AE 3D ...`), and 16-bit mode, takes the row's first
  mnemonic, SFENCE, with CLFLUSH's operand (`decoder.c:275`); `66 48 0F 3A 17`
  (EXTRACTPS) gets a 64-bit operand from a REX that is reported as unused.
* The generator of the python bindings resumes behind as many bytes as the entries
  it got have; with `DF_RETURN_FC_ONLY` the others are missing from that sum, and of
  `0F C3` the RET is listed twice (`python/distorm3/__init__.py:902`).
* `ui.c:195` prints the hex column of the data pane from `base+1` on, not from
  `tmp+1`; `update_flagsbit` (`ui.c:272`) colours by `prev_regs` only.

## 4. Proofs

TLAPS checks every leaf; nothing is assumed but the `ASSUME`s of the modules. The
theorems hold for every value of the constants, so of every depth of the stack,
size of a ring, a buffer, a heap or a font, and every set of keyboards or key
codes; where one needs more than the `ASSUME`s, it says so itself:

* `KbdSites = {"hooked"}`: the keyboard is served by the hooked CPU. Six theorems
  on the protocol and its refinement are false without it.
* `Shared`: one CPU serves all keyboards. `NeverTornAlways` is false without it, as
  two CPUs patch `kbd_event` without a lock.
* `NeverTorn` and `CleanUnload` contain `OneCpu`: what they say of half a patch and of
  unloading is said of a module loaded and unloaded on the keyboards' CPU, and
  `CleanUnload` says nothing else. insmod and rmmod are on one CPU (`home`) in the
  model, so `rmmod` on another CPU than `insmod` is not covered.

| Module | Theorems |
|---|---|
| `IceSessionProofs` | `TypeCorrect`, `RunningHasSession`; for the hooked CPU `OneSession`, `NoUnwantedSession`, `TraceHonoured`, `PreemptedByHotkeyOnly`, `NextTimerInterruptPauses`, `NestingBounded`, `ProtocolImplementsDebugger` |
| `InputProofs` | `TypeCorrect`, `NeverLaps`, `DropsOnlyWhenFull`, `RingImplementsFifo` of `KeyQueue`; `ModifiersAgreeAlways`, `StuckByBreakOnly`, `OverrunHarmless` of `Keyboard` |
| `CommandLineProofs` | `AlwaysTerminated`, `HelpIsTrue`, `BufferImplementsPrompt` |
| `ListViewProofs` | `AlwaysTopLinked`, `AlwaysHeapOwned`, `AlwaysTailShown` |
| `StubFrameProofs` | `StructReceived`, `NothingLost` |
| `IceModuleProofs` | `DeliveredOnceAlways`, `NeverTornAlways`, `CleanUnloadAlways` |
| `DisasmPaneProofs` | `StaysInBuffer`, `ToldTheTruth`, `PaneShowsListing` |
| `DistormProofs` | `RoomEnough`, `ListsTheSweep`, `FilterIsExact`, `OnlyItsBytes` |

### The inductive invariants

* `IceSession`. `TypeCorrect` and `RunningHasSession` hold wherever the keyboard is
  served. Lemmas on `Push`, `Pop` and `Edit` say what the three ways to change the
  stack do; `RunningSession` is inductive with the type (`RunFrame` spells it out).
  For the hooked CPU none of the properties is inductive: that a
  tick never opens a second session depends on the vector, the vector on where
  the keyboard handler is, that on which frame can be on top of it. `SessionInv`
  conjoins
  - `FramesOK`: only the places where interrupts are enabled have frames above,
    and the interrupt flag agrees with the place of the top frame;
  - `KbdOK`: there is at most one keyboard frame, and `kbd.pc` says whether;
  - `GateOK`: what the descriptor holds, from `running_state` and the places of the
    session and of the keyboard handler;
  - `ClaimOK`: where a frame has passed the test of `running_state`, it is still
    not RUNNING;
  - `CmdOK`, `PreemptOK`, `ExclOK` and the properties themselves.

  One lemma per action shows that it keeps `SessionInv`; each property follows. In
  the refinement `KbdRequest` is Request, `IceClaim` Break, `DebuggerClear` Resume,
  and everything else leaves `mode` and `step` alone.
* `KeyQueue`. `NoLap` is inductive with the type; the refinement needs arithmetic of
  indices modulo `KEYQ_MAX`, stated as lemmas on `Mask`, and that `CHARS` grows by
  one with `head` and shrinks with `tail`.
* `Keyboard`. The release of one of two keys clears their bit, and a press before the
  module was loaded never sets it; `blurred` remembers both, and `PairsKnown` that it
  has each pair that is held. `StuckInv`: while the debugger is engaged, what Linux
  believes is what it believed at the break-in.
* `CommandLine`. `Terminated` is inductive. From it follow where C's string ends and
  where its first word does (`StringEnds`, `WordEnds`), that `get_helpline` and
  `exec_command`, which parse the line independently, pick the same command
  (`HelpAgrees`), and for the refinement that the test of the rectangle in pixels
  is a count of characters (`FitsByCount`).
* `ListView`. `ViewInv`: each list has its nodes once, `top_line` is a node of its own
  circle (`Sound`), memory in use is that of the items (`Owned`), and while no
  allocation can fail the output view holds the log with `top_line` one node
  before the last lines that fit (`Keeps`). `RefreshIs` and `DrawsTail` say what
  `ui_listview_refresh` draws of such a view.
* `StubFrame`. `Before` says for each instruction how many words are pushed, that they
  are the end of `struct ice_regs` (`Frame`), which registers still hold the
  interrupted code's values, and whose GS base is in use: the interrupted code's
  outside of the two tests (`Interrupted`), between them what the code segment makes of
  it (`Handling`).
* `IceModule`. `BaseInv` (for all CPUs) counts who has handled an event; it is enough
  for `DeliveredOnce`. With one CPU for the keyboards, `SharedInv` adds `Exclusive`
  (whoever is between the two stores of a patch, or in a handler before its first
  `sti`, is on top with interrupts off), `Present` and `CodeInv` (at most one
  keyboard has the patch out, and what `kbd_event`'s bytes are then). With the module on that
  CPU too, `ModuleInv` adds `WholeInv` (nobody executes half a patch) and `TableInv`
  (how far `hook_idt_init` is, whoever executes it, unless Ctrl-Q came in a window).
* `DisasmPane`. `PlaceInv`: `temp` has a NUL wherever `print_code` reads on. `FormatInv`:
  the cursor counts the characters of the lines so far and the buffer holds them
  as far as they fit, closed with a NUL. `PrintInv`: what is not printed yet stands
  from `temp1` on, and the items joined by newlines are the listing up to there.
  `LeftInv`: what stands in `temp` up to its first NUL (`Left`) are characters of first
  lines of earlier rounds, once this round's printing is over; that is what a round
  without memory shows.
  `FlattenSeq` is defined by recursion; what it makes of one more line is proved
  from the least place where two such sequences would differ (`Joins`,
  `FlattenAppend`, `FlattenPrefix`).

* `Distorm`. First the decoder, for any bytes, without the rows of its tables: lemmas
  per operator of `InstLookup`, `Operands` and `DecodeInst` carry `Within` (what has
  been read of a work record lies between `pos` and its limit, and `left` is what
  is missing to that limit) and `Ended` through lookup, operands and suffix. They end
  in `InstructionLemma`: `InstructionAt` takes at least one byte, at most 15, and
  none behind the code, or drops the instruction (`ok` is false). `TurnLemma`: a turn of
  the loop either finds no room or lists exactly `EntriesAt(call, pos)`, filtered. `IInv`
  then conjoins
  - `CallOK`, `Placed`, `Entered`, `Lawful`: what is asked for, where the call has got
    to, that an entry has 1 to 15 bytes and ends where the next one begins;
  - `Listing`: what the caller has is such a listing too, so its end is where it resumes;
  - `Tiled`: the bytes of the entries of a call add up to `pos - begin`. The generator of
    the python bindings resumes behind that sum, the example behind the last entry;
    `Tiled` is why both are at the same byte (`Resume` is one step of the sweep's `at`);
  - `Thrifty`: no more entries than bytes, which makes `EnoughRoom` inductive;
  - `Fits` and `GetsOn`, the two halves of `EnoughRoom`.

  `Sweeps` and `FilterExact` are refinements: a turn is one step of `LinearSweep`, a
  return or a resumption is a stutter. `LinearSweep` takes what it lists as constant
  operators (`Entries`, `EndOf`, `Controls`), so that its promise has no decoder in it.

  `OnlyItsBytes` proves `SelfContained`. Two decoders read two codes in which the same
  bytes stand at other offsets with another rest behind them (`CopyOf`). Per operator a lemma
  says that the one's work record is the other's moved (`Moved`: `pos`, `left` and
  where its prefixes stand differ, nothing else), or has failed, or has read more than
  the shorter code has (`Takes`, `Follows`); they end in `DecodeFollows`. The prefixes are
  the same loop by loop (`ScanHome`, the VEX prefixes in `Vex2Home` and `Vex3Home`, together
  `PrefixesHome`). `DecodeHome` uses `DecodeFollows` in both directions, since a
  decoding that fails in the code must fail alone too. So an instruction is what its own
  bytes are at offset 0 with nothing behind them (`InstructionHome`), and the invariant is
  `AllGenuine`: each entry that is an instruction is what `InstructionAt` says of its place.

Constants got assumptions that the code satisfies: a key of `CommandLine` is one of
its characters and its buffer has room for one; `Free` is no line; no keyboard is called like
the module's process; there is a greatest buffer and a longest line (`Cells` ends
behind both).

### Only model-checked

* `BreakHonoured`, `KeyWakesReader` and `HookedAgain`: liveness under fairness is out of
  the prover's reach.
* `AllListed` of `Distorm` for the same reason; its safety part, that a call gets on and
  that what it lists is the sweep, is proved (`RoomEnough`, `ListsTheSweep`).
* `WellFormed` and `PrefixesHonest`: they depend on each of several hundred rows of the
  tables, where a proof is the enumeration that TLC does.

## 5. What the models abstract

* Masked intervals of one CPU are one step when the other CPUs do not read what
  they write. Stores are taken in program order (`ice` is volatile; x86 keeps the
  order of stores).
* `unhook_idt` copies a 16-byte descriptor; the compiler's 8-byte store of its low
  half holds both changing parts, so the gate changes at once. `high_offset` is
  the same for kernel and module.
* The frame of an interrupt is its TF and IF in `IceSession`; the registers the stub
  saves are in `StubFrame`. DF and the other flags are not modelled.
* Any write of `APIC_TMICT` re-arms the timer; its interval and modes are not
  modelled. In `IceSession` the module is loaded: vectors 1 and 3 are hooked.
* Linux executes INT3 in its own code only, and sets no TF of its own.
* One event at a time of each keyboard, as Linux serialises the events of one
  device; `IceSession` and `KeyQueue` have one keyboard, `IceModule` two on one CPU.
* `IceModule` takes CR0.WP to be cleared while the patch is written; after
  `CleanUi` the module's memory is gone and what executes there is not modelled.
* `DisasmPane`: a line's text is its length. `ui_listview_additem`'s own failures, the
  pane's lines being lost or the item's NULL, are in `ListView`.
* Behind the NULL that is dereferenced (`oops`) nothing is modelled; a process killed
  in the ioctl leaves the debugger as it is.
* distorm3: the values of immediates and displacements (their sizes are modelled),
  the masks of addresses (`DF_MAXIMUM_ADDR*`), of used registers and of CPU flags,
  and the spelling of mnemonics.
* Texts, colours and coordinates.

### Not modelled

* Screen layout and the register, stack and data panes: coordinates, colours and
  text from registers and memory; their only state is `prev_regs`. Whether the
  memory they read is mapped is a matter of Linux's page tables.
* `kallsyms.c`: two function pointers set once; `chrdev.c` but for its
  disassembly: registration and one printed address.
* `3rd/kernelfb`: draws pixels; the debugger depends on it only in `kfb_create`,
  whose failure `IceModule` (views that failed) and `ListView` (`made` without "fb") have.
* `distorm_decode` and `distorm_format`: text from a `_DInst`, no state.
* Two keyboards served by two CPUs: `keyq` and `ori_entry` would have two writers,
  and nothing in the code orders them.

## 6. Plan

All modules planned are written, and every safety property of a run but two of
`Distorm` is proved. Still worth doing: `KeyQueue` in place of the abstract `keyq` of
`IceSession`, and `CommandLine` in place of its `text`. `RingImplementsFifo` and
`BufferImplementsPrompt` are the halves of a proof that the composition refines
`IceDebugger`.
