# Verification of arasy

TLA+ models of arasy, a C++17 wrapper of the Lua 5.4 C API, with the TLC runs that check them and TLAPS
proofs of what they show about the registry references, the operations on a stack, the coroutines, who closes a
`lua_State`, the loading of modules, the check of formats, the stack readers and the running of Lua code.

arasy is sequential: there are no C++ threads in it. What is hard about it is not parallelism but shared
state with implicit ownership. Four kinds of it:

- **The registry.** A `LuaTable`, `LuaFunction`, `LuaCFunction` or `LuaFullUserData` is a C++ object that owns
  a slot of a Lua table. Copying, moving, assigning and destroying such objects has to keep *one owner per
  slot*, although slots are recycled through a free list kept in the same table.
- **The Lua stack.** Every operation uses the stack of a `lua_State` as scratch space, and the client's own
  values lie on the same stack. What an operation pushes or pops too much is a value of the client's.
- **Coroutines.** A resume runs until the other side yields, returns or fails; resumes nest, each coroutine
  has its own stack, and results and arguments move between them.
- **The states themselves.** Every object holds a raw `lua_State*`. One `Lua` object closes it, destructors of
  others call it, and a coroutine is collected when no Lua value holds it, whatever C++ object points at it.

On top of it every Lua call may fail, by a Lua error, by an error return or by a C++ exception in the middle
of an operation, and the API checks nothing: a pop too many moves the top under the frame.

## Components

| component | state | operations | what makes it correct | modules |
|---|---|---|---|---|
| registry references (`registry/reference.hpp`, `reference.cpp`, `registry.cpp`) | `luaInstance` and `id_` of each reference; integer part of the registry | constructors, assignments, destructor, `changeOwnershipTo`, `LuaValue::operator=` | one owner per slot, none dangling, free list whole, slots lost by assignment alone, a reference denotes what was put into it | `LuaReference`, `MCLuaReference`, `ValueHandles`, `LuaReferenceProofs` |
| registry fields and keys (`registry.cpp`, `registry.hpp`) | other fields of the registry | `retrieve*`, `read*`, `write*`, `store*` | the effect each call has on the client's stack | `LuaFrame`, `LuaFrameProofs` |
| tables and userdata (`indexable.*`, `table.hpp`) | tables, metatables, the stack | `set`, `get`, `retrieve` and their field, integer, raw and stack forms, `len`, `setMetatable*`, `operator[]` | the effect each call has on the client's stack and the tables, nil keys refused | `Indexable`, `LuaFrame`, `LuaFrameProofs` |
| `core::Lua` (`arasy.*`) | a `lua_State` | `push`, `popStack`, `multiPop`, `type`, globals and their proxies, new tables, `makeTable`, `arith`, `concat` | the same | `LuaFrame`, `MCLuaFrame`, `LuaFrameProofs`, `StackReader` |
| stack readers, `LuaValue` (`types.*`, `types/*.hpp`) | a C++ value, a stack slot | `checkAt`, `readAt` per class, `LuaValue`'s reader | a successful check guarantees the read; a value survives a pop and a push | `StackReader`, `StackReaderProofs` |
| coroutines (`thread.hpp`, `thread.cpp`) | frames and status of each thread, the chain of resumes | `resume`, `start`, `yield`, `yieldk` | one resume at a time, waiting code undisturbed, values given are received | `LuaThread`, `MCLuaThread`, `Coroutine`, `LuaThreadProofs` |
| running Lua code (`arasy.cpp`, `errors.cpp`, `callable.hpp`, `types.cpp`) | the stack | `load*`, `execute*`, `call`, `pcall`, `pcallk`, `LuaCallable::pcall/call`, `LuaTable::insert` | the client's values survive a failure, a failure is reported and leaves nothing else | `Script`, `ScriptProofs` |
| `pushFmt` (`pushfmt.hpp`) | what is left of a format and of the arguments | the recursive check, the push | verdict of a plain left-to-right reading; argument types match | `PushFmt`, `PushFmtProofs` |
| Lua instance lifetime (`arasy.*`, `reference.cpp`, `thread.*`) | the open instances, the coroutines and what holds them, the state each C++ object is bound to | constructors and destructor of `Lua`, `createNewThread`, copies of `LuaThread`, the special members of `LuaReference` | closed exactly once, nothing done on a state that is no more | `LuaLifetime`, `MCLuaLifetime`, `LuaLifetimeProofs` |
| modules (`module.*`, `registry.hpp`) | the stack, `package.loaded`, the slot of each module, cached fields | `loadModule`, `unref`, `Field` | all or nothing, nothing in use is freed, a cache is stale by a script's hand only | `ModuleLoading`, `MCModuleLoading`, `ModuleLoadingProofs` |
| closures (`cfunction.hpp`, `arasy.cpp`) | the stack | `createCClosure*`, `withUpvalues` | the effect each call has on the client's stack | `LuaFrame`, `LuaFrameProofs`, `StackReader` |
| errors, printing, utilities | none | formatting, type lists, literals | | not modelled |

How they interact. `Lua`, `LuaRegistry` and the handles hold a raw `lua_State*` and call the C API on it.
`LuaReference` is the base of every handle that needs the registry; `LuaIndexable` and `LuaCallable` derive
from it and begin each operation by pushing themselves (`pushSelf`) and each argument (`LuaValue::pushOnto`)
on the stack they work on. Values come back through `LuaStackReader<T>`, which creates new references.
`LuaThread` runs Lua or C code, which may call back into all of it from another stack. `loadModule` runs a
constructor of the user's in the middle of its own work on the stack both share.

The hazards, each at its line and with the properties that would catch it, are listed in `PROJECT.json`.

## Modules

**`LuaReference`** — the special members of `registry::LuaReference`. `slot[t]` and `freelist[t]` are the part of
the registry of instance `t` that `luaL_ref` manages; `at[h]` and `id[h]` are `registry.luaInstance` and `id_`
of the C++ variable `h`. One action per special member: `Construct`, `ConstructNone`, `CopyConstruct`,
`MoveConstruct`, `CopyAssign`, `MoveAssign`, `LuaValueAssign`, `LuaValueAssignPlain`, `Destroy`,
`ChangeOwnershipTo`; `CloneInto` and `StealInto` are what the copying and the moving ones share. `luaL_ref`
and `luaL_unref` are lauxlib's: free slots are chained through the table. Two next-state relations tell
clients apart: `Next` keeps to the comment of `changeOwnershipTo` that asks for a common registry;
`NextNumberKeys` also writes to the registry under numbers. The history variable `op` names the special member that
ran last, with its arguments; no action reads it. A `LuaValue` assigned to itself is a case of its own in `LuaValueAssign`:
`types.cpp:14` builds the new variant over the old one without a test, so the value and its slot are lost.
`MCLuaReference` gives the instances for TLC and a view that leaves `op` out of the states that are told apart.

**`ValueHandles`** — what references promise: each is a variable that holds a value, and each operation, known by its
name and arguments (`op`), has one effect: constructing puts the value in, copying copies it, moving empties the source,
assigning replaces it. A variable may not take any other value, nor become empty, at any other time. `LuaValue`'s `a = a`
is the exception and said to be one. No slots, no identifiers.

**`LuaApi`** — external: the API functions arasy calls, as functions from the state of a Lua instance (stacks,
tables, metatables, registry fields) to the next. A call on less than it needs makes the state `"undefined"`
and is followed no further, a Lua error makes it `"error"`, a C++ exception `"thrown"`.
`Texts` are the values a `LuaString` can be read from.

**`Indexable`**, **`LuaFrame`** — the table operations, and the rest of the operations that work on a frame, each
written as the sequence of API calls its C++ body makes. A client step of `LuaFrame` is one whole operation,
including what it leaves behind when it fails; the history variable `op` names it, with the `lua_State` or handle it is
called on and its arguments. What is read is read as a class (`Classes`), one for each way a reader ends: a `LuaValue` is
read from anything, a `LuaTable` is `nullopt` for what is no table, a `LuaString` throws for what is no text, between the
push and the pop of the operation. A table without metamethods does not tell the raw operations
from the others; they are there by name. Tables and closures are created from operands on the stack or from
arguments; `Unreferenced` stands for the collector, a new table being one nothing leads to. `MCLuaFrame` has the
symmetry of the two stacks and the view without `op` and `ret`.

**`ClientView`** — the abstract specification of these operations. `Effect(call, on, args)` says for each call, by its
name, what it is called on and its arguments, what it does to the client's values, to the tables and the registry, and
what it returns, stated without scratch pushes; `Next` is the effect of the call that `op'` says was made. So a set has to
store this value under this key of this table, and a get has to answer with the value of this key. Where the code leaves or takes a value
(`len`, `setMetatableStack`, `storeKey`) or answers for the wrong one (`type(idx)`) the specification says so, since
clients have to live with it. So it does for a call that an argument of another instance or a reader ends by an exception:
what it had pushed stays, no data changed but in a table it was making.

**`LuaThread`** — coroutines: `stk[s]` are the frames of `s`, the first at base level; `chain` is the C stack of
resumes under way; `ret` the last `ResumeResult`. `Resume` and `Start` are LuaThread's functions, their
disjuncts the outcomes of `lua_resume`; `Yield`, `Return`, `Raise` are what the body of the running coroutine
can do. The client and the bodies do as they please, in particular they leave values on any stack. A function or an
argument is passed with the `lua_State` its reference is bound to (`Passed`): `thread.hpp:55` and `80` push it there,
which may be the stack of code that waits, while `lua_resume` counts it on the coroutine. One of another instance
(`Foreign`) throws, and what was pushed before it stays. An error object that is no text throws out of `resume` as well
(`errors.cpp:67`). `MCLuaThread` has the symmetry of the two coroutines.

**`Coroutine`** — the abstract life of coroutines: idle, active, suspended, failed, in a nest of resumes, with how the
last resume ended.

**`LuaLifetime`** — variables of type `Lua`, `LuaReference` and `LuaThread` (`obj`), each with the state it is bound
to and whether its destructor calls that state; the open instances, the home of every coroutine and what holds it
(`held`). One action per special member: `NewLua`, `WrapLua`, `CopyLua`, `MoveLua`, `DropLua`; `NewThread`, `PushThread`,
`ReadThread`, `CopyThread`, `DropThread`; `MakeRef`, `CopyRef`, `MoveRef`, `AssignRef`, `MoveAssignRef`,
`ChangeOwnership`, `DropRef`. `CollectThread` is the collector and `LetGo` a value that stops to hold a coroutine. Any
call on a state that is not there sets `fault`. arasy checks none of this, so what holds depends on the client, and
the rules of a careful one are written into `LuaCalls`, `ThreadCalls`, `RefCalls` and `Unhurried`: it works on states it
has something to keep alive, does not move the `Lua` it closes an instance with, puts a new coroutine on a stack of
its instance before anything else is allocated, keeps threads and ownership within one instance, and destroys the
references that depend on a state before it closes or lets go of it. `keeper` and `tie` hold what the client counts on;
the code has neither. `MovingNext` drops the rule about moves.

**`ModuleLoading`** — `loadModule` cut at the call of the module's constructor: `BeginLoad` is what runs before it,
`EndLoad` what runs after, `ConstructorThrows` an exception in it. In between run the constructor's own steps: other
loads, pushes of tables and of other values, pops, scripts that change `package.loaded` and fields, and the collector,
which frees a userdata that neither the stack nor a slot leads to. `lua_setfield` writes into whatever table lies third
from the top (`Target`): `package.loaded`, `package`, or a table the constructor has left there. `calls` is the C++ stack of loads. `FieldSet` and `FieldAccess` are
`Module::Field`. `MCModuleLoading` has the symmetry of the names.

**`StackReader`** — every type of Lua value against every class: `checkAt`, `readAt`, the order of `LuaValue`'s
reader, the conversion in place `lua_tostring` does, and pushing back what was read. Infinities and NaN are a type of
their own (`nonfinite`): as texts they are no numerals.

**`Script`** — loading and calling, with every status Lua can report and error objects of any kind.

**`PushFmt`** — one step per instantiation of the recursive template, against a reference definition
(`Expected`) that reads the format character by character. `PassedAs` is how an argument of each C++ type travels through
the `...` of `lua_pushfstring`: an object of arasy's own classes as an object, since `arasy.hpp:117` unwraps nothing.

**`LuaReferenceProofs`**, **`LuaFrameProofs`**, **`LuaThreadProofs`**, **`LuaLifetimeProofs`**, **`ModuleLoadingProofs`**,
**`PushFmtProofs`**, **`StackReaderProofs`**, **`ScriptProofs`** — the theorems about each, see Proofs.

## Runs

| run | states | shows |
|---|---|---|
| `LuaReference` | 43 552 | ownership of slots in two instances, with recycling, leaks and a coroutine; values stay in their instance; each special member does what `ValueHandles` says of it |
| `LuaFrame` | 31 058 | every call has the effect `ClientView` gives it, creation included, also when an argument or a reader ends it in its middle, and nothing reaches below the frame |
| `LuaThread` | 57 076 | nesting, delivery of values, waiters disturbed in two ways only, refinement of `Coroutine`, wherever references are bound and whatever is left on the stacks |
| `LuaLifetime` | 12 625 | an instance is closed once, by the one object that owns it; no object and no destructor calls a state that is no more, if the client keeps the rules |
| `ModuleLoading` | 4 017 393 | how a load ends, nested, failing, overwritten, and over tables its constructor left; what the collector may take; what a cached field tells |
| `PushFmt` | 193 546 | verdicts of the format check, termination, nothing but an object misread as a number or an address |
| `StackReader` | 33 180 | checks and reads agree, inf and nan apart; round trips |
| `Script` | 397 | failures leave the client's values alone |

`LuaFrame`, `LuaThread`, `LuaLifetime` and `ModuleLoading` are counted up to symmetry. The views of `LuaReference` and
`LuaFrame` leave out what the last call was and answered: no action reads it, and the properties about it are checked on
every step, also on one that leads to a state seen before.

The other runs end in a violation on purpose. Each checks one statement of the documentation, a comment or a
test against what the code does, and fails; `findings` in `PROJECT.json` quotes the lines.

| run | what the code does |
|---|---|
| `LuaReferenceLeak` | assignment does not release the slot it overwrites |
| `LuaReferenceNumberKey` | a number key overwrites the slot of a reference |
| `ScriptCall` | `call` runs on into a protected call of the results |
| `LuaLifetimeMove` | a `Lua` that owns its state is moved, and both objects close it |

Further divergences are in the models and have no run of their own:

- A reference is pushed on the stack it is bound to, whatever stack was asked for (`types.hpp:168`, `reference.cpp:89`);
  `ClientView` has the push land there.
- `storeKey` pops one value too many (`registry.cpp:52`; `tests/registry.cpp:18` and `29` have one to spare),
  `setMetatableStack` two, `len` one too few, and `type(idx)` answers for the top (`ClientView`).
- `pushFmt` takes a `lua_Number` for `%d` and an integer for `%f`, which `lua_pushfstring` then misreads, and a
  `LuaInteger` for `%d`, a `LuaNumber` for `%f` and a `LuaString` for `%s`, which it hands over as objects
  (`arasy.hpp:117`). `NumbersAreNotAddresses` is what holds.
- An infinity or NaN that was checked as a `LuaNumber` and then read as a `LuaString` is no number any more
  (`string.hpp:36`); `CheckedCanBeRead` names it.
- A `LuaValue` assigned to itself loses its value (`types.cpp:14`), though `types.hpp:40-41` calls `LuaValue`s safely
  copiable (`ValueHandles`).
- A function or argument of a coroutine lands on the `lua_State` its reference is bound to, and is missing on the
  coroutine (`thread.hpp:55`, `80`; `WaitersUndisturbed` has the two ways in which waiting code is disturbed).
- A typed read that throws leaves what it has read on the client's stack (`indexable.hpp:81`; `ClientView`).
- A table that the constructor of a module leaves on the stack may take the place of `package.loaded`: `loadModule`
  then answers none with the name unbound (`registry.hpp:38`; `EndsAllOrNothing` names it).
- A coroutine that `createNewThread` made may be collected at once, since nothing in Lua holds it (`arasy.hpp:219`;
  `tests/thread.cpp:165` works with one in that state). `LuaLifetime` has the client push it first (`KeepThread`).
- After a constructor that catches the exception of a load of its own, `loadModule` puts the wrong userdata in the
  slot of the outer module, which is then left to the collector (`"askew"` in `ModuleLoading`).
- A module is overwritten without being asked for if its constructor loads one under the same name
  (`EvictsOnlyInner`).
- `changeOwnershipTo` a state of another instance keeps the identifier, which names a slot of another registry
  there; `LuaReference` keeps to the comment that asks for a common registry.
- `LuaThread::pushOnto` accepts a thread of another instance, where tables and functions throw (`LuaApi`).
- The stack forms of the table operations never return `NOT_ENOUGH_VALUES`; `LuaFrame` lets clients call them
  only with their operands in place.
- A finished coroutine with a value left on its stack is started by `resume` if the value can be called, and fails
  if it cannot; what lay under a function when it was started is counted among its results (`LuaThread`).
- `start` of a coroutine that runs or waits is refused, but takes as many values from the coroutine's frame as it has
  arguments, and leaves the function there.
- A string is read up to its first zero byte, and a numeral is read as a number by `LuaValue` (`StackReader`).
- An error object that is no text leaves `LuaCallable::pcall` as a C++ exception and stays on the stack (`Script`).

**Bounds.** Two instances of two slots each (`MaxRef`) and three references suffice for a free chain of every
length, for a slot recycled while another is leaked, for two references that contend for a slot a third released,
and for assignments between instances that collide in their identifiers. One instance has a coroutine besides its
main thread. `PushFmt`: four characters hold a literal percent sign with a specifier before or after it, two
literals, and a trailing `%`; two arguments leave one over, lack one, or mismatch second. `LuaFrame`: no operation
takes more than two operands; two values of the client's on its two stacks together show a loss below them, or
on the other stack, and one field stored at a time
(`MaxFields`) is enough to tell old and new values, which include tables, a string and nil; a list of two entries has
one done before the one that ends `makeTable`, and two upvalues one pushed before the one that throws. Two plain values,
one a text, make the reader of `LuaString` succeed and throw. `LuaThread`: two
coroutines give a nested resume, a resume of a waiting one and of oneself; calls pass a function and at most one argument, each
bound to any of the three lua_States or to another instance (`ArgLists`); two values left on all stacks together
(besides what `lua_resume` takes) show an order of results, a leftover under a result, or a value that landed on the stack of
code that waits. `Script`: three values, two arguments or results. `StackReader`: two slots, so a
conversion in place shows under a value pushed above it. `LuaLifetime`: five variables hold an owner of each of two
instances with a thread and two references between them, or an owner with two copies; two coroutines let one be
collected while another takes its place. An instance or a coroutine that nothing names any more is made again, so
histories are not bounded. `ModuleLoading`: three modules under two names nest three deep, collide, and let an
overwritten one be collected in a constructor; twelve values are what three loads under way have on the stack, and
three of a constructor's own (`MaxOwn`), tables or not, put one of them at the place `lua_setfield` writes to. The
field is one of a module in the middle (`WithField`).

`CHECK_DEADLOCK FALSE` stands where a client may have used up its bounds or, in `Script`, where an exception
that nobody catches ends the program.

**Fairness.** Only `PushFmt` has a liveness property. Its fairness is weak fairness of the next step: a sequential
program goes on with its next statement. The other components wait for nobody: whether a script returns or a client
calls again is up to code outside of the repository, so no fairness is assumed of them and nothing is claimed to happen
eventually.

## Proofs

**`LuaReferenceProofs`** proves, for any sets of instances, lua_States, objects and references and any `MaxRef`,
from `ConstantsAssumption` only (nil, objects, numbers and `NoState` are different things; `TreeOf` and `Home`
are functions):

- `TypeCorrect`: `Spec => []TypeOK`
- `NoDangling`: `Spec => []NoDanglingReference`
- `Exclusive`: `Spec => []ExclusiveOwnership`
- `StaysHome`: `Spec => []ValuesStayHome`
- `LostForGood`: `Spec => LeakedSlotsStayPinned`, and `LostByAssignment`: `Spec => LeaksOnlyByAssignment`
- `ChainIntact`: `Spec => []FreeChainIntact`
- `Refinement`: `Spec => ImplementsValueHandles`, the specification of `ValueHandles` under the mapping that
  sends a reference to the value in its slot, and each special member to the operation of its name.

`NoDanglingReference` is not inductive. `luaL_ref` takes the first slot of the free chain on trust: were the
chain to lead to a slot in use, the next construction would take it from its owner. The invariant proved is

    IInv == TypeOK /\ FreeLinks /\ NoDanglingReference /\ ExclusiveOwnership

where `FreeLinks` says that the head of the chain and the link in every free slot are 0 or a free slot, and that no
free slot is named twice. It is
local, so that a step changes it in two places. The argument: a construction takes a free slot,
which by `NoDanglingReference` no living reference names, so it stays exclusive and the chain goes on from its
link; a move hands over the only name of a slot; a destruction frees a slot which by `ExclusiveOwnership` no other
reference names. Assignments lose a slot, which stays in use and breaks none of the four. The
refinement needs all of it: an operation must put into its references just the values `ValueHandles` says, which is what
it does to their slots, and must not change the value any other denotes, which is what exclusive, non-dangling slots give. `ValuesStayHome` is inductive relative to `IInv`, by the same lemmas on what each
operation does to the values of all references.

That the chain is one walk through all free slots (`FreeChainIntact`) does not follow from `FreeLinks`: a circle of free
slots beside the chain has the same links. A second invariant, `ChainOK`, says that the free slots of every instance can
be listed without repetition so that the head of the chain is the first and each links to the next. `luaL_ref` takes the
first off the list or, if there is none, makes a slot that is on none; `luaL_unref` puts one in front, which is on no list since
it was in use. The walk is defined by recursion, and that it goes along the list is shown by the least place at which
the two would differ.

The two theorems about lost slots rest on one lemma, `StepOwners`: it says
for every step which slots come into use, which stay, and who may own a slot afterwards that did not before.

**`LuaFrameProofs`** proves, for any sets of tables, strings, coroutines and states of other instances, any finite set of
`lua_State`s and any `MaxStack` and `MaxFields`, from `ApiAssumption` (the globals are a table; texts are plain values; tables, nil and the
other values are different things), `ForeignAssumption` (no `lua_State` belongs to two instances) and `FrameAssumption` (finitely
many `lua_State`s; names are keys; `MaxStack` is a natural number):

- `TypeCorrect`: `Spec => []TypeOK`, which includes that no call reached below a frame and no Lua error was raised
- `Refinement`: `Spec => ImplementsClientView`, for the client's values as the part of each stack above its bottom, and for
  each call as it is named by `op`

The invariant is `IInv == Frames /\ Data /\ st = "ok"`: every stack holds values and has its bottom in place, and the
tables and the registry are well formed. It is simple since an operation is one step; the work is in what happens inside of that step, the chain of API
calls on a stack that already holds a client's values. `Now(L, q, T, M, R)` is the machine in the middle of an operation on the stack of `L`, with frame `q`
and data `T`, `M`, `R`. A first layer of lemmas says what each API call does to a machine of that form if the frame is
deep enough (`Pushes`, `Settable`, `Remove2`, `Setmetatable`); a second one what a machine of that form looks like to the
client when an operation ends in it (`Leaves`, and `SeesPush`, `SeesRead`, `SeesSet`, `SeesThrow1` for the shapes of `ClientView`). Every
operation then has a lemma, named after it (`SetKeeps`, `RetrieveStackKKeeps`, `MakeTableKeeps`), which says that the step keeps the invariant and is the
operation of that name of `ClientView` with the same arguments: its calls are composed by the first
layer, and the result is read off by the second. There is a case for each way the operation can end: a nil key,
a key or a value of another instance, which throws after none, one or two pushes, a reader that throws over what was
pushed (`ReadsAndPops`, `ReaderThrows`), a stack that is too short. `Broken`
is the machine after the exception; `Stops` says that the calls after it do nothing. `TypeOK` bounds each stack by
`MaxStack`: `LeftParts` gets that from the guard on what is left on all stacks together.
The lists that `makeTable` and `withUpvalues` take are those of the model, up to two entries or upvalues: an induction
over the list is not to be had.

**`LuaThreadProofs`** proves, for any sets of coroutines, functions and other values and any `MaxStack`, from
`ThreadAssumption` (the main thread is no coroutine, and neither is the state of another instance; functions and the other
values are different; `MaxStack` is a natural number):

- `TypeCorrect`: `Spec => []TypeOK`
- `OneResume`: `Spec => []OneResumeEach`
- `WaitersKeepTheirStacks`: `Spec => WaitersUndisturbed`
- `GivenArrives`: `Spec => GivenIsReceived`
- `Refinement`: `Spec => ImplementsCoroutine`, under the mapping to phases and resumers.

The inductive invariant adds to `TypeOK` and `OneResumeEach` that a suspended coroutine has a body
(`SuspendedHaveBodies`): resuming it makes it active, and an active coroutine must not be at base level. Every action
changes the state of one coroutine, besides moving values to the frame of the one that resumed it; `CoroutineStep` is
what such a step has to satisfy, and the lemma of each action states which stacks it leaves alone. `AnswerMoves` follows
the results from the frame of the one to the frame of the other. A waiting coroutine is neither of the two, so what comes to
lie on its stack is what a call puts there before `lua_resume`: `PushingLands` and `BothLand` say where a function and its
arguments land, and `ResumeStep` what a refused call then takes of it. The lists of arguments are those of the model, none
or one. The lemmas
on the chain of resumes (`ChainGrows`, `ChainShrinks`) give that the one that resumes is not the one resumed, without
which a result would be moved onto the stack it is taken from.

**`LuaLifetimeProofs`** proves, for any sets of instances, coroutines and variables, from `LifetimeAssumption`
(instances and coroutines are different states, `Nobody` is none of anything):

- `TypeCorrect`: `Spec => []TypeOK`
- `NothingAfterTheEnd`: `Spec => []NoFault`
- `OneOwnerEach`: `Spec => []OneOwner`

The invariant: the client's keeper of an open instance is an object that owns it, and every
owner is such a keeper (`KeepersOwn`, `OwnersKeep`), so closing is done once; a reference of which something is expected is bound
to the state it is tied to, and that state is kept, and only such a reference calls its state in its destructor
(`ObjectsSound`); coroutines live in open instances (`HomesOpen`), and one fresh from `createNewThread` is still there
when it is pushed (`FreshAlive`). Each action of the careful client takes a state that is kept to one that is.

**`ModuleLoadingProofs`** proves, for any sets of modules and names and any bound of the stack, from `ModuleAssumption`
(the module with the field is one of the modules, which are numbered; modules, the tables of
`package` and what else may lie on the stack or be bound to a name are different things):

- `TypeCorrect`: `Spec => []TypeOK`
- `InUseStays`: `Spec => InUseIsNotFreed`
- `AllOrNothing`: `Spec => EndsAllOrNothing`
- `EvictsInner`: `Spec => EvictsOnlyInner`
- `StaleByScript`: `Spec => []StaleOnlyByScript`

What a load does after its module's constructor depends on what it put on the stack before, through everything the
constructor did in between. The invariant follows every load under way (`calls`) from one to the other: the stack
still begins with what the load found and put there, and a pop of the constructor's reaches none of it (`CallsHold`), since no
table `package` on the stack is without what was put above it (`Whole`), which is also why `lua_setfield` never writes into
`package` itself; a load begun later stands on top of one begun before
(`CallsNest`); the modules of the loads under way are the ones being built, each once (`Builders`), in the order they
were begun (`MadeInOrder`); a module in use has its slot (`ReadyReferenced`); and a name that a load found
free and is now taken was taken by a module made later than its own (`TakenByLater`). An inner load ends with the
stack as it found it, so it breaks none of the outer ones' parts.

**`PushFmtProofs`** proves, for formats and argument lists of any length, from `FmtAssumption` (the bounds of the initial formats
are natural numbers):

- `VerdictIsDue`: `Spec => []ChecksWholeFormat`
- `NoNumberIsAnAddress`: `Spec => []NumbersAreNotAddresses`

The invariant is that the verdict due for what an instantiation is left with is the verdict due for the whole call. `NoNumberIsAnAddress` then looks up the table of conversions once more: what it lets
through is passed the way it is read, but for the objects. The
reference definition counts the characters that open a placeholder from the left; the template cuts the format
after each. `ExpectedAfter` is the step between the two: cutting off the first placeholder with its argument leaves the verdict as
it was. Everything about whether a character opens a placeholder goes back to the run of percent signs before it, by the least position
that would be an exception.

**`StackReaderProofs`** proves, for stacks of any depth:

- `CheckedReads`: `Spec => []CheckedCanBeRead`
- `EveryValueCanBeRead`: `Spec => EveryValueReads`
- `ComesBack`: `Spec => RoundTrip`

`CheckedCanBeRead` is inductive with the types of the variables. The case that matters is a read as another class after the check: it
may turn a number in the slot into a string, and what was checked has to be one that still reads. An infinity or NaN is
not; it is the exception the property names.

**`ScriptProofs`** proves, for any number of arguments and results, from `ScriptAssumption` (that number is a natural one):

- `TypeCorrect`: `Spec => []TypeOK`
- `ProtectedCallsKeep`: `Spec => OwnValuesKept`

There is a lemma for each call, on what it leaves of a stack that holds its operands.

Only model-checked: `AlwaysAnswers` of `PushFmt`, which is liveness, and the
properties that end in a violation. Liveness under fairness and `ENABLED` are outside of what the prover does. The
induction theorems of the library that take a predicate cannot be used either; where a proof follows a recursion
(`ChainIntact`, `VerdictIsDue`) it takes the least exception out of a set of numbers instead.

## Not modelled

- Stack capacity (`lua_checkstack`; `thread.hpp:61` asks it of the wrong stack) and memory errors inside of API calls
  other than the statuses they report: hazards without a property, listed as such.
- Garbage collection of anything but coroutines, tables nothing leads to, and the userdata of modules.
- `submodule`, whose result is returned by value and whose parent nothing reads, and Fields of copied modules, which
  refer to the original.
- A `package` library that was not opened: `loadModule` then works on nil and ends in a Lua error.
- `LuaCFunction::cfunc`, which is never assigned and read by `toFunctionPointer` alone.
- In `LuaLifetime`, what is pushed on the stack of a coroutine: only main stacks and globals hold coroutines there.
- Metamethods: tables of the model have none, so a table operation runs no user code.
- `longjmp` over C++ frames: a Lua error that is not caught by a protected call ends the run of the model.
- What lies below a frame after a pop too many: the model stops there.
- Integer width: `lua_Integer` takes part in no arithmetic of arasy's own, except unary minus.
- Printing, literals, comparisons of C++ values.

## Plan

Done: `LuaReference` with `ValueHandles`; `LuaFrame` over `Indexable` and `LuaApi` with `ClientView`, creation of tables
and closures included; `LuaThread` with `Coroutine`; `LuaLifetime`; `ModuleLoading`; `StackReader`; `Script`; `PushFmt`;
proofs about all of them. Left:

1. The slot a module takes, in the terms of `LuaReference`: `ModuleLoading` has the slots of modules by themselves.
2. Metamethods in `LuaApi`, so that a table operation may run user code and fail.
