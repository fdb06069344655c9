# Sponge utilities: TLA+ models, checks and proofs

This directory models the code of `libsponge` at the state of CS144 lab 0: an
in-memory byte stream (`libsponge/byte_stream.*`) and the utilities beside it
(`libsponge/util/*`). TLC checks the models on small instances, TLAPS proves
every safety property that the passing runs check for every instance. `PROJECT.json` lists the
components, runs, mutants, the map from definitions to source lines, findings,
hazards and theorems.

## Inventory of the system

| Part | State | Operations | What makes it correct |
|---|---|---|---|
| `ByteStream` | circular storage, two `int` indices, two `size_t` counters, error and end marks | `write`, `peek_output`, `pop_output`, `read`, `end_input`, `set_error`, observers | a bounded FIFO; sizes recovered from the indices are right; `eof` is final |
| `FileDescriptor` / `FDWrapper` | shared wrapper: number, EOF and closed flags, two counts | construct, `duplicate`, `close`, destroy, `read`, `write` (in rounds), `set_blocking` | a number is owned by one wrapper from open to close; EOF flag true; `write_all` writes all or throws |
| `EventLoop` | list of rules | `add_rule`, `wait_next_event` | revents are matched with their rules; each rule cancelled once; every call returns |
| `Buffer`, `BufferList`, `BufferViewList` | shared read-only strings with offsets, lists of them, views of lists | constructors, `append`, `remove_prefix`, conversion, `concatenate` | behave as plain strings; storage dropped with its last byte |
| `NetParser`, `NetUnparser` | a `Buffer` and an error | `u8`, `u16`, `u32`, `remove_prefix`, `set_error` | round trip; a short packet is noticed; errors are final |
| `InternetChecksum` | 32-bit sum, parity | `add`, `value` | independent of how data is cut up; a correct packet sums to 0 |
| `SystemCall` | - | throws on an error return | nothing after a failed call happens |
| `Socket` and subclasses | as `FileDescriptor` | adopt a descriptor, bind, connect, listen, accept, shutdown, recv, send | ownership also when a constructor or `accept` throws; whole datagrams or an exception; counts registered for the event loop |
| `webget` | one `TCPSocket` | resolve, connect, request, read until EOF | success means the whole page; the socket is closed on every path; it ends |
| `Address` | a `sockaddr` and its size | constructors, numeric conversions, equality | byte order; equality includes the port |
| `TunFD`, `hexdump`, `timestamp_ms`, random generator | none of interest | one ioctl, output, clock | not modelled |

Interactions. `EventLoop` keeps duplicated `FileDescriptor` handles and reads their
EOF flag, closed flag and counts; callbacks read, write, shut down or close any descriptor
they know, their own rule's or another's and in either direction (`MayServe`, `MayClose`,
`MayShut`), and may add rules. `Socket` is a `FileDescriptor`, and `webget`
uses a `TCPSocket`. `FileDescriptor::write` makes a `BufferViewList` and removes
from it what `writev` took. `NetParser` consumes a `Buffer`. `ByteStream` stands
alone and is used by a writer and a reader that call it in any order.

What is hard here: the ring arithmetic with mixed `int` and `size_t`, an empty
marker that leaves a stale index, file descriptor numbers that the kernel gives out
again, lists walked while they are erased from, readiness that is checked once and
used after other callbacks ran, partial writes, constructors that throw with a
handle in their hands, connections that break off, and odd chunk boundaries. There is
one thread; the concurrency is between the callers of a stream, between callbacks,
and with the peers of files. `PROJECT.json` has each hazard with its line.

## Modules

| Module | Models |
|---|---|
| `ByteQueue` | abstract: a bounded FIFO queue of bytes with wrapping totals |
| `ByteStream` | `byte_stream.{hh,cc}`, one action per call; properties; the mapping to `ByteQueue` |
| `ByteStreamProofs` | lemmas and theorems about `ByteStream` |
| `StreamPipeProofs`, `SocketProofs`, `WebgetProofs`, `EventLoopProofs`, `BufferListProofs`, `PacketPathProofs` | lemmas and theorems about the module of that name |
| `BufferProofs` | lemmas about `FoldLeft`, `FlattenSeq` and the operators of `Buffer` |
| `StreamPipe` | a writer and a reader (external) over one `ByteStream` |
| `FileDescriptor` | `file_descriptor.{hh,cc}` over an external kernel and peers |
| `Socket` | `socket.{hh,cc}`, on top of `FileDescriptor` |
| `Webget` | `apps/webget.cc`, on top of `Socket`, with an external server and network |
| `EventLoop` | `eventloop.{hh,cc}`, on top of `Socket` |
| `Buffer` | the operations of the three buffer classes on values |
| `BufferList` | lists and a buffer under any sequence of calls |
| `Text` | abstract: plain strings, which `BufferList` implements |
| `NetParser` | `parser.{hh,cc}` |
| `InternetChecksum` | the checksum of `util.{hh,cc}` |
| `Address` | the constructors, numeric conversions and equality of `address.{hh,cc}` |
| `PacketPath` | sender, partial writes, network and receiver over `Buffer`, `NetParser`, `InternetChecksum` and `Address` |
| `MC*` | constants for TLC |

Correspondence of state. `ByteStream` has the members of the class under their own
names (without the leading underscore of `_error` and `_input_active`), plus the
constructor's argument and the last call with its argument and result; without that
a call that did nothing would be a stutter of the abstract queue (`BufferList` and
`Text` keep the last call for the same reason). `INT_MAX` and `SIZE_MAX` are
parameters: `ToInt` and `ToSize` are the conversions, `Rem` is the C++ remainder.
The one signed overflow the code can reach is undefined in C++; the model wraps it,
as the configured builds do. `FileDescriptor` has one record per `FDWrapper`, the
use count of its `shared_ptr`, and the kernel's table; a call of `write` is a `job`
that takes one step per `writev`, so that the peer acts in between. `misused` records
that a caller used a closed wrapper, which the class does not prevent; behaviours
end there. A `file` is the kernel's side of a wrapper: its kind, what waits to be
read, the room for writing and a set of marks (connected, ended by the peer, shut down,
reset, ...); `outcome` is how the last call went, `short` being the one that no call
should have: a return with less than was promised. The kernel and the peers are
external, and so are the choices of `read(2)`, `writev(2)`, `recvfrom(2)` and the rest,
which take every value the manual pages allow. `Webget` adds where `get_URL` is, what
it has printed, and what the server has sent. `EventLoop` has the locals of `wait_next_event` (`it`, `idx`, `pollfds`,
`something_to_poll`, `count_before`) and a program counter with one step per rule
scanned, per poll, per rule dispatched, and two or more per callback. `pollfds[idx]` past the end
of the vector, which happens when a callback adds a rule, may be any value of the events and
revents that the code looks at (`pollfdAt`). Three variables are there for the properties only: `served`
and `others` count the services of the callback under way, by whether they are what the rule's
`service_count` is about, and `spoiled` collects what callbacks of the call have read, written
or closed. A `Buffer` is
the string it holds, its offset and whether it still holds it; sharing needs no
identity because the storage is read-only.

Definitions called a mutant in their comment are plausible mistakes, each put in the
place of the definition after it to show that a property notices. No specification
uses them.

## Runs

| Run | Checks | Instance |
|---|---|---|
| `byte_stream` | `TypeOK`, `BufferSizeExact`, `ImplementsQueue` | capacities 0, 1, 3; 4-bit int, 4-bit counters, so that both counters wrap; inputs up to 2 bytes of 2 values |
| `stream_pipe` | `Conservation`, `FinishedHasAll`, `EofIsFinal`, `Delivered` | capacities 1 to 4, messages of 0, 1 and 9 distinct bytes: more than two turns of the ring |
| `socket` | `FDTypeOK`, `Ownership`, `EofIsTrue`, `AllOrThrow` | a wrapper that is a Unix, TCP or UDP socket and one that is a pipe or an accepted connection; 2 numbers; 2 handles each; datagrams of 0 to 2 bytes and an mtu of 1 |
| `webget` | `SuccessIsWhole`, `ClosedAtExit`, `Terminates` | pages of up to 5 bytes in reads of 1 to 3, a request that takes two rounds, resets at any time |
| `event_loop` | `LoopTypeOK`, `Aligned`, `CancelOnce`, `StaleOnlyByCallbacks`, `BlamedForIdling` | a Unix socket with a reading and a writing rule, a pipe with a reading rule, which a callback may add; poll may fail; each callback on the socket reads and writes it, the one on the pipe also writes to the socket, and each may close its descriptor; up to two services, and the counts wrap after two |
| `event_loop_live` | `BlamedForIdling`, `CallReturns`, `ClosedIsCancelled`, `EndIsCancelled` | a writing rule on a TCP socket, which its callback may shut down, and a reading rule on a pipe, with changing interest, whose callback may write to the socket; resets |
| `buffer_list` | `NothingHeldInVain`, `ImplementsText` | 2 lists of up to 3 pieces of 0 or 2 bytes, prefixes of 0, 1 and 3 |
| `packet_path` | `NothingLostInViews`, `IntactIsAccepted`, `SumIsRight`, `AddressSurvives`, `ShortIsNoticed`, `ErrorIsFinal` | bytes of 3 values, a 9-byte header, payloads of 0 to 2 bytes and one of 17, with which the sum wraps; every cut and every chunking |

Why these are enough. A ring misbehaves at the wrap, when full, when empty and when
it is emptied and written again; capacity 3 with two-byte inputs has all of them and
capacities 0 and 1 are the degenerate rings. A number is misused when it is closed,
given to a second wrapper and touched through the first: two wrappers have that, and
two numbers let `accept` find one or none, and an open may fail at any time. A second handle is enough for a wrapper to
outlive a handle that was destroyed. Erasing while walking matters for the first, a
middle and the last of three rules. A descriptor with a rule for each direction and one
of another kind let a callback take away, or leave alone, what a later rule was told; the
socket of `event_loop` cannot be reset, which `event_loop_live` makes up for. `UINT_MAX` is 0 or 1 so that the service counts
wrap. In `socket` `UINT_MAX = 0` folds the counts away, as nothing there
reads them. Only `socket` does without deadlock checking: its behaviours
end at the first misuse and when all wrappers are gone.

What some of the checks turned up. `SumIsRight` needs its condition: once the words of
the data add up to 2^32 the class no longer computes the Internet checksum. But
`IntactIsAccepted` does not: sender and receiver lose the same carries, since adding the
checksum itself never crosses a multiple of 2^32. `EofIsTrue` leaves datagram sockets
out: `read` of an empty datagram sets the flag. `StaleOnlyByCallbacks` leaves rules out that
a callback of the same call has added: `pollfds[idx]` is then read past its end, and
the rule may be called, cancelled or made to throw for no reason; `Aligned` shows that
the rules that were polled are not affected. `BlamedForIdling` is exact: closing the
descriptor is not a service, shutting it down is one, and nothing counts but the rule's own
direction. The comment at `eventloop.cc:55-57` asks a callback to "read from or write
to Rule::fd"; one that was called to read and only writes has done so, and the call throws
all the same. What `poll` reported is undone for a later rule of the pass by callbacks alone,
and only by a read, a write or a close of the same descriptor in the same direction: an In
callback that answers on its socket can fill it for an Out rule that was reported
ready, and the Out callback then waits in `write`. In `webget` a reset before the
server has ended the connection can cost the rest of the page, but then `read` throws
and the exit status is a failure; after it nothing is lost.

Four more runs expect a violation; each compares a sentence of the documentation
with the code (`findings` in `PROJECT.json` quotes them).

* `write_after_end`: `write` accepts bytes after `end_input`.
* `event_loop_stale`: a rule's callback closes the descriptor it shares with a later
  rule that was also reported ready; the later callback runs on a closed number.
  Reading or writing on behalf of a later rule makes it stale in the same way;
  `StaleOnlyByCallbacks` of `event_loop` says that nothing else does.
* `event_loop_success`: a hangup on a rule whose `interest()` is false is not
  dispatched; the call returns `Success` with nothing triggered, and so does the next.
* `event_loop_poll_error`: an error of `poll` other than `EINTR` is swallowed.

## Fairness

`stream_pipe`: the writer keeps offering, the reader keeps reading and asking for
`eof`; a client that stops calling is owed nothing. Each client's step is a whole
call and always possible, so weak fairness is enough. `event_loop_live`: the
application calls `wait_next_event` again and again and a call that has begun goes
on (`poll` has a finite timeout, callbacks return; one that waits in a blocking call for a
descriptor that another has drained or filled would not, and the callbacks of this run
can always go on without that call). The peers and the application's
other steps have no fairness. `EndIsCancelled` assumes a rule that stays interested
and calls that stop throwing: a descriptor in error makes every call throw at the
same rule. `webget`: the program goes on, and the server takes the request and ends the
connection in the end, as the header `Connection: close` asks for. It is not bound to
send a page, and nothing is assumed of the network. Without that assumption the program
may wait for ever: it has no timeout.

## Proofs

All safety properties of the passing runs (20 invariants, three action properties and
two refinements) are theorems, for every value of the constants that
satisfies the assumptions of the modules, which TLC evaluates on every run.
No theorem rests on anything else, but for the hypotheses named here.

| Module | Inductive invariant | Theorems (property) |
|---|---|---|
| `ByteStreamProofs` | `IInv` | `TypeCorrect` (`TypeOK`), `SizeCorrect` (`BufferSizeExact`), `RefinesQueue` (`ImplementsQueue`), `EofStays` (`EofIsFinal`) |
| `StreamPipeProofs` | `PInv` | `Conserved` (`Conservation`), `FinishedComplete` (`FinishedHasAll`) |
| `SocketProofs` | `FDInv` | `SocketTyped` (`FDTypeOK`), `SocketOwnership` (`Ownership`), `SocketEof` (`EofIsTrue`), `SocketAllOrThrow` (`AllOrThrow`) |
| `WebgetProofs` | `WInv` | `WebSuccessIsWhole` (`SuccessIsWhole`), `WebClosedAtExit` (`ClosedAtExit`) |
| `EventLoopProofs` | `LInv /\ Extras`, `StillReady` | `LoopTyped` (`LoopTypeOK`), `LoopAligned` (`Aligned`), `LoopCancelsOnce` (`CancelOnce`), `LoopBlamesIdling` (`BlamedForIdling`), `LoopStaleOnlyByCallbacks` (`StaleOnlyByCallbacks`) |
| `BufferListProofs` | `BInv` | `ListHoldsNothingInVain` (`NothingHeldInVain`), `ListRefinesText` (`ImplementsText`) |
| `PacketPathProofs` | `XInv` | `PacketNothingLost` (`NothingLostInViews`), `PacketSumIsRight` (`SumIsRight`), `PacketIntactIsAccepted` (`IntactIsAccepted`), `PacketAddressSurvives` (`AddressSurvives`), `PacketShortIsNoticed` (`ShortIsNoticed`), `PacketErrorIsFinal` (`ErrorIsFinal`) |

**The byte stream.** `ByteStreamProofs` covers every byte set, every
`INT_MAX < SIZE_MAX` and every set of inputs and lengths, for capacities `c` with
`2c - 1 <= INT_MAX` (`SafeCapacities`; above that `maxlen + (eind - sind) % maxlen` may
overflow, and above `INT_MAX` the constructor's conversion to `int` makes another
capacity of it). The types are not inductive by themselves: that the indices stay in
range depends on `buffer_size` being at most `maxlen`, and that `buffer_size` follows
the counters depends on the int arithmetic being exact. `IInv == Shape /\
BufferSizeExact`, where `Shape` adds to `TypeOK` that `maxlen` is the
capacity asked for, that doubling it fits an int, and that `eind` is only -1 in an
empty stream. `Sizes` gives the range of both sizes under `IInv`; `RingWrite` and
`RingPop` say what moving an index does to the distance of the two; `WriteIInv`,
`PopIInv` and `NextIInv` are the induction step. For the refinement, `contents` is
read off the ring: `Placement` locates each written byte, `WriteAppends` shows that a
write leaves the old bytes and appends the new ones, `PopRemoves` that a pop shifts
the view, and `NextQueue` maps every step to a step of `ByteQueue`. `EofStays` is about
a writer that does not write after `end_input`. `StreamPipeProofs` uses `WriteAppends`
and `PopRemoves` for any message; `PInv` adds that the writer ends the input only when it
has nothing left and that a finished reader's `eof` is still true, without which
`FinishedHasAll` is not inductive.

**Descriptors and sockets.** `FDInv` adds to the types who owns a number (`Own`, `Life`:
a wrapper without handles has none), that the flag was set at an end that stays (`Ends`),
and how far a `write` has come (`JobOK`). Ownership and the EOF flag are promised only
while nobody has used a closed wrapper; types and `AllOrThrow` always. The kernel is as
unrestricted as in the model: any free number, any part of the bytes, any error.
`WInv` relates the socket to where `get_URL` is (`Places`) and what was sent to what was
printed and what is waiting (`Account`).

**The event loop.** `LInv` has, beside `FDInv`, that each rule is in the list at most once
and holds a handle (`Listed`, so that no wrapper of a rule can disappear), the account of
the cancellations (`Told`), where the iterator and the index are (`InStep`, which is
`Aligned` in all phases of a call), and by how much the count of the descriptor has moved
(`Counted`, for `BlamedForIdling`). `Apart` says that no two wrappers have the same
number, even when one is closed: the application of the model gives no number out twice.
`Extras` is the type of `others` and `spoiled`. `LoopStaleOnlyByCallbacks` needs more: `StillReady`
says that for each rule that the walk has yet to come to, what `poll` reported is still
so or the rule is `Spoiled`. `ServiceSpares` is the heart of it: a shutdown makes no
descriptor wait, and a read or a write spares the other direction. There is no
hypothesis on what callbacks do: `MayServe`, `MayClose`, `MayAdd` and `MayShut` are arbitrary.

**Buffers.** The loops of `buffer.cc` are `FlattenSeq` and `Min` in the model. The library's
induction theorems cannot be used with an operator, but with a set: `AllNumbers` says that
a set with 0 and every successor contains `Nat`, and each induction defines its set. So
`BufferProofs` shows what `FoldLeft` and `FlattenSeq` compute (`RunsAppend`, `FlattenAppend`,
`FlattenConcat`), where `remove_prefix` stops (`Popped`), and that it leaves the string
without its first `n` bytes (`ViewsRemove`, `ListRemove`, `RemoveKeeps`). `BInv` is the type of a
`Buffer` with the one relation of its members: one that holds a storage shows some
of it, or the storage was empty from the start.

**Packets.** For every `BASE >= 2`, every list of widths of 1, 2 and 4 bytes, all values that
fit, every payload, every cut and every chunking. `AddConcat`: adding two chunks is adding
their concatenation, which is where the parity is needed. `SumOfData` and `WordSumAppend`
relate the running sum to the definition of the checksum, `FoldRound` and `ValueIs` the loop of `value`:
each round keeps the residue modulo `WORD - 1`, gets smaller and does not reach 0. `Complement` and
`Accepted`: adding the complement of a sum to it never crosses a multiple of 2^32 and
gives the value 0, so `IntactIsAccepted` needs no limit on the data while `SumIsRight` does.
`RoundTrip`: parsing gives back what was unparsed, as no shift loses a bit; `FourBytes`: any four bytes are those of a
number. `XInv` says what the packet is made of, that the receiver's sum is that of the bytes
looked at, and that a parser without an error has taken exactly what precedes the next
field, which is why a short header cannot go unnoticed.

For the provers' sake `BASE ^ n` is written as the recursive function `Pow`, and the
values of a 16-bit word as `WORD`.

Only model-checked, as liveness is out of the prover's reach: `Delivered`, `CallReturns`,
`ClosedIsCancelled`, `EndIsCancelled`, `Terminates`. The four runs that expect a
violation state what is false.

## Not modelled

`TunFD` (one ioctl), `hexdump`, `timestamp_ms`, the random generator, `as_string`,
`Address::ip_port` and `to_string` (output, conversions by the C library and the clock);
the options and addresses that `Socket` passes to the kernel, which may accept or refuse
them; moved-from handles; a `cancel()` callback that does more than be called; callbacks
that accept connections, use `recv` or `send`, or destroy handles, and rules on
listening sockets; `append` of a list to itself, which is undefined. A `close(2)` that fails on
a number that is open (`file_descriptor.cc:22-23`: the exception leaves `_closed` unset and the
destructor closes again); the two checks of what `writev(2)` returned
(`file_descriptor.cc:83-89`), which the model's `writev` gives nothing to find; output to
`cout` that fails, which `webget.cc:15` does not look at.

## Plan

1. Done: `ByteStream` with its abstract queue, pipe and proofs; `FileDescriptor` and
   `Socket`; `EventLoop` with callbacks that add rules, serve often or shut down;
   `webget`; buffers, parser, checksum, addresses and the packet path; the proofs of
   all their safety properties.
2. To prove: the safety half of the liveness properties, that is, that the steps of a
   call of `wait_next_event` and of `webget` make progress (a measure of the rules left to
   scan and to dispatch, of the bytes left to send); what `Placement` says for a ring whose
   int arithmetic wraps.
