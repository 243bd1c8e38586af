# LibBriandIDF in TLA+

LibBriandIDF is a C++ library for ESP32 boards: a Wi-Fi manager, a plain and a
TLS socket client, and a port of the parts of ESP-IDF and FreeRTOS they use to
Linux, so that an application can be run on a desk. The repository has no tests.
What follows models its state and its steps, checks them with TLC on small
instances and proves the main results with TLAPS for every instance. Paths are
relative to the repository's root.

## The system

| part | state | operations | talks to |
|---|---|---|---|
| Wi-Fi manager, station and access point (`src/BriandIDFWifiManager.cpp` 43-69, 117-222, 293-522) | `INITIALIZED`, `STA_IF_READY`, `STA_CONNECTED`, `AP_READY`, `currentConfig`, two event registrations | `GetInstance`, `SetWifiMode`, `ConnectStation`, `DisconnectStation`, `StartAP`, `StopAP`, `StopWIFI`, `WiFiEventHandler` | the Wi-Fi driver (calls), the default event loop (callbacks on its own task) |
| Wi-Fi manager, addresses (same file, 614-735) | none of its own; the DHCP statuses and addresses of two interfaces | `SetApIPv4`, `SetApDHCPServer`, `SetStaIPv4`, `SetStaIPv4DHCPClient` | `esp_netif` |
| plain socket client (`src/BriandIDFSocketClient.cpp`) | `CONNECTED`, `_socket`, sizes and timeouts | construction, `Connect` twice, `Disconnect`, destruction; `WriteData`, `ReadData`, `ReadDataUntil`, `AvailableBytes` | the process's descriptor table; the peer |
| TLS socket client (`src/BriandIDFSocketTlsClient.cpp`) | the mbedTLS contexts, `resourcesReady`, `caChainLoaded`, `caChainFailed`, and what it inherits | `SetupResources`, `ReleaseResources`, certificate setters, `Connect`, `Disconnect`, transfers | mbedTLS, the descriptor table |
| Linux port, tasks (`src/BriandEspLinuxPorting.cpp` 230-298, 335-403) | `BRIAND_TASK_POOL`, `toBeKilled` in each handle, `CTRL_C_EVENT_SET` | `xTaskCreate`, `vTaskDelete`, `uxTaskGetNumberOfTasks`, `uxTaskGetSystemState`, the sweep of `main()`, its kill loop, the signal handler | `std::thread`, `pthread_cancel` |
| Linux port, driver stubs (same file, 87-192) | the Wi-Fi mode and the two DHCP statuses | stubs that answer `ESP_OK` | the Wi-Fi manager |
| Linux port, log levels, time, random numbers (same file) | a map from tag to level | getters and setters | nothing |
| device information (`include/BriandESPDevice.hxx`, `include/BriandESPHeapOptimize.hxx`) | none | getters; `GetSystemTaskInfo` lists the tasks | the task pool |

What is hard in it:

* **Callbacks.** `WiFiEventHandler` runs on the event loop's task and changes
  flags that `ConnectStation` waits on and reads again. Events are queued: one
  may be dispatched after the call that made it moot.
* **Waits.** `ConnectStation` waits for an interface without a timeout and for an
  address with one. `select()`, a `recv()` of no bytes and mbedTLS wait for a peer.
* **No locks.** The manager, the task pool and the descriptor table are used by
  several tasks; nothing in the library is locked.
* **Partial failure.** A TLS `Connect` has nine ways out; `SetApIPv4` stops a
  service, fails and leaves; `connect()` fails after `socket()` succeeded.
* **Erasing while walking.** `main()` erases entries of a vector it indexes while
  other threads index it as well.
* **Boundaries.** Bytes that arrive between `FIONREAD`, `select()` and `recv()`, an
  end of file or a reset at any of these, limits of zero, a buffer read before its
  result; records of TLS below and above the size of a buffer.

What makes each part correct, in short: the manager's flags say what the driver
does, and its calls return; a DHCP server that was stopped to change an address
runs again; a client uses and closes only descriptors of its own, and loses none;
a TLS object that failed is fit for the next connection; a read returns the
stream, whole and in order, and returns; a write that failed can be repeated, or
the connection is closed; a task that is deleted is cancelled, and only that.

`PROJECT.json` lists every hazard with the line where it bites and the properties
that watch it.

## The modules

### `WifiManager`

The ESP build of the manager: one application task, the event loop task, the
driver. `initialized`, `staIfReady`, `staConnected` and `apReady` are the object's
flags; `registered` is the set of events the handler is registered for; `mode`,
`started` and `link` are the driver's, `queue` the event loop's. `ConnectStation`
is an action per stretch of code between two points where the event loop can
interfere:

| action | code |
|---|---|
| `ConnectStation` | mode and configuration, 293-330 |
| `ConnectStationRegister` | the two registrations and the reset of `STA_IF_READY`, 332-350 |
| `ConnectStationStart` | `esp_wifi_start` and the check of the hostname, 357-373 |
| `ConnectStationSetHostname` | the wait for `STA_IF_READY`, 375-380 |
| `ConnectStationDial` | the deadline and `esp_wifi_connect`, 382-395 |
| `ConnectStationTick`, `ConnectStationLeave` | the wait loop, 397-402 |
| `ConnectStationSucceeds`, `ConnectStationFails` | the verdict, 404-430 |

`ConnectStation`, `StartAP` and `StopAP` decide on the mode `GetWifiMode` answers, twice
at most (`first`, `second`): the driver's, or `WIFI_MODE_NULL` when the driver's call
fails (104-115). A registration may fail as well, and the call goes on without the
handler. The constructor's `SetWifiMode` may fail: `Init` allows any mode then.

`StartAP` is two actions, since it makes two calls that can post events; every
other call is one. `WiFiEventHandler` is called by `Dispatch`. The driver is
external, modelled from how the manager uses it: it posts `STA_START` when a
stopped driver starts with the station in its mode or a started one gains the
station, `GOT_IP` when the network grants an address, `STA_DISCONNECTED` when a
link ends, `LOST_IP` when an address is withdrawn. `Upsets` says which of these,
and which errors, may happen. Two history variables state exceptions, each for errors
the code ignores: `unheard` (`esp_wifi_disconnect` failed, or the `GOT_IP` handler could
not be registered) and `meddled` (the mode or the driver was changed behind the flags:
by `StopWIFI` or `SetWifiMode`, which leave them alone, or by a call that acted on a
failed `GetWifiMode`; and whether a `StartAP` came since).

Left out: what calls answer, apart from the verdict; the random MAC address
(224-267); the text of names; the bytes of `currentConfig`; how many times an
event is registered; the private destructor; the Linux branch of
`ConnectStation` (350-353), in which there are no events.

### `IpConfig`

The four methods that set addresses and switch DHCP, by any number of tasks. A
step is one `esp_netif` call; `dhcp` is the local variable each `SetApIPv4` and
`SetStaIPv4` decides on later. Reading the information of an interface and
setting it are one step, as nothing depends on what lies between. The statuses
follow the Linux port, which has one of each whatever the interface; there no
call fails, on the ESP any may, which is `CanFail`. `failed`, `mixed`, `disabled`
and `asked` are history: the conditions under which the properties are stated.

### `DescriptorLease`, `SocketClient`, `TlsClient`, `ClientProgram`

`DescriptorLease` is what a client owes the process, whatever protocol it speaks:
it takes a descriptor nobody holds, holds at most one, gives back the one it took.

`SocketClient` is the life cycle of plain clients, one system call a step, so that
another task may be given a number between `close()` and `CONNECTED = false`.
`owner` is the descriptor table; `Others`, the other parts of the program, open
and close in it.

`TlsClient` keeps an object's fields in one record. `ReleaseResources` calls
`Disconnect`, which calls `ReleaseResources`; the recursion ends after one turn
because the flags are cleared first, and is written as composition: `Released`,
`Disconnected`, `Cleared`, `Freed` are functions on the record, and an action
applies one of them. Steps end where the object waits for the network. `given`
is history: whether the application gave a certificate that parsed, and whether a
`Connect` has failed since.
`SeedMayFail` says whether the random generator may fail to be seeded. It is FALSE
in the runs: when seeding fails `ReleaseResources` is called with `resourcesReady`
unset (`src/BriandIDFSocketTlsClient.cpp:105`) and frees nothing, so that the
contexts, and the descriptor if `Connect` goes on, are lost. With TRUE, TLC refutes
`ReadyIsTrue` in three states.

`ClientProgram` composes the two over one table. It extends `SocketClient` and
instantiates `TlsClient`; the TLS clients are among the `Others` of the plain ones and
the plain ones among the `Others` of theirs. `PlainAlone` and `TlsAlone` are the two
specifications as properties of the composition: to either kind the other is only
more of the rest of the program, so that what is proved of `SocketClient` alone
holds beside TLS clients too. Both kinds together implement one `DescriptorLease`
(`LeasesKept`), with the number an object relies on (`Relies`, `InSession`) as its
lease. For plain clients the same is `LeaseKept`. All four are proved, `LeasesKept`
where seeding does not fail.

### `ByteStream`, `PlainTransfer`, `TlsTransfer`

`ByteStream` is what a connection promises its reader: what calls return is the
beginning of what the peer sent, in order, and nothing after it was closed. Both
transfer modules implement it (`StreamKept`), with what earlier calls returned and
what the current one has so far (`got \o data`) as what was given.

`PlainTransfer` is `ReadData`, `ReadDataUntil` and `WriteData` of the plain client on
one connection. `sent` is everything the peer sent, `read` how much of it `recv()`
has returned. A step is a system call: the `recv()` of no bytes and `FIONREAD` of
`AvailableBytes` (`SizeRead`), `select()` (`SelectReady`, `SelectEnds`), `recv()`
(`ReceiveChunk`, `ReceiveByte`, `ReceiveNothing`, `ReceiveError`), `send()`
(`SendTakes`, `SendFails`, `SendBroken`); the peer may send, close or reset between
any two. On Linux bytes that had arrived are read before a reset is reported; the
reset is reported once, by whichever call meets it, and then reads end and writes
raise SIGPIPE, whose default action ends the process ("killed"). A reset that follows
the peer's close Linux does not report at all.

`TlsTransfer` is the same three methods of the TLS client. mbedTLS fetches a record
only when it holds none (`buffered = 0`), and then returns bytes of that one. A step
is a call of mbedTLS: the read of no bytes in `AvailableBytes`, whose result the code
drops; the read that follows it (`ReadChunk`, `ReadByte`, `ReadNothing`); a write. What
a read without a record may meet is the next record, the close notification, the
end of the connection, a reset or a timeout (an error on a blocking socket), or a
signal (`WANT_READ`, `WANT_WRITE`). In `ReadDataUntil` only the first matters, since it
reads when `AvailableBytes` has said there is a byte: its other branches (501-518)
cannot be reached, and have no action.

Bytes are the zero a buffer is cleared to and one other. A call to a client that is
not connected returns early and is modelled too. Time is left out: a wait that has
a timeout may end whenever there is nothing to wait for; one that has none may not.
Both clients configure their timeouts in `Connect` and nowhere else
(`src/BriandIDFSocketClient.cpp:118`, where a failure of `setsockopt()` is ignored, and
`src/BriandIDFSocketTlsClient.cpp:304`-311), so that they are constants of a connection:
`ReceiveTimeout` and `SendTimeout`, and `ReadTimeout` and `SendTimeout`. A `SetTimeout`
that comes later does not change them. The plain client's `select()` always has one
(219-227). `SetReceivingBufferSize` accepts zero, and so does `BufSize`: a read
then asks for nothing, is given nothing and takes that for the end.

### `TaskPool`

Tasks as threads: `StartThread` and `ListTask` are the two halves of
`xTaskCreate`, between which the new thread already runs, and whoever is given the
handle (244) may already delete the task. Nothing locks the pool, so a `size()`, an
`at()`, a `push_back()`, an `erase()` or a `delete` is one step:

| actions | code |
|---|---|
| `BeginDelete`, `SearchTests`, `SearchCompares`, `SearchMarks` | `vTaskDelete`, 255-274: the id, then `size()`, `at(i)` and `at(i)` again |
| `BeginList` | `uxTaskGetNumberOfTasks`, 276-279: the size of the caller's array |
| `ListCompares`, `ListSizes` | the two `size()` of line 286, the second only when the array was not the smaller |
| `ListEntry`, `ListPrints` | a name per turn, 287-295; the names printed, `include/BriandESPDevice.hxx:146` |
| `BeginSweep`, `SweepSkip`, `SweepCancels`, `SweepDestroys`, `SweepErases`, `EndSweep` | the sweep, 368-381: `pthread_cancel`, `delete` and `erase` are three steps |
| `BeginKill`, `KillCancels`, `KillDestroys`, `EndKill` | the kill loop, 389-402 |

Each indexes the pool as it is by then. An `at()` past the end throws, which nothing
catches (`Throws`). Between `SweepDestroys` and `SweepErases`, and in the kill loop, the
pool holds a destroyed handle that other threads may come upon. What they do with it is
undefined (`Undefined`): it ends the process, or the comparison has any outcome and
the mark is lost. That the block is handed out again, for another handle, before the
entry is erased is left out. A listing that writes past its array,
which it does when a task is listed between the two `size()`, ends the process or goes on.

A thread id may be handed out again once its thread has ended. `asked`, `disturbed` and
`grown` are history: whom calls of `vTaskDelete` were for; which calls had an entry
erased or a handle destroyed under them; which listings had a task listed between the
two `size()`. What a torn operation on the vector would do is undefined, and not
modelled. `MCTaskPool` is the instance.

### Not modelled

Two tasks in the manager, and the unguarded `GetInstance` (planned, below); getters,
printing, log levels, time, memory figures, the rest of `BriandESPDevice`, the examples and
the build: they change no state that anything else reads. An application that keeps a
handle the sweep has deleted and passes it to `vTaskDelete`, and the uninitialised
`res` at `src/BriandIDFSocketClient.cpp:141`, are uses of freed memory that are left out;
what a call finds of a destroyed handle in the pool is modelled, as anything.

## The runs

Each `.cfg` names its module's `Spec` and gives values to its constants.

| run | what it shows |
|---|---|
| `WifiManager` | with all six calls, every hostname kind and every upset, failed readings of the mode and failed registrations included: no lease is missed (`LeaseIsSeen`), but one that came while the handler could not be registered; an access point that is reported ready is served (`ApReadyIsServed`); `StopAP`, and a `StartAP` that reads the mode right, never cut a connected station off (`ApCallsKeepStation`); a hostname is set on an interface that is up and not on the word of an older event (`HostnameAfterStart`); every call returns but a `ConnectStation` that waits to set its hostname (`CallsReturn`) |
| `WifiManager_stale` | `IsConnectedIsTrue` is violated: `IsConnected` outlives the connection |
| `WifiManager_hang` | `ConnectStationAnswers` is violated: the second `ConnectStation` with a hostname waits for ever |
| `IpConfig` | three tasks, any call may fail: the server that was stopped comes back unless switched off or a call failed (`ServerComesBack`); calls that do not overlap leave it as asked (`ServerAsAsked`), and change the address only while it is off (`AddressWhileStopped`) |
| `ClientProgram` | two plain clients, a TLS client and the rest of the program share the table, and every step of a call that can fail may, but the seeding of the generator: a plain client owns what it relies on and nothing else (`OwnsWhatItUses`); `resourcesReady` tells whether there are contexts to free, no way out leaves a TLS object half open, a chain that must verify is there; neither kind disturbs the other (`PlainAlone`, `TlsAlone`); all keep one lease (`LeasesKept`) |
| `TlsClient_forgets` | `GivenChainVerified` is violated: a certificate is given, a `Connect` fails, and the session the next one opens does not verify |
| `PlainTransfer` | reads return the stream (`StreamKept`), take nothing past the stop byte and report it (`StopEndsData`), leave nothing behind that had arrived (`NotTruncated`); data a write answered false for can be written again (`RetryIsSafe`); where `Connect` set the timeouts, every call ends or takes another byte (`CallsReturnOrRead`): only a peer that never stops sending keeps one for ever |
| `PlainTransfer_hang` | `ReadsTimeOut` is violated where `Connect` had no `IO_TIMEOUT_S` to set: the `recv()` of no bytes comes before the `select()` that has a default timeout |
| `TlsTransfer` | the same stream; `ReadData` leaves no part of a record in mbedTLS (`NothingLeftBuffered`); an empty answer on a connection that stays open is the end of the stream (`EmptyIsEnd`), although `AvailableBytes` drops what it meets; a write that may have left half a record closes the connection (`FailedWriteCloses`); where `Connect` set the timeouts, every call ends, takes another byte or is interrupted once more (`CallsReturnOrRead`) |
| `TlsTransfer_truncates` | `FinishedMeansAll` is violated: `ReadData` stops at the first record that fits its buffer and leaves those behind it |
| `TaskPool` | the pool holds each listed task once, and a destroyed handle only until the sweep erases it (`PoolExact`); a `vTaskDelete` under which nothing is erased or destroyed marks its task and no other and does not throw (`UndisturbedDelete`); a listing under which nothing is stays in the pool and in order, and one overruns its array only when a task was listed between its two `size()` (`UndisturbedListing`); the sweep reaches what is marked although it skips an entry after each it erases (`MarkedAreSwept`); the kill loop stays within the pool (in `TypeOK`) |
| `TaskPool_bystander` | `OnlyAskedAreCancelled` is violated: the sweep erases between the two `at(i)` of a `vTaskDelete` |

Every property of a passing run has a mutant of the code, defined in the module
before the definition it replaces, under which TLC finds it violated.

### Bounds, and why they are enough

* `WifiManager`: `MaxTimeout = 2`, so a wait runs into its deadline after no, one
  or two turns; `MaxQueue = 3` holds an event of each of three causes, so that a
  stale one can be in front of the one that matters (a full queue blocks whoever
  posts, as `esp_event_post` does).
* `IpConfig`: three tasks, so that a pledge to restart may pass from one to another
  and on; two addresses, so that a change can be seen.
* `ClientProgram`: two plain clients, a TLS client, one other and two descriptors:
  a number one gives back is at once given to any of the other three, and there are
  fewer numbers than takers. TLS clients meet each other only through the table, as
  they meet the plain ones.
* `PlainTransfer`, `TlsTransfer`: four bytes and a buffer of two give a full chunk, a
  short one and one after; `Limits = {0, 3}` a limit at the boundary and one inside;
  writes of none and of two bytes, the latter short or whole. TLS records have one,
  two and three bytes, so below, at and above the buffer; one system call is
  interrupted by a signal (`MaxInterrupts`), at any of them.
* `TaskPool`: two tasks besides `main()`, two ids: the entry after an erased one is
  skipped, an index goes stale under a search, an id is reused.

`CHECK_DEADLOCK FALSE` is said where the system does stop: the manager waits for
ever at line 377, the program of the task pool ends after Ctrl-C or an exception,
and nothing more is read from a peer that has closed once the client disconnected.

### Fairness

`WifiManager`: a call that has begun keeps running (`StationStep`,
`StartAPStart`), and the event loop keeps dispatching; both are tasks of their
own under a preemptive scheduler. The network owes nothing: an address need not
be granted. `PlainTransfer`, `TlsTransfer`: the task in a call keeps running, as a
system call returns at its timeout at the latest where one is set, and cannot
return where none is; the peer owes nothing. Signals do not come for ever, which
is a bound and not fairness. `TaskPool`: `main()` loops; the other threads may
stop anywhere, no task need return, Ctrl-C need not come. The other modules have safety properties only and no fairness.

### Disagreements

Six runs show the code doing what a comment or the documentation says it does
not; `PROJECT.json` quotes the lines. Others that were met while modelling, and
have no run of their own:

* `DisconnectStation` clears `STA_CONNECTED`, and a `GOT_IP` event still queued sets
  it again (`src/BriandIDFWifiManager.cpp:444`; `IsConnectedIsTrue` excludes it too);
* `StopWIFI` leaves `AP_READY` and `STA_CONNECTED` (518);
* neither event registration is ever removed (386, 413), and whether one succeeded is
  not looked at (342, 348): without it an address is granted and not seen, and a
  `ConnectStation` with a hostname waits for ever;
* `GetWifiMode` answers `WIFI_MODE_NULL` when the driver's call fails (113), on which
  `StartAP` asks for the access point alone and cuts a connected station off (457), and
  `ConnectStation` for the station alone under an access point reported ready (303);
* `ConnectStation` does not stop the driver before it starts it (357), and after
  `StartAP` hands it a union with the access point's fields in it (326);
* `SetStaIPv4` asks for the status of the DHCP server instead of the client (687), and
  `SetApIPv4` leaves the server stopped when it fails (646);
* `ReadDataUntil` returns the stop byte, returns data on end of file and errors,
  reads a byte with limit zero, and leaves `found` alone when not connected
  (`src/BriandIDFSocketClient.cpp:326`, 317, 329, 274); when `recv()` fails it compares
  the buffer it cleared with the stop byte, so that a stop byte of zero is reported
  as found (321);
* `WriteData` reports success when `send()` took part of the data (176) or mbedTLS took
  the first record's worth (`src/BriandIDFSocketTlsClient.cpp:404`);
* a receiving buffer size of zero, which `SetReceivingBufferSize` accepts (86), makes
  every `ReadData` return nothing from an open connection;
* a timeout set after `Connect` bounds the plain client's `select()` and no `recv()`,
  `send()` or read of mbedTLS (118, `src/BriandIDFSocketTlsClient.cpp:304`);
* an error or a reset that `AvailableBytes` meets is dropped (557): `ReadDataUntil`
  answers with what it has and the client stays `CONNECTED` on a dead connection; a
  response that arrives in parts costs `ReadData` the timeout and the connection;
* "Wait" (447, 502) does not wait: the `continue` goes to the loop condition, which ends
  a `ReadData` of one chunk;
* a TLS context is not freed when the generator cannot be seeded (105), though the
  destructor is to release "every resource" (`include/BriandIDFSocketTlsClient.hxx:98`);
* a task that is deleted before `xTaskCreate` has listed it, by itself or by the holder
  of its handle (`src/BriandEspLinuxPorting.cpp:240`, 244, 248), is never marked, and a
  task created during the kill loop is not killed (389);
* a task listed between the two `size()` of line 286 makes the listing write past the
  array its caller sized.

## The proofs

Each `*Proofs` module extends the module it is about. TLAPS checks these for every
value of the constants that the named assumptions allow; the run of the module shows
the property on a small instance. An invariant that a proof adds was checked by TLC on
that instance before it was proved.

| theorem | says | by |
|---|---|---|
| `WifiManagerProofs!TypeCorrect` | `TypeOK`, the queue's bound included | `TypeOK` is inductive; what the driver does for any call is summed up once, as `DriverStep` |
| `WifiManagerProofs!LeaseSeen` | `LeaseIsSeen` | `LeaseInv` |
| `WifiManagerProofs!ApServed` | `ApReadyIsServed` | `ServedInv` |
| `WifiManagerProofs!ApKeepsStation` | `ApCallsKeepStation` | `LinkInv` |
| `WifiManagerProofs!HostnameInTime` | `HostnameAfterStart` | `StartInv` |
| `IpConfigProofs!TypeCorrect`, `ServerReturns` | `TypeOK`; `ServerComesBack` | `ServerInv` |
| `IpConfigProofs!ServerLeftAsAsked`, `AddressChangesWhileStopped` | `ServerAsAsked`; `AddressWhileStopped` | `ApartInv` |
| `DescriptorLeaseProofs!LeaseIsExact` | a client relies on a descriptor exactly while it is open for it | `LeaseInv` of that module |
| `SocketClientProofs!TypeCorrect`, `Ownership` | `TypeOK`; `OwnsWhatItUses` | `IInv` |
| `SocketClientProofs!ImplementsLease` | `Spec => L!LeaseSpec` | `IInv`; every step is a step of the lease or a stutter |
| `ClientProgramProofs!TlsTypeCorrect` | `TlsTypeOK` | `TlsIInv` |
| `ClientProgramProofs!PlainUndisturbed`, `TlsUndisturbed` | `PlainAlone`; `TlsAlone` | `IInv` and `TlsIInv` |
| `ClientProgramProofs!PlainOwnership`, `PlainKeepsLease` | `OwnsWhatItUses` and `LeaseKept` beside TLS clients | `PlainUndisturbed` and the theorems of `SocketClientProofs` |
| `ClientProgramProofs!ReadyTrue`, `NoneHalfOpen`, `ChainThere` | `ReadyIsTrue`; `NothingHalfOpen`; `ChainIsThere`, when seeding does not fail | `SeededInv` |
| `ClientProgramProofs!OneLease` | `LeasesKept`, when seeding does not fail | `SeededInv` and `LeasesExact`; every step is a step of one client's lease |
| `PlainTransferProofs!TypeCorrect`, `StopEnds`, `RetrySafe` | `TypeOK`; `StopEndsData`; `RetryIsSafe` | `IInv` of that module |
| `PlainTransferProofs!ReadsAll` | `NotTruncated`, but for a buffer of no bytes | `IInv`; what each way out of `ReadData` has seen |
| `PlainTransferProofs!ImplementsStream` | `Spec => S!StreamSpec` | `IInv`; a `recv()` delivers, every other step is the peer's, a close or a stutter |
| `TlsTransferProofs!TypeCorrect`, `StopEnds`, `NothingLeft`, `EmptyMeansEnd`, `FailureCloses` | `TypeOK`; `StopEndsData`; `NothingLeftBuffered`; `EmptyIsEnd`; `FailedWriteCloses` | `IInv` of that module |
| `TlsTransferProofs!ImplementsStream` | `Spec => S!StreamSpec` | the same; a call of mbedTLS that returns bytes delivers |
| `TaskPoolProofs!TypeCorrect`, `PoolIsExact`, `ListingIsExact` | `TypeOK`, with the bound of the kill loop; `PoolExact`; `UndisturbedListing` | `IInv` of that module |
| `TaskPoolProofs!DeleteIsExact` | `UndisturbedDelete` | the same |

Why the invariants are needed:

* `LeaseInv`. A lease is seen because the `GOT_IP` handler is registered before the
  station is asked to join (or its failure is remembered, `unheard`) and never removed, and because the two events whose
  handling clears the flag are never registered for. Each is a conjunct.
  The step to watch is `Dispatch`: it must not take the `GOT_IP` event without
  setting the flag, nor clear the flag on any other.
* `ServedInv` adds that between its two steps `StartAP` has the access point in the
  mode.
* `LinkInv`: a link exists only on a started driver whose mode has the station,
  so that the mode `StartAP` computes from it never drops it, and what `StopAP` computes
  from any answer does not.
* `StartInv`: while nobody meddled the station stays in the
  mode, so that a driver announces it once (`OneStart`), and an announcement that was
  handled leaves none in the queue (`Unmeddled`). When `ConnectStation` stops
  waiting for `STA_IF_READY`, the event it saw is therefore that of the interface as
  it is now.
* `ServerInv`: while the server is off, and nobody switched it off and no call
  failed, some call has found it running and has yet to start it. The caller that
  starts it fulfils its pledge, whatever the others found.
* `ApartInv`, for calls that do not overlap: the one call there is stopped the server
  if it found it on, what it found is what the application last asked for, and a server
  that is not as asked has a call about to restore it. It says what holds between a
  call's steps, of which `ServerAsAsked` speaks only when all are done.
* `IInv` of `SocketClientProofs` adds to types and ownership how `CONNECTED` and the
  object's place agree (`FlagsAgree`), which tells at each `close()` that the number
  in `_socket` is still the object's own.
* `TlsIInv`: the number in a TLS object's network context, when there is one, is the
  object's own (`FdIsOwn`). With that a release closes nothing of another's, which is
  what makes each kind of client a part of the rest of the program to the other. It
  holds whether or not seeding fails: what a failed seeding loses is lost to
  the process, and hurts no other client.
* `SeededInv` is what is known when seeding does not fail: `resourcesReady` is equivalent
  to there being contexts, a chain lives in a ready object, a context is set up and a
  descriptor held only in a session or on the way to one (`Whole`), and every
  descriptor of a client is the one in its field (`FdKept`). The theorems that rest on it
  state the hypothesis, `~SeedMayFail`: TLC refutes each of them without it. After a
  failed seeding an object may hold contexts without the flag, and if the application then
  gives it a chain, the next `Connect` sets the contexts up over the chain and leaves
  the flag that says it is loaded.
* `LeasesExact`: what every client relies on can be read off the descriptor table. A
  step of a client changes the table only where it is free or the client's own
  (`OwnStep`), so that it changes only that client's lease, by one number.
* `IInv` of `PlainTransferProofs`: what was returned is exactly the first `read` bytes of
  the stream (`Given`), and in each place of a call what that call may have done so far
  (`CallInv`): a write has sent nothing, a search has not met the stop byte and
  asks for one byte.
* `IInv` of `TlsTransferProofs` is the same, with what ties the stream to its
  records: the last record ends where the stream does (`LastRecord`), and what mbedTLS
  holds is the rest of the next one (`RecordsOK`). That a `ReadData` leaves nothing buffered
  rests on its ending only when what mbedTLS held before the read fits the buffer,
  so that the read took it, or when mbedTLS held nothing. The next record
  ends at the least bound ahead; that there is a least one is `SmallestElement`, from
  the well-foundedness of the order on numbers.
* `IInv` of `TaskPoolProofs`: a task in the pool was started and is no longer
  on its way there (`Born`), so that none is listed twice; what a search that nothing
  disturbed has behind it did not match, and what it is at is in the pool and
  does, once compared (`SearchExact`); under a call that nothing disturbed no handle in
  the pool is destroyed (`LiveUnderCalls`); what a listing has taken is a beginning of
  the pool (`NamesExact`); and, disturbed or not, it stays in its array unless a task
  was listed between its two `size()` (`ArrayGood`). `Places` has the sweep at an entry
  of the pool while it cancels, destroys and erases it. The erased sequence is described once (`ErasedEntries`,
  `InErased`), the appended one likewise.

Assumptions. The constants are constrained only by the named `ASSUME` of each module, which
the runs evaluate: sets of values are of the kind their names say, markers such as `Unset`,
`NoId` and `Nobody` are not among them, and sizes and bounds are numbers. A receiving buffer
may have no bytes, as in the code: `NotTruncated`, `NothingLeftBuffered` and `EmptyIsEnd`
except that case in their statement. `DescriptorLease` has its assumption as a hypothesis of its theorem, since it is only
ever instantiated: a client is not one of the others and neither is its marker of a
closed descriptor; the modules that refine it assume the same of their constants.
`ClientProgram` adds that the TLS clients are among the others of the plain ones, which is how it
composes the two.

Only model-checked: liveness (`CallsReturn` of `WifiManager`, `CallsReturnOrRead` of
`PlainTransfer` and `TlsTransfer`; `MarkedAreSwept` of `TaskPool`), since the prover does not reason about
fairness and `ENABLED`. Every other property of a passing run is proved. The properties
of the violation runs are false, and are refuted by TLC. Two more
limits shape the modules: what a recursive definition computes for all inputs cannot be
proved (no induction over data), and a module with a `RECURSIVE` operator cannot be
proved about at all; no module here has one, and none computes by recursion.

## Plan

Done: the inventory, the modules above, and a theorem for every safety property, action
property and refinement that a passing run checks. What is left:

1. Two application tasks in the manager: the unguarded `GetInstance`
   (`src/BriandIDFWifiManager.cpp:45`) and calls that interleave; the random MAC, which
   the driver takes only on an interface that is down (241).
2. What is true where the violation runs say what is not: a chain the application gave is
   verified unless a `Connect` failed since; `IsConnected` is true of a
   connection unless it ended while no call was in progress; a call of `vTaskDelete` that no
   sweep disturbs cancels the task it was asked for. Each has a condition for which a
   history variable exists or is easily had.
3. The safety half of liveness: in each place of a call one of its steps is possible
   unless it waits for a peer that owes nothing, stated without `ENABLED` as the
   disjunction of the steps' guards.
