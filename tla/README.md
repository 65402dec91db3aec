# Formal models of the gk7102 audio device

gk7102 is the program of a small talking speaker: it plays music through a player
daemon, wakes up on a keyword, records a question, sends it to a dialogue service and
speaks the answer, and it is driven by keys and, over MQTT, by a phone. This directory
holds TLA+ modules that model its core, the TLC configurations that check them on small
instances, and theorems about them that TLAPS has proved.

1. Inventory
2. Modules, and how they correspond to the code
3. Runs: what is checked, with which bounds
4. Fairness and deadlock
5. Proofs
6. Disagreements found
7. What is not modelled
8. Plan

Source paths below are relative to `src/src/`.

## 1. Inventory

The process has many threads: the main thread, the key thread (`main.c`
`key_callback_func`), the MQTT thread (`sub_client.c`), the report thread of the player
library, the event thread (`event_interface.c`), the dialogue service's own thread
(`ray_dds.c`), the voice logic thread (`vr/vr.c`), and short-lived threads for answers.
They share C globals, some of them under a mutex and many not.

| component | state | operations | talks to | correct when |
|---|---|---|---|---|
| linked list, `molib/linklist.c` | nodes, `head`, `tail`, `len` | insert, delete, sort, reverse, destroy | the play list | it is the sequence its users think it is; nothing leaks |
| play list, `molib/musiclist.c` | the songs, `current_index`, `max_index`, play mode | insert, delete, select, previous, next, copy, clean | the music player | the index points into the list, the current song stays current, the limit holds |
| player library, `molib/player_interface.c`, `command.c`, `tcp.c` | two sockets to the daemon, a report thread, `player_internal_mutex` | get and put a handler, commands, requests | daemon, music player | a thread reads its own answer; nothing runs on a freed handler; a daemon that dies is survived |
| music player, `mozart_musicplayer.c` | `musicplayer_mutex`, owner, list, autoplay flag, last status | start, stop, list edits, play, toggle, status callback, startup, shutdown | keys, phone, misc, daemon, shared memory | one owner at a time; what plays is the owner's current song; who lets go leaves silence; no wait is for ever |
| shared memory, `molib/libsharememory` | one status per domain, a file lock | get, set, active domain | music player, keys, misc | the domain says what is playing |
| events, `molib/event-manager` | the manager's tables `conn_fd` and `event_fd`, one connection per receiver, one per event sent | register, send, distribute, keys and uevents, reconnect | music player, misc, input devices | nobody receives what was not sent, or anything twice; a send returns; a connected receiver gets what is passed on |
| MQTT library, `mqtt_lib` | both message lists, `inflight_messages`, the packet queue, connection and ping state | connect, publish, read, write, retry, keepalive, reconnect | phone connection (`sub_client.c`), broker | the window of messages under way is kept; delivery is what the quality of service promises; a dead connection is given up |
| voice logic, `vr/vr.c`, `vr/asr.c`, `vr/aec.c`, `modules/ray_module_vr.c` | `vr_next`, `vr_status`, the stop and break flags, `ai_vr_info`, the microphone | wake-up, recording, waiting, reply, interruption | service, keys, music player | sessions end, an interruption interrupts and returns, the microphone is closed |
| service client, `ray_dds.c` | `is_txt_input`, `is_dui_response`, `ai_vr_info` | callbacks of the service, text query | voice logic | an answer reaches the request it answers |
| start and stop, `ray_app.c`, `vr/ai_vr.c` | what is running | `startall`, `stopall` | all | nothing of the old run is left in the new |
| phone commands, `ingenicplayer/ingenicplayer.c`, `sub_client.c` | none of its own | add, replace, delete, play, song information | music player | the song asked for is the song played |
| suppliers, `song_supplyer/speech.c`, `modules/mozart_module_cloud_music.c` | none of its own | turn an answer into a list and play it | music player, service | one answer's songs make one list |
| keys, `main.c`, `ray_key_function.c` | press times, `KEY_ALL`, `time_cnt1`, `saoma_info`, `wait_wifi_flag` | short and long presses, the network configuration | player, voice logic, camera, network manager | a press acts at most once; the keys come back (they do not always, section 6); a network that was scanned is asked for |
| answers, `vr/slot*.c`, `vr/content.c` | strings in `ai_vr_info` | copy from JSON, free | service client, reply | no string is freed while it is spoken |
| camera and intercom, `camera/` | video pipeline, audio queues | driver calls; the scan of a network code | keys | surveyed in section 7 |
| `adi`, `pcm.c`, `libini`, `libutils`, `liburl`, network manager client, `appserver.c` | - | - | - | vendor, third-party or plain I/O code (section 7) |

What makes it hard: the music player holds its mutex over a ten-second handshake and over
a five-second wait for a report that another thread delivers; that other thread needs the
same mutex in its callback; the owner, the domain and the last status are written by
three threads; the voice logic shares one structure (in which a union is overlaid) and
six plain flags between four threads, clears flags others have just set, and calls back
into code that waits for itself; the player daemon, the event manager and the broker's
connection may die at any time; and counters that two threads share (`time_cnt1`,
`inflight_messages`) decide whether anything goes on at all.
`PROJECT.json` lists these hazards at their lines with the property that covers each.

## 2. Modules

| module | models | remarks |
|---|---|---|
| `MusicListOps` | the functions of `musiclist.c` as operators on a record | no variables; shared by the next two |
| `MusicList` | a play list and a copy of it, one action per call | |
| `MusicListProofs` | theorems about `MusicList` | |
| `LinkList` | `linklist.c` on heap nodes | pointers are model values |
| `LinkSeq` | what a list promises: a sequence | abstract; `LinkList!SeqSpec` |
| `LinkListProofs` | theorems about `LinkList`, and the refinement | |
| `MusicPlayer` | `mozart_musicplayer.c` with its callers, report thread and misc thread | uses `MusicListOps` |
| `MusicService` | what the player promises: one owner, its list, its song | abstract; `MusicPlayer!ServiceSpec` |
| `MusicPlayerProofs` | theorems about `MusicPlayer`, and the refinement | |
| `PlayerChannel` | the player library with a daemon that dies | |
| `PlayerChannelProofs` | theorems about `PlayerChannel` | |
| `VoiceLogic` | `vr.c`, `asr.c`, `aec.c`, the reply callback, the service client, start and stop | |
| `VoiceLogicProofs` | theorems about `VoiceLogic` | |
| `MqttClient` | `mqtt_lib` as `start_mqtt` runs it, a broker, and a connection that breaks or stalls | |
| `MqttDelivery` | what the library promises whoever publishes | abstract; `MqttClient!DeliverySpec` |
| `MqttClientProofs` | theorems about `MqttClient` | |
| `EventManager` | `event_manager.c` and `event_interface.c` in the processes it serves | |
| `EventBus` | what the manager promises: order, no duplicate, nothing invented | abstract; `EventManager!BusSpec` |
| `EventManagerProofs` | theorems about `EventManager`, and the refinement | |
| `Keys` | the key thread, its debouncing threads, the network configuration | |
| `KeysProofs` | theorems about `Keys` | |
| `MC...` | instances for TLC: finite sets, symmetry | |

How the players fit together: `MusicPlayer` sees the library of `PlayerChannel` as a
daemon that takes commands in order and reports each change; `PlayerChannel` shows when
that is so, and its `ToldIsSent` when it is not. `VoiceLogic` sees the music player
only as the place where the reply may wait (`mozart_play_pause`). `Keys` ends where the
calls into those two begin, and `MusicPlayer` counts the events that `EventManager` carries.

Conventions. A step of a model is what the code does between two points where another
thread can see or change shared state: a section under a mutex that never waits is one
action; a wait inside a section splits it and the mutex stays held; what is read or written
outside a lock is a step of its own. `pc` says where a thread is. Timeouts may fire
whenever the thing waited for has not been seen. Operators whose name begins with `Bug`
are plausible wrong variants of the operator after them: each is used to see that a
property notices it, and none is part of a specification.

**MusicListOps, MusicList.** A song is its identity; `list.songs` is the list,
`max_index` and `current_index` are the fields of `struct music_list`, and `mode` is the
play mode. Shuffle picks any index. `Insert` includes the eviction of the oldest song,
`DeleteIndex` the move of the index.

**LinkList.** `heap`, `head`, `tail` and `len` are the C structure; an action allocates,
links and frees nodes as the function does. `sort` is the code's selection sort into a
second list. The constant `Calls` names the functions used.

**MusicPlayer.** `uuid` is `current_player_handler.uuid` ("invalid": no owner), `domain`
the status of `MUSICPLAYER_DOMAIN`, `events` the "play" events on their way to misc,
`evtype` the type that stays in the static event, `snapshots` the reports on their way.
Threads are the `Callers`, `recv` and `misc`. The places under the mutex are `poll` (the
ten-second handshake), `played` (the url is sent, `autoplay_flag` not yet set), `stop_halt`
and `shut_halt` (the flag is cleared, the stop command not yet sent), `stop_wait`, `shut_wait`
(the five-second wait of OSS) and `shut_join`. `mozart_musicplayer_stop_playback` does the same
without the mutex, at `halt` and `halt_wait`, and the callback's write of the domain and of the
status are two steps, at `cb_other` and `cb_unknown`. The daemon begins
a song, ends it, fails it, or is taken by another user.

**PlayerChannel.** `sync` and `async` are the two descriptors, `cmds`, `answers` and
`reports` what is in the sockets, `rec` the report thread. The report thread looks at the
stop flag only after 200 ms of silence, and tries `player_internal_mutex` before it reads.

**VoiceLogic.** `next`, `status`, `working`, `init` are the `vr_` variables; `from` and
`state` are `ai_vr_info`, whose union is one integer that means different things to
different readers. `pc` follows `vr_logic_func` into the recorders and the reply. Every write of a flag
that another thread writes or reads is a step: the three that `ray_asr_start` clears, those of
`ray_vr_stop`, and the status and the flags of an interruption, also of the reply's own. `speech`
and `text` are what the service still owes, `dds` its thread between writing
`ai_vr_info` and telling, `ctl` the thread in `startall` or `stopall`, `brk` the threads
in `ray_vr_asr_break`.

**MqttClient.** `out` is `out_messages` with the state each message is in ("invalid": it
waits for its turn), `inflight` its counter, `in` the QoS 2 messages not yet released, and
`outp` the packets that the socket has not taken. `sock`, `state`, `ping` and `idle` are
`mosq->sock`, `state`, `ping_t` and whether the keepalive time has passed. The `b...`
variables are a broker that behaves as MQTT 3.1 says; `wire` is the TCP connection ("cut":
the next read or write fails; "stalled": nothing ever arrives) and `c2b`, `b2c` what is on it,
of which a loss keeps a prefix. A failing write fails the function that caused it, as in the
code, with everything that function had already done. `published`, `told`, `delivered` and
`arrived` are history.

**EventManager.** `fds` are the manager's descriptors, with the kernel's rule that the lowest
free number is given out, because the code keeps numbers it has closed; `conn_fd` and
`event_fd` are its tables, and `dist` says where either thread is in `distribute_event`.
`queue` holds connections not accepted yet, and `inbox` what is in each connection. `posted`
and `got` are history: events are numbered by their source, which the code's are not. The
model leaves out a process that dies between an event and its answer.

**Keys.** A press time is the number of the press, and nothing in the model knows how long a
button is down: every release may be short or long. `timer` are the threads in
`timeout_func`, whose decrement is a load and a store of an int that wraps round. `scan` and
`waiter` are the threads of each network configuration. The key thread may read its next
message before a thread it created has run. A code without `#` is copied from a null pointer
(`gk_main.c:214`), and all threads are gone then.

`PROJECT.json` maps every definition to its lines.

## 3. Runs

| run | question | bounds and why they are enough |
|---|---|---|
| `musiclist` | does the play list keep index, current song and limit, through every order of calls, and does it copy itself faithfully? | 3 songs, lists of up to 3, limits none, 0, 1 and 2: deletions before, at and behind the current song, full lists and limits set below the length |
| `linklist` | does the heap structure act as a sequence, without a leak? | 4 nodes, with two data of equal rank: first, inner, last and only node, and a tie to sort; addresses are symmetric |
| `player_calls` | one caller and the two service threads: is what plays the owner's current song, is a released player silent, is the whole a `MusicService`? | 6 calls, 2 songs, one song end or failure or takeover: enough for start, insert, insert, play, stop, start; failing sends and connections, both answers, OSS waits |
| `player_progress` | with two callers at once: domain and handshake, does the mutex always become free, does the next song follow? | 3 calls each of start, insert, play, stop playback and stop, one song and one song end, failing stop commands, OSS waits: each caller can start, insert and play or stop while the other holds the mutex |
| `channel` | does the library keep answers apart, survive deaths of the daemon, end its requests and its puts? | 2 clients, a socket for 2 commands, 2 reports in a burst, 2 deaths: a death while reconnecting after a death |
| `voice_logic` | does the reply ever wait for itself, who leaves the microphone open? | 1 interrupting thread, key, query, restarts; 1 poll before a timeout: the boundary itself is what matters. The theorems hold for any number of interrupting threads |
| `voice_progress` | do sessions end and interruptions return? | 1 interrupting thread, key, restarts |
| `voice_timeout` | is a timeout treated as one? (it is not) | 1 interrupting thread |
| `mqtt` | are window, connection order and delivery kept, and does everything end, whatever happens to the connection? | 2 messages out, 1 in, several mixes of quality of service with sessions kept and not, a window of 1, a socket for 2 packets, 1 loss and 1 time that passes for some of the messages: one message waits while the other is under way, packets are queued and written in part, and a retry meets a reconnection |
| `events` | does the manager pass on what was sent, once and in order, and does nobody wait for ever? | 1 process that may start three times, 1 device, tables of 2, 5 descriptors, connections that hold 1 message, 1 crash of the manager: enough to fill `conn_fd`, close it and give its numbers to a sender. With two processes and without crashes `TypeOK` and `BusSpec` hold as well (627,000 states) |
| `keys` | does a press act at most once, do the keys come back after a press that one thread debounces, is a scanned network asked for? | 2 buttons, 2 presses, a socket for 2 messages, 2 configurations, a debounce count of 1 and 2 instead of 3 and 10, an int of -3 to 2: a press is dropped, a message is lost, and the second configuration meets each stage of the first |
| `keys_overlap` | do they always come back? (they do not) | the same with 1 configuration; two debouncing threads |

What the properties say:

* `IndexInv`, `CurrentKept`, `LimitKept`, `PrevNextInverse`, `CopyFaithful` (`MusicList`):
  the index stays in the list or at most one place outside it; inserting, evicting or
  deleting another song does not change the current one; a list within its limit stays in
  it; next and previous undo each other except in shuffle; a copy equals its original.
* `WellFormed` (`LinkList`): `TailIsLast`, `LenIsLength` and `NoLeak` at once. `SeqSpec`:
  refinement of `LinkSeq`.
* `LockHeld`: the mutex is held exactly by the thread that is at a place where it must be,
  so every early return gives it back once. `ChosenIsCurrent`: the song announced before
  the handshake is still the owner's current song after it. `ReleasedIsQuiet`: while nobody
  owns the player nothing of ours plays and the list is empty, unless a stop command could
  not be sent. `NoFalseActive`: when all is quiet, the domain claims music only if there is
  some. `AnsweredOwner`: every owner does the handshake (except after a shutdown, which
  does not reset the flag; the property excludes it by name). `ServiceSpec`: refinement of
  `MusicService`. `LockReleased`, `MusicGoesOn`: progress.
* `NoCallbackAfterFree`, `AnswerIsOwn`, `RequestEnds`, `ReportsResume`, `PutEnds`
  (`PlayerChannel`).
* `Window` (`MqttClient`): the messages under way are the oldest ones, as many as the limit
  allows, and the counter counts them. `ConnectFirst`: nothing of an old connection precedes
  CONNECT on a new one. `DeliverySpec`: refinement of `MqttDelivery`: `on_publish` once, for
  QoS 1 (and QoS 2 in a kept session) after the arrival, QoS 2 arrives once. `OutEnds`,
  `StallEnds`: progress.
* `BusSpec`: refinement of `EventBus`. `SendEnds`: `mozart_event_send` returns. `Delivered`: a
  receiver that is connected when an event is passed on gets it or loses its connection.
* `OnceEach`, `AloneComesBack`, `ScannedIsSent` (`Keys`): a press acts at most once, also when
  the last message is processed again; ignored keys are taken again later, whatever is dropped
  meanwhile, unless two debouncing threads run at the same time; a network the camera has read
  is asked for unless a new configuration starts. The last two end with the program.
* `NoSelfWait`: when the reply, on the logic thread, waits for `asr_stopped`, the flag is
  already set; it is a close thing, kept only because the reply of a recording comes after
  its end and only the next `ray_asr_start` clears the flag. `MicHeld`: outside a recording
  the microphone is open only after a break. `SessionEnds`, `BreakReturns`: progress.

Every passing property has at least one mutant in `PROJECT.json`, a wrong variant of a
mapped definition that makes TLC refute it.

## 4. Fairness and deadlock

*MusicPlayer.* Weak fairness of every thread that has begun something, of the report and
misc threads and of the daemon beginning a song it was told to play. No caller has to
call and no song has to end. The waits are loops with a counter (lines 362-377, 729-739),
so they end.

*PlayerChannel.* Weak fairness of the threads, of the daemon serving and being started
again (the device's init does), and of the 200 ms of silence, which come because reports
are sent about once a second: `MaxBurst` bounds how many come closer together. Strong
fairness of `Recv`: the report thread retries the mutex every 100 ms while calls hold it
for milliseconds.

*VoiceLogic.* Weak fairness of the logic thread, of the service's thread finishing a
callback, of `startall` and `stopall`, and of `VadEnd`: the user stops speaking at some
point and the detector reports it. Strong fairness of `BreakReturn`: it polls every 10 ms
while `asr_stopped` stays set for the seconds a reply takes. Nothing is assumed of wake
words, keys or the service's answers.

*MqttClient.* Weak fairness of the loop's reading, writing, housekeeping and reconnecting
(`mosquitto_loop_forever` does them in turn), of a broker that answers, and of the keepalive
time passing on a connection that has fallen silent. Nobody has to publish; losses are bounded,
so a connection lasts in the end.

*EventManager.* Weak fairness of the manager's threads, of a receiver reading and
reconnecting, and of a send that has begun. No process has to start or send, and the manager
does not have to be started again.

*Keys.* Weak fairness of every thread of the process. Nobody has to press a key or to show
the camera a code.

`CHECK_DEADLOCK FALSE` stands in the runs where the system may stop: callers have a
bounded number of calls and a device may then rest; `VoiceLogic` may crash (a null pointer
is read) or wait for a wake word that never comes; in `mqtt`, `events` and `keys` messages,
events and presses are bounded. `musiclist`, `linklist` and `channel` check deadlock.

## 5. Proofs

| theorem | statement | argument |
|---|---|---|
| `MusicListProofs!TypeCorrect`, `IndexSound` | `Spec => []TypeOK`, `Spec => []IndexInv` | lemmas on the length and the index that `Insert`, `DeleteIndex` and the selections return; every action uses one of them |
| `MusicListProofs!LimitNeverExceeded`, `CurrentSongKept` | the two action properties | from the same invariant: an eviction precedes the append, and an index above the deleted place moves down with its song |
| `MusicListProofs!PrevUndoesNext`, `CopyKeepsCurrent` | `[]PrevNextInverse`, `[]CopyFaithful` | below |
| `LinkListProofs!WellFormedHolds`, `ImplementsSeq` | `"index" \notin Calls => (Spec => []WellFormed)` and `... => SeqSpec` | below |
| `MusicPlayerProofs!TypeCorrect`, `MutexHeld`, `ChosenSong` | `[]TypeOK`, `[]LockHeld`, `[]ChosenIsCurrent` | below |
| `MusicPlayerProofs!QuietWhenReleased` | `[]ReleasedIsQuiet` | below |
| `MusicPlayerProofs!AnsweredOwnerHolds`, `NoFalseActiveHolds` | `[]AnsweredOwner`, `[]NoFalseActive` | below |
| `MusicPlayerProofs!Implements` | `Spec => Service!Spec` | initial states map to initial states; every action maps to an action of `MusicService` or a stutter, one step per action |
| `PlayerChannelProofs!TypeCorrect`, `ThreadOnHandler`, `AnswersMatch` | `[]TypeOK`, `[]NoCallbackAfterFree`, `AnswerIsOwn` | below |
| `VoiceLogicProofs!TypeCorrect`, `NoSelfWaiting`, `MicrophoneHeld` | `[]TypeOK`, `[]NoSelfWait`, `[]MicHeld` | below |
| `MqttClientProofs!TypeCorrect`, `WindowKept`, `ConnectIsFirst` | `[]TypeOK`, `[]Window`, `[]ConnectFirst` | below |
| `MqttClientProofs!KeepsPromises` | `Spec => DeliverySpec` | below |
| `EventManagerProofs!TypeCorrect`, `ImplementsBus` | `[]TypeOK`, `Spec => Bus!Spec` | below |
| `KeysProofs!TypeCorrect`, `OnceEachHolds` | `[]TypeOK`, `[]OnceEach` | below |

They hold for every set of callers, songs, threads, messages, processes, devices, buttons and
nodes and for every bound, from the assumptions named in the modules (`MessageAssumption`,
`LimitAssumption`, `SongAssumption`, `ThreadAssumption`, `BoundAssumption`,
`AnswerAssumption`, `ConstantAssumption`, `ClientAssumption`, `NameAssumption`,
`SizeAssumption`, `DeviceAssumption`, `ButtonAssumption`): that the markers are no songs,
threads, processes, devices or nodes, that service threads are no callers, that bounds and
sizes are numbers, that the key which starts the network configuration is a button, and that
there are finitely many nodes and devices. TLC evaluates them in every run. Three theorems
have a hypothesis besides: `Implements` needs `"stop" \notin Fails`, and the two about the
linked list `"index" \notin Calls`; both are explained below.

Several operators are recursive functions: the copy of a play list, the walk along a chain of
nodes, the rounds of the sort. That such a function exists and what it yields is proved by
the least number at which it would not, with the well-founded minimum on the natural numbers
in place of induction; each of these lemmas is stated once and cited by the invariants.

*MusicList.* `PrevNextInverse` compares what the two selections return at every place of a
list whose index is sound. For `CopyFaithful` the copy is described after each of its inserts
as a window on the list it copies, whose width is what the limit allows, and the current
index of the copy as a place in that window or before it.

*LinkList.* `WellFormed` is about a walk from the head, which no step of the code looks at as a
whole. The invariant names the sequence of nodes instead: `IInv` says that some sequence of
different nodes is chained by `next` from the head to null, ends in `tail`, has `len` elements
and holds every allocated node. Each piece of the code has a lemma that says what becomes of
that sequence and which nodes it writes to, so that two lists in one heap, as in the sort, can
be followed apart. Between two rounds of the sort, `Halves` says that the places of the nodes
still in the list are in their order, that those moved are sorted, and that each of them comes
before each of the others; hence the sort is stable, which the interface does not say and
`LinkSeq` does. The hypothesis leaves out `list_insert_at_index` behind the last node (or with a
list of one), which keeps the old tail: nothing in the tree calls that function, and its use
between two nodes is covered.

*MusicPlayer.* `ChosenIsCurrent` is not inductive: that nobody edits the list during the
handshake follows from `LockHeld`, and that the player still has its owner from the places
at which the mutex is held. `ReleasedIsQuiet` needs to know that a wait for a stop already
follows the daemon's stop, that `resume` cannot start a player that is stopped, and that a
report thread that decides to go on checks the owner under the mutex. The invariants are
conjunctions of these named parts, each preserved action by action. `Implements` and
`QuietWhenReleased` assume that stop commands can be sent (`"stop" \notin Fails`): without
it the code gives the ownership up with the music playing, which is the exception written
into `ReleasedIsQuiet`. `AnsweredOwner` needs that a stop forgets the answer before it waits
for the daemon, and that nobody else is then in a handshake, because the waiting thread has the
mutex. `NoFalseActive` is the last case of `ReportInv`, which follows the newest report
from the socket to the callback to the domain: wherever it is, if it says that the music
player is active, then something sounds.

*PlayerChannel.* An answer carries no address. The invariant says that there is at most one
request or answer in flight, that it is the one of the client that holds
`player_internal_mutex` (`AnswerInv`, `RequestInv`), and that a connection which is dead takes
no request and has lost those it had taken (`DeadInv`): without this a client that gave up
could leave its request behind. `ThreadInv` ties the place of the report thread to the life of
the handler.

*VoiceLogic.* The invariant is `TypeOK /\ Threaded /\ Counted /\ Stopped /\ MicHeld`.
`Threaded` ties the logic thread's existence to the place of the thread in `startall`;
`Counted` keeps the counter at or below its limit while it polls, which gives its exact
range; `Stopped` says at which places after a recording `asr_stopped` must be set, and is
what `NoSelfWait` follows from.

*MqttClient.* `Window` is not inductive: a PUBREC or an acknowledgement about a message that
still waits for its turn would start it or remove it. `IInv` therefore says of every packet,
queued or travelling either way, that it is about no such message (`Safe`), that messages in
the list are distinct and published, and that the connection holds no more than it may.
`Safe` survives a removal, because the messages behind the removed one only move forward, and
a reconnection, because no packet survives it. `ConnectFirst` needs `ConnInv` besides: while
the broker waits for CONNECT, the packets on their way begin with it, or there are none on an
unconnected socket, and no later packet is a second one.
`KeepsPromises` looks at the stream of packets the broker has not read: those on the
connection, then those queued behind them. A step leaves some of them out and adds others at
the end, or starts with an empty connection. `DInv` says of the stream that a packet tells the
truth (a PUBREL, and a PUBREC or PUBACK the other way, is about a message the broker has, or
has had), that no message which must not arrive again is in it, a QoS 0 message is in it once,
and no message stands behind its own release (`Sound`); that a message in the list which does
not wait for PUBCOMP has not arrived, if it may arrive only once, and has no release in the
stream (`Books`); and that nothing still in the list or queued has been told (`Untold`). What a
reconnection sends again is of the same kind. So an acknowledgement is told after the arrival,
and every other step maps to an arrival, a publication or a stutter. `DInv` was an invariant of
TLC's runs with a window of 1 and of 2 before it was proved.

*EventManager.* The tables keep numbers of descriptors that are closed and given out again, so
a receiver could be sent an event in the place of another. `IInv` is `Types /\ Wiring /\ Order`:
`Wiring` says that every connection is in one place, that a process knows of the ones it has,
that as long as receivers may register `conn_fd` names none twice and no sender, and that after
the registration thread has ended its numbers, some of them given out again, name no receiver
that is alive; `Order` that what a connection holds of a source is newer than what its process
has had of it, in order, and that a thread still distributing an older event will not come
back to it. `ImplementsBus` then maps a receive to `Get` and a send to `Post`, and every other
step to a stutter.

*Keys.* `OnceEach` speaks of the presses acted on. The invariant adds what is still to be
processed: the presses of a button in the socket are in order and newer than its press time
and than every press acted on, and so is the last message, which is processed again when the
next `recv` fails.

Only model-checked: every liveness property (fairness and ENABLED are beyond the prover). That
the heap of `LinkList` is well typed is part of its invariant, but `tail` of an empty list,
which the code leaves behind, is not in it.

## 6. Disagreements found

Checked by a run that expects a violation:

* `voice_timeout`: the counter stands one above its limit after a timeout, so the timeout
  branch is never taken and the reply runs on an answer that never came.
* `keys_overlap`: `KEY_ALL` is set by the debouncing thread and not before it is created, so two
  presses one after the other start two threads that count down the same `time_cnt1`. When both
  have found it at 1 it goes to -1 past the test of both, and every key is ignored for the four
  billion steps of 100 ms it takes to come round, where the same may happen again. Nothing makes
  the first thread run before the key thread reads its next message: after a press it only
  prints before it does.

Stated at the end of the modules, with the comment or document they quote, and refuted by TLC
when they are named in a configuration like the one given:

* `HandlerDestroyed` (`MCPlayerProgress.cfg`, with `"shutdown"` in `Ops`):
  `mozart_musicplayer_shutdown` joins the report thread while holding the mutex that thread
  may be waiting for; neither goes on.
* `ToldIsSent` (`MCPlayerChannel.cfg`): `send_cmd` returns 0 whatever happened, and the command
  connection is never made again: after one death of the daemon every command is lost and
  reports success (`command.h:139` says "-1 otherwise").
* `BreakStopsAsr` (`MCVoiceTimeout.cfg`): an interruption between two recordings returns at
  once and the recording starts all the same, because `asr_stopped` is left from the recording
  before and `ray_asr_start` clears the break flag.
* `OneCallback` (`MCMqttClient.cfg`): a QoS 2 PUBLISH that is sent again after a reconnection
  is put into `in_messages` a second time, and both copies are passed on, which
  `read_handle_shared.c:156` means to prevent.
* `AddedIsSelected` (`MCEvents.cfg`, with two devices, three plugs and no crashes): after a device was
  unplugged, `eventLoop` fills its descriptor set up to the hole only, and neither the devices
  behind it nor the uevent socket, through which new ones are found, are watched any more.
* `StartsWithAec` (`Uses = {}`): `ray_vr_start` sets the working flag before `vr_next`; the
  logic thread may fall through the switch and read a null `info`.
* `AnswerIsSuccess` (`Uses = {"query"}`): after a text query timed out the next spoken
  question's answer is taken for content.
* `ContentResultIgnored` (`Uses = {"query"}`): the content answer's `VR_TO_NULL` becomes
  the next state.
* `StopEnds` (`Uses = {"restart"}`, `SPECIFICATION FairSpec`): `aec_run` clears the stop
  flag `ray_vr_stop` has just set, and `stopall` waits until a wake word comes.
* `BreakReturns` with `Fails = {"open"}`: a microphone that does not open never sets
  `asr_stopped`.

And in `LinkList`, with `"index"` among the `Calls` of `MCLinkList.cfg`, `WellFormed` is
refuted: an insertion behind the last node leaves `tail` where it was. No function of the
tree calls `list_insert_at_index`.

## 7. What is not modelled, and why

* The camera's video pipeline, the hardware headers and `pcm.c` are vendor or third-party
  code: device and driver calls, seen by the models as opening and closing. Of the camera only
  the scan of a network code is modelled (`Keys`).
* The intercom (`camera/callbackAudio*.c`, `hardware_api.c`, `mozart_module_rayshine.c`,
  `rtsp.c`) starts and ends its threads by waiting: `PlayOpen` creates a thread before it
  initialises the mutex that thread uses, `PlayClose` destroys it 100 ms after asking the thread
  to end, `AudioInClose` closes the device while the recorder reads, a second opening of the
  recorder starts a second thread (`hardware_api.c:371`), and the reader of `rtsp.c` is never
  joined. What it relies on is time, and in an untimed model every promise it could make is
  refuted at once; two of these are listed as hazards.
* In `MqttClient`: the threaded interface, TLS, SOCKS, wills, unsubscribe and disconnect (no
  caller), and the wrap of the 16-bit message identifiers. The program subscribes to two topics
  (`sub_client.c:540`); the messages of the model are of one, and the SUBSCRIBE of the other
  would be the same packet once more.
* The program only subscribes: nothing that runs calls `mosquitto_publish` (its one caller,
  `pub_connect_callback`, is used by nobody), and `clean_session` is always true
  (`client_shared.c:65`). What `Window`, `OutEnds` and the outgoing half of `DeliverySpec` say,
  and all that is said of sessions that are kept, is therefore about the library, for whoever
  publishes with it; the program itself depends on `ConnectFirst`, `StallEnds` and the
  incoming messages.
* In `EventManager`: which uevent becomes which event, `mozart_event_handler_put` (no caller),
  a process that dies while it waits for the answer (the manager may still pass its event on,
  or read a part of it and answer "0", lines 499-516), the uevent socket that is shut down
  (lines 206-209: the device loop then treats it as an unplugged device), and a port for
  senders that cannot be bound (lines 486-490: every send then fails to connect). An event is
  written and read as one whole: it is smaller than a socket's buffer, but a blocking `send` of
  two threads to a connection that is almost full could mix their bytes. The
  registration thread closes the connections of a full table one by one (lines 467-471), and
  the model all at once: what `distribute_event` writes in between goes to connections that are
  closed next.
* In `Keys`: how the time between a press and its release is measured (the code takes the time
  when the message is read, so that a key pressed during a tone is measured wrongly), that
  buttons 14, 15 and 23 share one press time, the volume steps, and a failing
  `pthread_create`. That an interruption by a key returns (`main.c:380`) is `BreakReturns` of
  `VoiceLogic`, and assumed in `Keys`.
* The phone's queue commands as programs of several calls: an insert and the play of the index
  it returned are two critical sections, and what a user would expect of them is refuted by any
  caller in between. The calls themselves are actions of `MusicPlayer`.
* Several threads in `startall` and `stopall` (a network event while it is started): the second
  logic thread it creates shares every variable of `VoiceLogic` with the first.
* `event_manager.c` is compiled without its `main` (its signals and the order in which it
  starts its threads are therefore not in the model); `appserver.c` and the command thread of
  `ingenicplayer.c` are never started.
* Strings, JSON and URLs: a song, a request and an answer are values that are the same or
  not. That an answer's strings may be freed while spoken is listed as a hazard.
* In `MusicPlayer`: volume, seek and position (they take the mutex and do nothing to its
  state), `mozart_musicplayer_play_music_info` and the shortcuts (no caller), the
  answer RESPONSE_PAUSE (misc never gives it), and the status AOSWITCH_FAIL
  (`player_interface.h:38`): nothing here asks for a switch of the output, and the callback's
  default branch (lines 811-814) would only take it for a song that has stopped. The
  wait of `stop_playback` for the last status reads it and writes the domain in one step.
* In `MusicList`: allocations that fail, a song with data and no `free_data`, which an insertion
  refuses (lines 245-248), and a `copy_info` that fails in the middle of a copy (lines 306-308).
  `PrevNextInverse` is about indexes inside the list: from the place behind the last song,
  where deletions may leave the index, a forced next skips the first song (lines 215-217).
* In `PlayerChannel`: a handler whose request or report connection cannot be made (its error path
  may close descriptor 0, `player_interface.c:283-320`), a report that is read in parts or
  interrupted (lines 407-413), a handler that is put while calls are under way (a hazard of its
  own, `main.c:375`), the second channel, the commands for all channels, the one-shot
  mp3 socket (no caller), and the signal a send to a dead connection raises, which
  `mosquitto.c:99` sets to be ignored.
* In `VoiceLogic`: the failing `fopen` of `asr.c:109` (it ends as the failing microphone
  does), `VR_TO_ASR` and `VR_TO_WAIT` (never assigned), and several threads in `startall`
  or `stopall` at a time.

## 8. Plan

Written: the play list, the linked list, the music player, the player library, the voice
logic, the MQTT library, the event manager and the keys, with the proofs of section 5: every
invariant, action property and refinement the passing runs check is a theorem.

Of the code, `ShareMem` (the scan of ten domains for the active one is not atomic) and the
lifetime of an answer's strings (`vr/slot*.c`) are the candidates for further modules.
