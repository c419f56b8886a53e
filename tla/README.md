# A verification of the JZ2440 drivers

The repository holds Linux drivers for the JZ2440 board (S3C2440, ARM, one
processor). The kernel is 4.6, by the Makefiles and the oops in `src/vnet/node.md`; `src/README`
says 4.9. Each directory under `src/` is a driver of its own, most with a small
program that exercises it. The kernel below them (the i2c, input, usb, block,
net and character device layers, timers, interrupts) is not part of the
repository: it is modelled from how these drivers use it, and marked external
in `PROJECT.json`.

This directory holds TLA+ models of the drivers, TLC configurations that check
them on small instances, and TLAPS proofs of their main properties for every
size.

    tlc -config i2c_irq.cfg MCS3c24xxI2c       # PROJECT.json lists all runs
    tlapm S3c24xxI2cProofs.tla                 # and the seven other modules named *Proofs

## 1. Inventory

| part | source | state it keeps | operations | where the difficulty is |
|---|---|---|---|---|
| i2c bus driver | `i2c/bus_drv/i2c-s3c2440.c` | `state`, `msg`, `msg_num`, `msg_idx`, `msg_ptr`, the registers IICCON, IICSTAT, IICDS | `s3c24xx_i2c_xfer`, its handler, probe | the handler advances the messages while the caller waits with a timeout; both write the registers |
| EEPROM driver | `i2c/dev_drv/at24cxx_drv.c` | per file a position; per call `i`, `err_count` | open, read, write, probe, remove | retries of transfers that may have done their work; other processes in between; the chip's write cycle |
| EEPROM devices | `i2c/devices/*.c` | one client | init, exit | references to the adapter on error paths |
| debounced buttons | `key_jitter/key_jiffer_drv.c` | `key_val` of four buttons, `ev_press`, one timer, a wait queue, a fasync list | handler, timer function, open, close, read, poll, fasync | edges during the timer function; the timer function during a read; poll |
| buttons with interrupts | `key_irq/key_irq_drv.c` | the same without a timer | the same | as above, with the handler in place of the timer function |
| polled buttons, leds | `key/key_drv.c`, `led/led.c` | nothing after init | read, write | loading and unloading |
| buttons as input device | `input_sub_system/key/key_input_drv.c` | one `irq_pd`, one timer | handler, timer function, init, exit | four buttons share one slot and one timer |
| touch screen | `input_sub_system/touch_screen/ts_drv.c` | `cnt`, the samples, the timer, ADCTSC | two handlers, timer function, init, exit | the handlers overtake the timer function; a pen that moves while the ADC works |
| USB mouse as keys | `usbmouse_key/usbmouse_as_key.c` | `pre_val`, one urb, one buffer | completion, probe, disconnect | a urb that resubmits itself while it is killed; globals that all mice share; failed urbs |
| RAM disk | `ram_block/ramblock.c` | 1 MB of memory | request function, init, exit | requests that are merged and cut into segments; requests against unloading |
| virtual network card | `vnet/vnet.c` | counters, a queue that is stopped or not | transmit, init, exit | an skb that is used after it was freed; a reply made in place; waking the queue |
| LCD | `lcd/lcd_2440fb.c` | frame buffer, palette | setcolreg, init, exit | a long init with many steps that can fail |
| `req_drv.c` | `request_module/` | as key_irq | as key_irq | does not compile (line 153 is `module_`) |

How they interact. The EEPROM driver reaches the chip through the smbus layer
and the i2c core, which calls `s3c24xx_i2c_xfer` of the bus driver with one
array of messages at a time; the result, an error or a count of messages, comes
back the same way. The other drivers meet only the kernel and the hardware:
their interrupt handlers, timer functions and completion handlers run between
any two steps of the functions that processes call, and share the driver's
static variables with them without locks.

What makes each part correct:

- *bus driver*: a transfer returns; what it returns is true of the wire; nothing
  of the caller's array is touched outside the call, or beyond a buffer as long
  as the blocks slaves announce fit theirs; messages are sent in order; a retry repeats nothing; the controller is quiet
  between transfers.
- *EEPROM driver*: a count that is returned is a count of bytes moved; a write
  that fails leaves a prefix; blocks stay inside a page and the page buffer;
  calls end.
- *buttons*: no edge is lost; a bounce is one event; no reader sleeps through, or
  is left without, the last value.
- *touch screen*: the controller is never left in a mode nothing ends; what is
  reported of a pen at rest comes to be right.
- *USB mouse*: the keys are the buttons of the last report, through errors, kills
  and the next mouse; no object is worked on after it was freed.
- *RAM disk*: each sector of each bio is moved once, to its own place; none lies
  beyond the end; bios end.
- *network card*: each echo is answered once, with the addresses exchanged; what
  is counted is what was sent; the queue never stays stopped.
- *all*: a failed init leaves nothing behind; nothing is used before it is set up
  or after it is given back, whatever interrupts, timers and open files there
  are.

`PROJECT.json` lists the hazards behind these, line by line, with the property
that covers each.

## 2. The modules

### I2cAdapter, the contract

What `master_xfer` promises: one transfer at a time, messages become complete
between call and return only, and the result is an error or a number of leading
messages that are complete. It allows partial results, which is what this
driver gives after a timeout.

### S3c24xxI2c, the bus driver

One variable per field of `struct s3c24xx_i2c` that a transfer uses, plus the
registers as sets of bit names, plus the bus. `pc` is the caller's place:

| model | code |
|---|---|
| `Xfer`, `XferNoClock` | `s3c24xx_i2c_xfer` up to the retry loop, clock enabled or not |
| `SetMasterFree`, `SetMasterBusy` | `s3c24xx_i2c_set_master`, the set-up in `doxfer`, `-EAGAIN` and the retry loop |
| `MessageStart`, `WaitEvent`, `Woken` | `message_start`, `wait_event_timeout`, `ret = i2c->msg_idx` |
| `WaitIdle`, `DisableBusStat`, `DisableBusCon`, `Out`, `Return` | the end of `doxfer`; `disable_bus` is two register writes and therefore two steps |
| `Irq...` | `s3c24xx_i2c_irq` and `i2c_s3c_irq_nextbyte`, one action per path through the `switch`, each with everything it does up to `out_ack` |
| `AddrByteDone`, `TxByteDone`, `RxByteDone`, `StrayByteDone`, `BusRelease` | the controller and the slave (external) |

The handler is one step: it runs with interrupts off on the only processor. The
registers are alive only between `clk_enable` and `clk_disable`. Bytes may take
for ever, so that every wait may end by its timeout. `i2c-s3c2440.c` has typos
that keep it from compiling (`$=`, `+_`, ...); the model takes what is meant, as
the surrounding code shows. `i2c->suspended` is tested but never set, so its
early return has no action.

`S3c24xxI2cCorrect` states the properties, for the transfers the driver can
carry out (`Supported`): a read is the last message, because after an earlier one
the handler goes on without a START and in the same direction; no read is
NOSTART; a block read is submitted with length 1. A slave may announce any number
of bytes. The buffer they are stored in has `BlockBuf` bytes, and the handler does
not compare the two: `IrqRead` stores a byte that the buffer has no room for as
any other, and in `IrqReadOverruns` what it overwrites stops the kernel. `NoOverrun`
says that this takes a block longer than its buffer. `MCS3c24xxI2c` has the transfers of the run.
`S3c24xxI2cClaims` has a claim of a comment that the code does not keep.

### At24, the EEPROM driver

`at24_read` and `at24_write` by several processes, one transfer a step, over the
contract of `I2cAdapter` as the smbus layer passes it on: an error, success, or
a short count of messages, which the layer takes for success. The handler is
still at work when that count is read, so a byte may be written or not
(`WriteByte`), and of a block any first part may have come (`ReadBlock`). `short`
remembers that a call met one. Bytes have no values; of each
call it is kept which offsets got to the chip or the user. The chip refuses
everything during its write cycle. A write transfer that fails may have written
the byte: the acknowledgement can be lost. The error of a failed read, stored
in an unsigned variable, is used as a length, which `copy_to_user` refuses.

### KeyJitter, the debounced buttons and the ones with interrupts

Contacts that bounce with edges less than 10 ms apart (`PinEdge`, `bouncing`),
the interrupt controller, `buttons_irq`, the timer function one button at a
time, and processes that run the two test programs: `poll` then `read`, or `read`
on SIGIO. `my_key_read` loads the buttons one by one. Time is in jiffies: a
`Tick` may come right after `mod_timer`, which is what the `+1` in `HZ/100+1` is
for. The timer function is a softirq: it does not start while an interrupt is
pending, processes do not run during it, edges and interrupts come between its
steps. A second process that opens the device gets no error though
`request_irq` refused it, and the first to close frees the lines for both.

`key_irq_drv.c` is the same driver without the timer: its handler samples the
button that moved and announces it, and open, close, read, poll and fasync are
the same code. `debounced`, chosen once in `Init`, says which of the two it is;
every property but `OncePerBurst` is about both.

### KeyInput, the buttons as an input device

`key_irq_handler` and `kery_timer_function`, with one `irq_pd` and one timer for
all buttons. The timer function is three steps: it copies `irq_pd`, reads the pin
and reports it to the input core, and buttons move and are served in between.
Here the delay is `HZ/100` jiffies. `missed` is history: the buttons that were
down when the module was loaded, and those whose place in `irq_pd` another button
took before the timer expired. The model has no bouncing: an edge is an edge.

### TouchScreen

The pen, the two interrupts, the ADC, `adc_irq` with its count of samples and the
timer function, one register or event at a time. Coordinates are left out but
for bit 0 of x, which the code tests by mistake (`1<15`). The pen interrupt is
level-triggered in the waiting modes: it also comes when the pen was there
before the mode was set, which is why the driver may switch modes late.

### UsbMouse

Mice that are plugged in, pulled out and disconnected by the hub's thread; of
each its buttons, its urb, its buffer and its input device. The driver keeps
pointers to the objects of one mouse only (`cur`), and `pre_val` for all of them,
and the completion handler works with these whichever urb it is called for. A
urb can fail with the buffer left as it was, can be refused when it is submitted
again, and is called back once more by `usb_kill_urb`. A fresh buffer holds
anything. When something freed is used the machine may stop (`crashed`) and is
then reset. Two kinds are told apart: "freed", where the handler or disconnect
works on objects of a mouse that an earlier step freed, which `OneMouseSafe` shows
to need a second mouse; and "again", the last line of disconnect, which comes to
every mouse: it frees the input device that the line before has done away with,
and does harm (`FreeMouseCrashes`) or not (`FreeMouse`). `stale`, `phantom`, `refused` and `overlap` are history: they say which of
the driver's known weaknesses has come into play, and the properties speak of
all other behaviours.

### RamBlock and BlockDevice

`do_ramblock_request`: the loop that fetches requests, copies one segment at a
time and ends it, with the block layer that merges adjacent bios at the front or
the back of a request, picks any request next, and refuses bios beyond the
capacity. `BlockDevice` is what a disk promises: each sector of a bio is moved
once between its submission and its end. `IsDisk` is the refinement: the store is
`ramblock_buf`, and what is left of a bio is what the requests still list.
`RamBlockReads` adds what a user of the disk sees: of each sector, what the writes
that have ended can have left there (`known`), and of each read in hand what it may
find (`seen`). Both are history that follows submissions and ends only. A write
takes out of `known` what had ended before it was submitted; a read may find what
is known when it is submitted and what writes put there that are in hand
meanwhile.

### Vnet

`vnet_send_packet` one step at a time (stop the queue, test the byte, make the
reply and pass it on, free the skb, wake the queue, count), with the stack that
sends and receives, and the handler of another device that may get the freed skb
before its length is read. Of a packet the addresses are kept and the byte the
driver looks at. `due` and `asked` record what was sent: the totals, and the
packets that are to be answered.

### DriverModules, setting up and tearing down

A table per driver: the steps of its init or probe function with what the code
gives back when each fails, what its exit, remove or disconnect function gives
back, and its callbacks with what they need in order to be called and what they
touch. The actions walk through the tables with a callback between any two
steps, a failure at every step that can fail, and any number of reloads.
Callbacks appear here by what they touch only; their logic is in the other
modules. `rmmod` is refused while a file is open and a module that is being
unloaded is not opened, but a device can go at any time (`Unbinds`).
The probe of the 24c02 has no further addresses; the table has two, so that the
loop over dummy clients and its undoing are exercised. The probe of the bus
driver is there with and without QUIRK_POLL, which does without an interrupt;
what its `devm_` functions took is given back by the driver core. Of
`s3c_lcdfb_setcolreg` the table has which entry of the palette it writes.

The code has defects here, and the properties say exactly which: `Faults`,
`Leaks` and `FreedAgain` are the complete lists, and TLC shows there are no
others. `Strays` are what the leaks bring along while the driver should be gone:
conversions of a controller that was left on, and files and interrupt lines of a
device that can still be opened.

`DriverRules` says what such a table has to obey for the driver to be safe.
Every place a driver can stand at (a step of its init function, or of an undo
list, or of the exit function) bounds what is held: `Must` from below, `May` from
above. The rules look at one place or one step at a time: a callback is let in
after all that it touches was taken, what is given back is there and no callback
that touches it can come any more, what an init function gives back halfway (the
24c02's adapter, the bus driver's clock) is there too, what the last place may hold is only what may
be left. TLC evaluates them for the fifteen tables (`RulesAssumption`); a table
with a swapped exit list, a forgotten undo or a doubled release breaks them.

| entry | how it comes about |
|---|---|
| `ts`: `s3c_ts_timer_function`, leak of `timer` | `my_ts_exit` does not delete `ts_timer`: it expires with the registers unmapped, or the module gone |
| `ts`: `adc_irq` | the controller still waits for the pen, or converts, when the module is loaded again: its interrupts come as soon as they are requested, before `init_timer`, and `adc_irq` starts the timer |
| `ts`: leak of `clk` | `my_ts_exit` does not disable the clock |
| `usbmouse`: `init`, `usbmouse_as_key_irq` | the results of `usb_alloc_urb` and `usb_alloc_coherent` are not tested |
| `at24`: `read or write`, `close` | the device is removed with a file open; `at24` is freed with it |
| `at24_class`: leak of `class` | `i2c_add_driver` fails after `class_create` |
| `led`, `key`, `key_irq`, `key_jitter`: `open`, `close`, `write`, `buttons_irq`, leaks of `chrdev`, `class` | when `class_create` or `device_create` fails the function returns with the character device still registered; it can be opened after the module is gone |
| `led`: `init`, `write`; `key`: `open` | `ioremap` comes after the device is there, and its result is not tested |
| `key`: leak of `gpg` | only one of two mappings is undone |
| `key_jitter`: `kery_timer_function`, leak of `timer` | neither `my_key_exit` nor a failed init deletes `key_timer` |
| `lcd`: `init`, leaks | unchecked allocations and mappings; an error return in the middle gives nothing back; the clock is never disabled |
| `lcd`: `lcd controller`, leak of `video` | `mylcd_exit` frees the screen with the controller still reading it |
| `lcd`: `s3c_lcdfb_setcolreg` | the test is `regno > 16`: entry 16 of a palette of 16 is written |
| `i2c`, `i2c_poll`: `prepared`, leaked and freed again; `enabled` freed again | `s3c24xx_i2c_init` fails with the clock prepared; and `clk_prepare_enable` is not tested, so that `clk_disable` disables what was not enabled, and a later failure unprepares what was not prepared |
| `ramblock`: `queue_get` freed again | `kzalloc` fails when the disk has its queue already: `blk_cleanup_queue` drops the driver's reference and `put_disk` one for the disk, which only `add_disk` would have taken |
| `vnet`: leak of `netdev`, `registered` freed again | no `free_netdev`; `register_netdev` is not tested |
| `idev` freed again | `input_free_device` after `input_unregister_device`, which has dropped the last reference |

## 3. The runs

Passing runs:

| run | instance | distinct states | shows |
|---|---|---|---|
| `i2c_irq` | twelve transfers of 1 to 3 messages, lengths 0 to 2, every flag; both kinds of bus; 2 attempts; blocks of 0, 1, 2 and 4 bytes, with a buffer of 4 in all | 64 358 | `ResultExact`, `NoOverrun`, `WireOrder`, `HandlerQuiet`, `NakLastByte`, `RetryFresh`, `CleanStop`, `XferReturns`, and that the driver implements `I2cAdapter` (`AdapterSpec`) |
| `key_sampling` | both drivers, 2 buttons, 10 ms = 1 jiffy, a process reading on SIGIO | 236 112 | `SettledReported`, `OncePerBurst`, `SignalledCurrent`, `RestReported` |
| `key_readers` | both drivers, 1 button, a process in poll and one on SIGIO | 217 786 | `NoLostWakeup` |
| `key_input` | 3 buttons, 10 ms = 1 jiffy | 112 488 | `OnlyOvertakenStale`, `LastReported` |
| `ts` | no constants | 3 612 | `MeasureEnds`, `NotForgotten`, `LiftReported`, `HoldReported` |
| `at24` | 2 processes, chip of 3 bytes, pages of 2, counts 1 and 3, positions up to 4, 2 retries | 431 324 | `WritePrefix`, `ResultTrue`, `BlockInPage`, `CallReturns` |
| `usb_mouse` | 2 mice of 2 buttons | 373 833 | `OneMouseSafe`, `KeysFollow`, `ReportsGoOn` |
| `ramblock` | 2 bios in hand, disk of 3 sectors, 2 values | 159 544 | `InRange`, `BiosEnd`, and that the driver implements `BlockDevice` (`IsDisk`) |
| `vnet` | 2 peers, 3 packets of 2 lengths, 3 values of the byte | 20 133 | `EachEchoAnswered`, `BytesCounted`, `QueueGoesOn` |
| `driver_modules` | all 15 tables, module DriverRules | 1 592 | `TouchesOnlyHeld`, `NothingLeft`, `ReleasesHeld`, that the tables obey the rules, and that a driver stays within the bounds of its place: `WithinBounds` |

`i2c_irq` and `ts` check their module's types too; every module's is proved.
Deadlock is allowed in `vnet`, where `MaxPackets` ends the sending, and in
`i2c_irq`, where a block that does not fit its buffer stops the machine; that
nothing else stops a transfer there is `XferReturns`.

Runs that show the code to disagree with a comment or a program of its own:

| run | claim | what happens |
|---|---|---|
| `i2c_late_irq` | after `disable_bus` there are no interrupts and no line is driven | after a timeout, an interrupt between its two register writes starts the next message |
| `key_poll_race` | a poll that times out means there is nothing new | the timer function, or the handler of key_irq, between a read's loads and its `ev_press = 0`: the new value is not announced |

### Defects that the models contain

The models do what the code does. Besides the two runs above and the table of
section 2, these parts of it are mistakes; the properties say what holds in
spite of them.

- `i2c-s3c2440.c:469-476`: a NOSTART message that changes direction stops the
  transfer with `-EINVAL`, and the handler goes on at `retry_write` with
  `i2c->msg`, which is NULL by then. `Supported` leaves such transfers out.
- `i2c-s3c2440.c:499`: the length a slave announces in a block read is not compared
  with the buffer (`IrqReadOverruns`; the smbus layer's has room for 34 bytes).
- `i2c-s3c2440.c:708`: a transfer that times out returns the messages that are
  done, maybe 0, which is no error. The smbus layer and `at24_write` take it for
  success. `short` in At24 marks the calls this happens to.
- `at24cxx_drv.c:76`: the result of a read transfer is stored in an unsigned
  `len`, so an error is not `<= 0`: it is not tried again but handed to
  `copy_to_user` as a length, and the call gives `-EFAULT` (`ReadFails`).
- `at24cxx_drv.c`: the smbus functions take the address as a `u8`, so a call that
  goes beyond the chip's end goes on at its beginning, and `at24_write` does not
  test `*f_pos`.
- `ts_drv.c:88`: `1<15` is meant to be `1<<15`. A result taken with the pen up is
  kept when bit 0 of x is 0, and a touch is reported after the lift
  (`Discards`); `LiftReported` shows that it is taken back. A pen that comes down
  while a dropped result has the driver wait for the lift goes unnoticed (`Deaf`).
- `key_input_drv.c:50`: when two buttons move within 10 ms the first one's event
  is lost (`missed`), and its key may stay down.
- `usbmouse_as_key.c`: a second mouse takes over the globals, and disconnect then
  frees the wrong objects (`overlap`); `pre_val` outlives the mouse (`stale`); a urb
  that fails before any report came reads a buffer nobody has filled (`phantom`);
  after a refused `usb_submit_urb` the mouse is silent (`refused`). And every
  disconnect frees the input device again (line 128, `FreeMouseCrashes`).
- `ramblock.c:36`: a segment beyond the end is ended as if it had been moved;
  `InRange` shows that it does not come to that.
- `vnet.c:102`: `skb->len` is read after `dev_kfree_skb` (`reused`). A packet of any
  protocol is answered if its byte 34 is 8; the reply is made in the sent packet
  itself, whose data a clone may share; `dev_alloc_skb` is not tested (`crashed`).

### Why the bounds are enough

*i2c_irq.* The handler looks at the current message, at whether it is the last,
and at whether its pointer is at the last byte or the end. Lengths 0, 1 and 2
give every outcome of those tests, three messages give a first, a middle and a
last. Timeouts, refusals and late interrupts may come anywhere, and any number of
transfers follow each other, so that what one leaves in the registers meets the
next. With its first byte a block of 2 fits the buffer and one of 4 does not.
Safety is also proved for every length (section 4).

*key_sampling, key_readers.* With two buttons an edge can come before, at and
after the button's place in the scan. All processes of a kind do the same, and
the properties speak of one at a time. One jiffy for 10 ms is the tightest case
for the `+1`. Two buttons with both kinds of reader are too many states for one
run, hence two runs; the proofs have no such limit.

*key_input.* Three buttons are the one the timer function is at, the one that
takes `irq_pd` from it, and one that is overtaken meanwhile.

*at24.* Counts 1 and 3 from positions 0 to 4 begin and end at, before and after
page boundaries and the end of the chip. `Tries` stands for 5. `MaxPos` keeps
positions finite. The proofs drop all of these.

*usb_mouse.* Two mice are one that is there and the next, or both at the same
time. Two buttons let one be stale while the other moves. Any number of plugs,
reports and failures follow each other.

*ramblock.* Two bios can be apart, adjacent or overlap, and be merged at either
end; with three sectors a bio has up to three segments. Two values tell a sector
that was moved from one that was not.

*vnet.* Three packets, because what is counted, answered and received is compared
with all that was sent: an answered one before and after one that is not.
`MaxPackets` bounds the history.

Not among the runs: `tlc -config ramblock_reads.cfg RamBlockReads`, which checks
`ReadsFind` with two bios and two sectors (21 700 states; three sectors, or three
bios, have passed too), and finds it violated when `Place` is the bio's first sector.

### Fairness

- *i2c*: `WF(InXfer)`. The caller is a thread that is scheduled, and its three
  waits have timeouts. Nothing is assumed of slave, bus or handler.
- *key_jitter, key_irq*: interrupts that are pending are taken, jiffies pass, an
  expired timer runs, and processes that can run do. Nothing is assumed of the
  buttons.
- *key_input*: the same, without processes.
- *touch screen*: interrupts are raised and taken, conversions end, the timer
  expires and its function gets on. Nothing is assumed of the pen.
- *at24*: each process gets on with its call; transfers return (`XferReturns`),
  with whatever result.
- *USB mouse*: a urb that stays submitted for a mouse that is plugged in brings a
  report. That is the mouse's and the HCD's doing; failures may come in between,
  and nothing is assumed of plugging, disconnecting and resubmitting.
- *RAM disk*: the block layer runs a queue that has requests, and the loop, which
  nothing interrupts, goes on.
- *vnet*: the function, once called, goes on, and the stack receives what is in its
  backlog.

## 4. What is proved

With TLAPS, for every value of the constants, from the assumptions named in the
modules that declare them. Eight modules, all proved to the last leaf.

**S3c24xxI2cProofs**, for any set of `Supported` transfers, of any number and
length. The invariant has three layers. `ControlInv` says how the caller's place,
`state` and the cursor fit together, and, in `Pend`, that an interrupt is pending
only on a bus that is owned and driven, except between the two writes of
`disable_bus`. That is what keeps a leftover of one transfer out of the next:
`set_master` waits for a free bus. `WireInv` relates the cursor to the wire: which
byte IICDS holds, how `moved` of the current message follows from `msg_ptr` and
the last acknowledgement, that earlier messages are finished and later ones
untouched. `Result` carries it to `ret`, which the caller may read in the middle
of the handler's progress. From these: `TypeCorrect`, `HandlerQuietInDoxfer`,
`BuffersNotOverrun` (with `OopsInv`: the kernel stops only at a byte that its
buffer has no room for), `MessagesInOrder`, `RetriesAreFresh`, `ResultIsSound` and
`ImplementsAdapter`, that is `Spec => AdapterSpec`.
The third layer (`EndInvariant`) is about how a transfer ends. `StopInv`: a
transfer that has stopped has its `Outcome`, all messages finished and counted or
an error and one that is not, and no byte of it is still in IICDS; the caller goes
on without a timeout only then, so the outcome is what it returns
(`ResultIsExact`). `QuietInv` follows IRQEN, the pending bit and TXRXEN from the
stop through the two writes of `disable_bus` to the next transfer, on a HDMIPHY bus
from the handler's own writes (`TransfersStopCleanly`). `AckInv`: during a read
ACKEN is off exactly at the last byte, which for a block read needs that its
length is 1 as long as no byte has come, whatever the slave then makes of it, 0
included
(`LastByteIsRefused`).

**KeyJitterProofs**, for both button drivers, any number of buttons and processes
and any number of jiffies in 10 ms. `IInv` has five parts. Types; `PollInv`: a process in poll is on
the queue and sleeps only if it was woken or there is nothing to read;
`BurstInv`: while contacts bounce the timer is at `TenMs + 1 - quiet`, so it does
not expire among edges; `SampleInv`: a button whose value is old has its
interrupt pending, or the timer set, or its place in the scan ahead; `SignalInv`:
what a read has loaded so far is current unless SIGIO is pending. From these:
`TypeCorrect`, `EdgesNotLost`, `DebouncedOnce`, `WakeupsNotLost`,
`SignalsSuffice`.

**At24Proofs**, for any processes, counts, positions, sizes and number of retries.
`TypeCorrect` and `BlocksInPages` (with the arithmetic of page boundaries:
`NextBoundary`, `QuotientUnique`, `SamePage`) need only the types. `DataInv` says
that the bytes moved are those the loop has counted, in a write at most one more;
`WritesArePrefixes` and `ResultsTrue` follow from it. For a call that met a timeout
(`short`) what is left is the upper bound: nothing is written ahead of the loop,
whether or not the transfer that timed out did its work.
`CallsGetOn` is the safety part of `CallReturns`: every step of a call leaves the loop,
or counts more bytes within `count`, or one more try within `Tries`, and no step of
another process takes the call back (`CallsAdvance`).

**InputProofs**, the two drivers of the input subsystem. For the buttons, of any
number, `EdgeInv`: a button that is not
`missed` has its interrupt pending, or owns `irq_pd` with the timer set, or is in
the hands of the timer function with its pin unread or read right, or has its key
right. The second case is what an interrupt of another button destroys, which
puts it into `missed`. From this: `TypeCorrect`, `OnlyOvertakenLost`. For the touch screen,
`TsTypeCorrect` (adc_irq never indexes beyond its samples),
`MeasuringEnds`, and `TouchNotForgotten`: by `WatchInv` a touch that is reported
has a conversion, the timer or its function still to come that looks at the pen.

**UsbMouseProofs**, for any mice and buttons. `OneMouseInv`: unless mice overlapped,
the only objects alive are those the globals point to, a mouse that is not out
has them, and a urb is submitted only for them and not after the kill.
`KeysInv`: the keys are `pre_val` without the stale buttons, and `pre_val` is the
last report plus the stale ones. From these: `TypeCorrect`, `OneMouseIsSafe` (of
"freed"; "again" no driver state excludes),
`KeysFollowReports`. `MouseIsHeard` (`KeepsListening`) is the safety part of
`ReportsGoOn`: unless a urb was refused, the only mouse's urb is submitted between
any two steps, so that the run's fairness has something to act on.

**RamBlockProofs**, for any number of bios and sectors and any values. `Fits`: what
is left of a request lists bios one after the other, each from where it has got to
up to its end, at adjacent places of the disk, and a segment ends with each bio.
`Owned`: no bio is in two requests. Merging keeps this because a bio is merged
whole, and only where it is adjacent (`FitsJoin`, `FitsNew`); ending a segment
keeps it because a segment, the stretch up to the first end (`CurSectors`, from the
least element of a set of numbers), never passes the end of the bio at the head
(`HeadBlock`, `FitsTail`). Hence `StaysInRange`; and a segment's sectors are the next
ones of its bio, so that the step is a `Move` of BlockDevice, a submission is a
`Submit` and fetching changes nothing: `ImplementsDisk`, that is
`Spec => IsDisk`.
By the disk's steps alone a bio has sectors left exactly while it lives
(`NoBioLost`, theorem `BiosStayQueued`): the safety part of `BiosEnd`.
`ReadsFindWritten` is about RamBlockReads: a read brings, of each of its sectors,
the last write that had ended when it was submitted, or one that was in hand with
it. The proof uses nothing of the driver but that its steps are the disk's. Its
invariant: a sector holds what is known of it, or what a write in hand has put
there (`Known`); the same with what a write in hand would make known if it ended
(`Over`), which is what carries `Known` over its end; and a read in hand has found,
or would find, only what it may (`Found`, `Awaited`).

**VnetProofs**, for any addresses and lengths, and any number of packets. The
properties speak of the time between packets; the invariant adds what is missing
while `vnet_send_packet` runs. `Matched` and `Rx`: all packets that ask for it are
answered in their order, but for the one in hand until its byte has been tested,
and that one still has the addresses and the length it came with. `Tx`: all are
counted but the one in hand. A reuse of the skb comes after the answer, so it can
spoil nothing but the bytes sent. From these: `TypeCorrect`, `AnswersEachEcho`,
`CountsWhatWasSent`. `MaxPackets` plays no part in the proof.

**DriverModulesProofs**, for any tables that obey `DriverRules`: the proof unfolds
none, so that a driver that is added needs no new one, only that TLC evaluates
`RulesAssumption` again. `Stands`: where the driver can stand. `WithinBounds`: what
is held lies between `Must` and `May` of the place, and what is still to be given
back is the rest of the place's list. `Served`: a callback that can come finds
what it touches. A step moves both bounds with it (`MustNext`, `MayNext`); a
callback raises what is held within `May`, and lowers it only by what `Must` does
not promise. From these: `BoundsHold`, `CallbacksServed` (`Served` alone, which is
`TouchesOnlyHeld` one step ahead and no property of its own),
`NothingTouchedInVain`, `NothingIsLeft`, `OnlyHeldReleased`, `TypeCorrect`.

Only model-checked: liveness (`XferReturns`, `RestReported`, `LiftReported`,
`HoldReported`, `CallReturns`, `LastReported`, `ReportsGoOn`, `BiosEnd`,
`QueueGoesOn`), which is out of the prover's reach; of `CallReturns`, `ReportsGoOn`
and `BiosEnd` the safety part is proved, as said above. Every other invariant, action
property and refinement that a passing run checks is proved.

## 5. What is not modelled

- The polled transfers of the bus driver (QUIRK_POLL), for exynos5-sata-phy only:
  the loop depends on what LASTBIT is after a byte that the master itself refuses,
  which the code does not say. `s3c24xx_i2c_remove`, `s3c24xx_i2c_clockrate` and the
  cpufreq notifier are named in the file and not defined in it, and nothing sets
  `i2c->suspended`. Arbitration loss, which
  the handler only logs. `platform_get_irq` returning 0, which the probe takes for an
  error and returns as success.
- Values of bytes, coordinates and colours; which cell of the chip a byte goes to,
  and so the wrap of EEPROM addresses.
- The registers `mylcd_init` and `my_key_open` set, a straight sequence of writes;
  the IP checksum of `emulator_rx_packet`, which it rebuilds each time, and the
  ICMP checksum, which it leaves as it was in the request. Packets shorter than
  the headers that it reads and changes without looking at their length.
- Requests that the elevator merges with one another (two bios that become
  neighbours when a third joins them); bios are merged into requests only.
- `key` and `led` keep nothing between calls beyond what DriverModules has.
  `req_drv.c` does not compile; its `poll` without `poll_wait` is a mistake that
  `NoLostWakeup` is shown to notice.
- `src/nand` holds notes only; `rw_file.c`, `key_loop_test.c` and the other test
  programs are programs without state of their own. The ones that poll and wait
  for SIGIO are the processes of KeyJitter, `rw_file` one of At24.

## 6. Plan

Written, most important first: bus driver and contract, debounced buttons, touch
screen, EEPROM driver, setting up and tearing down, key_irq, KeyInput, UsbMouse,
RamBlock with BlockDevice, Vnet. What is left:
the EEPROM driver with the chip's cells and 8-bit addresses, composed with
`I2cAdapter` instead of its outcomes written out.
