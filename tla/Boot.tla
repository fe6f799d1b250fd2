-------------------------------- MODULE Boot --------------------------------
(***************************************************************************)
(* The boot picker (loaders/thos-boot/src/main.rs): it lists the loaders   *)
(* named by the firmware's variables and the ones found on the volumes,    *)
(* reads boot.conf, shows a menu with a countdown, and loads, measures and *)
(* starts what was picked; when that returns or fails the menu comes back. *)
(*                                                                         *)
(* A label is a sequence of words, a device path a record; what the        *)
(* firmware holds is `fw'.                                                 *)
(***************************************************************************)
EXTENDS Naturals, Sequences, SequencesExt, FiniteSetsExt

CONSTANTS
    Firmware,       \* the machines: [order, self, vols, tpm, conf]
    KNOWN,          \* the loader paths to probe: a sequence of [path, label]
    FirmwareWords,  \* words of a label that name an app of the firmware, or this picker
    TICKS,          \* ticks in a second
    MaxKeys,        \* bound: key presses
    MaxTries        \* bound: loads

VARIABLES
    fw,             \* the firmware's variables, volumes and TPM, and the picker's file
    pc,             \* "start", "menu", "load", "measure", "run", "running", "none"
    entries,        \* a sequence of [label, dp, from_nvram]
    timeout, sel, default,
    remaining, counting,
    image,          \* device path of the loaded image
    pcr4,           \* the measurements logged
    keys, tries

vars == <<fw, pc, entries, timeout, sel, default, remaining, counting, image, pcr4, keys, tries>>

NoImage == [disk |-> FALSE, efi |-> FALSE, fwfile |-> FALSE, path |-> <<>>]

Init ==
    /\ fw \in Firmware
    /\ pc = "start" /\ entries = <<>> /\ timeout = 0 /\ sel = 0 /\ default = 0
    /\ remaining = 0 /\ counting = FALSE
    /\ image = NoImage /\ pcr4 = <<>> /\ keys = 0 /\ tries = 0

----------------------------------------------------------------------------
(* Enumeration. *)

\* An entry on a disk partition that ends in a loader, and no app of the firmware's.
real_os_entry(o) ==
    /\ o.label # <<>> /\ \A i \in DOMAIN o.label : o.label[i] \notin FirmwareWords
    /\ o.dp.disk /\ o.dp.efi /\ ~o.dp.fwfile

\* The options of BootOrder that are there, active and whole, and not this picker.
collect_nvram ==
    LET Offered(o) == o.set /\ o.active /\ o.whole /\ o.dp # fw.self /\ real_os_entry(o)
        S == SelectSeq(fw.order, Offered)
    IN [n \in DOMAIN S |-> [label |-> S[n].label, dp |-> S[n].dp, from_nvram |-> TRUE]]

append_file_path(v, path) == [disk |-> TRUE, efi |-> TRUE, fwfile |-> FALSE, path |-> <<v, path>>]

\* The known loaders that each volume has.
collect_probe ==
    LET Found(v) == LET S == SelectSeq(KNOWN, LAMBDA k : k.path \in fw.vols[v])
                    IN [n \in DOMAIN S |-> [label |-> S[n].label, dp |-> append_file_path(v, S[n].path),
                                            from_nvram |-> FALSE]]
    IN FlattenSeq([v \in DOMAIN fw.vols |-> Found(v)])

label_present(out, label) == \E i \in DOMAIN out : out[i].label = label

\* Both, in that order; of those with one label only the first is pushed.
enumerate ==
    LET all == collect_nvram \o collect_probe
        Pushed(i) == ~label_present(SubSeq(all, 1, i - 1), all[i].label)
        kept == SelectSeq([i \in DOMAIN all |-> i], Pushed)
    IN [n \in DOMAIN kept |-> all[kept[n]]]

----------------------------------------------------------------------------
(* Configuration. *)

\* boot.conf: five seconds and the first entry, unless a line says otherwise; a line
\* that cannot be parsed says nothing.
read_config ==
    FoldLeft(LAMBDA c, line :
                CASE line.key = "timeout" /\ line.num -> [c EXCEPT !.timeout = line.n]
                  [] line.key = "default" -> [c EXCEPT !.kind = IF line.num THEN "Index" ELSE "Match",
                                                       !.n = line.n, !.word = line.word]
                  [] OTHER -> c,
             [timeout |-> 5, kind |-> "First", n |-> 0, word |-> ""], fw.conf)

\* The entry to start on, from 0: an index past the end is the last, no match the first.
resolve_default(es, d) ==
    CASE d.kind = "Index" -> Min({d.n, Len(es) - 1})
      [] d.kind = "First" -> 0
      [] OTHER -> LET Hit == {i \in DOMAIN es : \E j \in DOMAIN es[i].label : es[i].label[j] = d.word}
                  IN IF Hit = {} THEN 0 ELSE Min(Hit) - 1

\* The menu is entered with the countdown from the top.
menu(t, s) ==
    /\ pc' = "menu" /\ sel' = s
    /\ remaining' = t * TICKS /\ counting' = (t > 0)

main ==
    /\ pc = "start"
    /\ \E es \in {enumerate}, conf \in {read_config} :
        /\ entries' = es
        /\ IF es = <<>>
           THEN pc' = "none" /\ UNCHANGED <<timeout, sel, default, remaining, counting>>
           ELSE /\ timeout' = conf.timeout
                /\ default' = resolve_default(es, conf)
                /\ menu(conf.timeout, resolve_default(es, conf))
    /\ UNCHANGED <<fw, image, pcr4, keys, tries>>

----------------------------------------------------------------------------
(* The menu. *)

Pick(s) == pc' = "load" /\ sel' = s

\* Mistake: every turn starts the countdown again.
CountdownAgain(count, s) ==
    /\ counting' = count
    /\ remaining' = timeout * TICKS
    /\ pc' = pc /\ sel' = s

\* The end of a turn: while it counts, a tick passes.
Countdown(count, s) ==
    /\ counting' = count
    /\ remaining' = IF count THEN remaining - 1 ELSE remaining
    /\ IF count /\ remaining = 1 THEN Pick(s) ELSE pc' = pc /\ sel' = s

Unpressed ==
    /\ pc = "menu"
    /\ Countdown(counting, sel)
    /\ UNCHANGED <<fw, entries, timeout, default, image, pcr4, keys, tries>>

\* Enter and escape pick; a digit picks its entry; anything else stops the countdown.
Press ==
    /\ pc = "menu" /\ keys < MaxKeys /\ tries < MaxTries
    /\ keys' = keys + 1
    /\ \/ /\ \E s \in {sel} \cup 0..Min({9, Len(entries) - 1}) : Pick(s)
          /\ UNCHANGED <<remaining, counting>>
       \/ \E s \in {sel, (sel + 1) % Len(entries), (sel + Len(entries) - 1) % Len(entries)} :
            Countdown(FALSE, s)
    /\ UNCHANGED <<fw, entries, timeout, default, image, pcr4, tries>>

----------------------------------------------------------------------------
(* Chainloading. *)

\* Back in the menu, on the entry that was tried.
Again == menu(timeout, sel)

\* load_image of the entry's device path; the firmware may refuse it.
chainload ==
    /\ pc = "load" /\ tries < MaxTries
    /\ tries' = tries + 1
    /\ \/ /\ image' = entries[sel + 1].dp
          /\ pc' = "measure"
          /\ UNCHANGED <<sel, remaining, counting>>
       \/ image' = NoImage /\ Again
    /\ UNCHANGED <<fw, entries, timeout, default, pcr4, keys>>

\* measure: with a TPM the loaded image is hashed into PCR 4 before it runs.
measure ==
    /\ pc = "measure"
    /\ pcr4' = IF fw.tpm THEN Append(pcr4, image) ELSE pcr4
    /\ pc' = "run"
    /\ UNCHANGED <<fw, entries, timeout, sel, default, remaining, counting, image, keys, tries>>

start_image ==
    /\ pc = "run"
    /\ pc' = "running"
    /\ UNCHANGED <<fw, entries, timeout, sel, default, remaining, counting, image, pcr4, keys, tries>>

\* The loader returns, or StartImage fails.
Returned ==
    /\ pc = "running" /\ tries < MaxTries
    /\ Again
    /\ UNCHANGED <<fw, entries, timeout, default, image, pcr4, keys, tries>>

Next == main \/ Unpressed \/ Press \/ chainload \/ measure \/ start_image \/ Returned

\* The picker runs; nobody need press a key, and a started loader need not return.
Fairness == WF_vars(main \/ Unpressed \/ chainload \/ measure \/ start_image)
Spec == Init /\ [][Next]_vars /\ Fairness

----------------------------------------------------------------------------
(* Properties. *)

Due == pc = "running" /\ image = entries[default + 1].dp /\ (fw.tpm => pcr4 # <<>> /\ Last(pcr4) = image)

Refused == image = NoImage /\ tries > 0

\* With a timeout set and a loader on a disk, a machine nobody touches starts the
\* configured entry, measured first when there is a TPM, unless the firmware refuses
\* to load it; it does not wait at the menu for ever (enumerate, resolve_default,
\* menu's countdown, chainload, measure).
UnattendedBoots ==
    (pc = "menu" /\ counting) ~> (Due \/ Refused \/ keys > 0)

=============================================================================
