------------------------------- MODULE MCParts -------------------------------
(***************************************************************************)
(* The parts that are checked alone.  Of the PC programs: the presenter,   *)
(* the framing of lines, the times of the heartbeat and the settings file. *)
(* Of the firmware: the Bluedroid transport, the rings, the flash image    *)
(* with the table of main/spi_flash.c and addresses of 16 bits, and the    *)
(* packing of reports; and the NFC microcontroller, driven by every order  *)
(* of its operations.  Nothing relates them here: each behaviour is one of *)
(* one of them, while the others stay as they began.                       *)
(***************************************************************************)
EXTENDS Presenter, SerialLines, Heartbeat, Settings,
        BtHid, Ring, SpiFlash, InputReport, NfcMcu, TLC

CONSTANTS first, second, copy, image1, image2

\* Three files, two of which hold the same image.
MCImage == (first :> image1) @@ (copy :> image1) @@ (second :> image2)

Serial == <<88, 65, 87>> \o [i \in 1..11 |-> 48] \o <<0, 0>>
Axes(x) == x \o x \o x
Imu == [i \in 1..6 |-> 0] \o Axes(<<0, 64>>) \o [i \in 1..6 |-> 0] \o Axes(<<224, 59>>)
Stick == <<0, 7, 112, 0, 8, 128, 0, 7, 112>>
Colors == <<50, 50, 50, 255, 255, 255, 50, 50, 50, 50, 50, 50>>
Region(start, end, data) == [start |-> start, end |-> end, data |-> data]

MCRegions ==
    << Region(24576, 24591, Serial),
       Region(24608, 24631, Imu),
       Region(24637, 24645, Stick),
       Region(24646, 24654, Stick),
       Region(24656, 24667, Colors),
       Region(32784, 32805, [i \in 1..22 |-> 255]),
       Region(32806, 32833, [i \in 1..26 |-> 255]) >>
MCAddresses == (0..2) \cup (24540..24670) \cup (32752..32840) \cup (65500..65535)

VARIABLE part

pcVars == <<presenterVars, linesVars, beatVars, settingsVars>>
firmwareVars == <<nfcVars, btVars, ringVars, flashVars, reportVars>>
partVars == <<part, pcVars, firmwareVars>>

PartInit ==
    /\ part \in {"presenter", "lines", "heartbeat", "settings",
                "nfc", "bluedroid", "ring", "flash", "report"}
    /\ Begin /\ LinesInit /\ BeatInit /\ SettingsInit
    /\ NfcInit /\ BtInit /\ RingInit /\ FlashInit /\ ReportInit

PcNext ==
    /\ UNCHANGED firmwareVars
    /\ \/ /\ part = "presenter" /\ PresenterNext
          /\ UNCHANGED <<linesVars, beatVars, settingsVars>>
       \/ /\ part = "lines" /\ LinesNext
          /\ UNCHANGED <<presenterVars, beatVars, settingsVars>>
       \/ /\ part = "heartbeat" /\ BeatNext
          /\ UNCHANGED <<presenterVars, linesVars, settingsVars>>
       \/ /\ part = "settings" /\ SettingsNext
          /\ UNCHANGED <<presenterVars, linesVars, beatVars>>

FirmwareNext ==
    /\ UNCHANGED pcVars
    /\ \/ /\ part = "nfc" /\ NfcNext
          /\ UNCHANGED <<btVars, ringVars, flashVars, reportVars>>
       \/ /\ part = "bluedroid" /\ BtNext
          /\ UNCHANGED <<nfcVars, ringVars, flashVars, reportVars>>
       \/ /\ part = "ring" /\ RingNext
          /\ UNCHANGED <<nfcVars, btVars, flashVars, reportVars>>
       \/ /\ part = "flash" /\ FlashNext
          /\ UNCHANGED <<nfcVars, btVars, ringVars, reportVars>>
       \/ /\ part = "report" /\ ReportNext
          /\ UNCHANGED <<nfcVars, btVars, ringVars, flashVars>>

PartNext == UNCHANGED part /\ (PcNext \/ FirmwareNext)

PartSpec ==
    /\ PartInit /\ [][PartNext]_partVars
    /\ PresenterFairness /\ BtFairness
=============================================================================
