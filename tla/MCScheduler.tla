---------------------------- MODULE MCScheduler ----------------------------
(* Small instances of Scheduler: a frame of two or three lines.               *)
EXTENDS Scheduler

\* The LCD, DMA sleep, a serial transfer, a timer whose reload value changes.
LcdActs == {"plain", "idle_loop", "halt", "dma", "start_timer", "set_reload", "serial",
            "write_ie", "write_if", "mask", "unmask", "switch"}
VBlankMasks == {{}, {"vblank"}}

\* Two timers, one cascaded on the other, and a processor that halts.
LiveActs == {"plain", "halt", "start_timer", "stop_timer", "write_ie", "unmask"}
LiveMasks == {{}, {"timer0", "vblank"}}

\* Slices shortened by a timer that starts within them.
SliceActs == {"plain", "start_timer", "stop_timer"}
=============================================================================
