------------------------------- MODULE FlashMap ------------------------------
(***************************************************************************)
(* flash_data.rs: map_flash_region and find_first_free_run, which map the  *)
(* font partition into the address space at program start.  The scan looks *)
(* for the first run of free entries of the MMU table that is long enough; *)
(* the bootloader, and before this the PSRAM driver, have taken others.    *)
(* Nothing else writes the table meanwhile.                                *)
(*                                                                         *)
(* An entry is Free, Taken, or the number of the flash page it shows.  A   *)
(* virtual address counts from EXTMEM_ORIGIN.                              *)
(***************************************************************************)
EXTENDS Naturals

CONSTANTS
    MMU_TABLE_ENTRIES,
    MMU_PAGE_SIZE,
    Free, Taken,
    Tables,         \* the tables that the program may start with
    Regions         \* the regions it may ask for, by offset and length

Slots == 0 .. MMU_TABLE_ENTRIES - 1

ASSUME TableAssumption ==
    /\ MMU_TABLE_ENTRIES \in Nat \ {0}
    /\ MMU_PAGE_SIZE \in Nat \ {0}
    /\ Free # Taken /\ Free \notin Nat /\ Taken \notin Nat
    /\ Tables \subseteq [Slots -> {Free, Taken}]
    /\ Regions \subseteq [offset : Nat, len : Nat \ {0}]

VARIABLES
    region,         \* the arguments
    table,          \* the MMU table
    mmu,            \* "scanning", "found", "mapped" or "panicked"
    i, run_start, run_len

flashVars == <<region, table, mmu, i, run_start, run_len>>

\* The last entry is the bootloader's.
usable == MMU_TABLE_ENTRIES - 1

FlashInit ==
    /\ region \in Regions
    /\ table \in Tables
    /\ mmu = "scanning"
    /\ i = 0 /\ run_start = 0 /\ run_len = 0

-----------------------------------------------------------------------------
intra_page == region.offset % MMU_PAGE_SIZE

\* Mutant: the offset within the first page is not counted.
pages_of_len == (region.len + MMU_PAGE_SIZE - 1) \div MMU_PAGE_SIZE

num_pages == (intra_page + region.len + MMU_PAGE_SIZE - 1) \div MMU_PAGE_SIZE

\* A free entry begins or lengthens a run; the scan ends when it is long enough.
ScanFree ==
    /\ mmu = "scanning" /\ i < usable
    /\ table[i] = Free
    /\ run_start' = IF run_len = 0 THEN i ELSE run_start
    /\ run_len' = run_len + 1
    /\ i' = i + 1
    /\ mmu' = IF run_len + 1 >= num_pages THEN "found" ELSE "scanning"
    /\ UNCHANGED <<region, table>>

\* Mutant: a taken entry does not end the run.
ScanTakenGoesOn ==
    /\ mmu = "scanning" /\ i < usable
    /\ table[i] # Free
    /\ i' = i + 1
    /\ UNCHANGED <<region, table, mmu, run_start, run_len>>

ScanTaken ==
    /\ mmu = "scanning" /\ i < usable
    /\ table[i] # Free
    /\ run_len' = 0
    /\ i' = i + 1
    /\ UNCHANGED <<region, table, mmu, run_start>>

ScanPanics ==
    /\ mmu = "scanning" /\ i = usable
    /\ mmu' = "panicked"
    /\ UNCHANGED <<region, table, i, run_start, run_len>>

\* cache_dbus_mmu_set: consecutive entries show consecutive flash pages.
MapPages ==
    /\ mmu = "found"
    /\ table' = [s \in Slots |->
                    IF run_start <= s /\ s < run_start + num_pages
                    THEN region.offset \div MMU_PAGE_SIZE + (s - run_start)
                    ELSE table[s]]
    /\ mmu' = "mapped"
    /\ UNCHANGED <<region, i, run_start, run_len>>

\* The ROM function refuses: the cache is resumed, then the program panics.
MapPanics ==
    /\ mmu = "found"
    /\ mmu' = "panicked"
    /\ UNCHANGED <<region, table, i, run_start, run_len>>

FlashNext == ScanFree \/ ScanTaken \/ ScanPanics \/ MapPages \/ MapPanics

FlashSpec == FlashInit /\ [][FlashNext]_flashVars

-----------------------------------------------------------------------------
\* The type invariant of the table and the scan.
FlashTypeOK ==
    /\ region \in Regions
    /\ table \in [Slots -> Nat \union {Free, Taken}]
    /\ mmu \in {"scanning", "found", "mapped", "panicked"}
    /\ i \in 0 .. usable
    /\ run_start \in 0 .. usable
    /\ run_len \in 0 .. usable
    /\ run_start + run_len <= usable

\* flash_data.rs 103: what is mapped already, the PSRAM that holds the heap
\* among it, "won't be clobbered", nor is the bootloader's last entry.
NothingClobbered ==
    [][\A s \in Slots : table'[s] # table[s] => table[s] = Free /\ s # usable]_flashVars

FreeRun(s) == s + num_pages <= usable /\ \A n \in s .. s + num_pages - 1 : table[n] = Free

\* Without a ROM failure (which comes after a run was found, run_len >=
\* num_pages) the program panics only where no run is long enough, wherever in
\* the table and however close to its end a run is.
PanicsOnlyIfFull ==
    mmu = "panicked" /\ run_len < num_pages => \A s \in Slots : ~FreeRun(s)

\* map_flash_region 131: byte b of the slice, which starts intra_page into the
\* first mapped page, is byte flash_offset + b of flash, up to its last one.
SliceShowsFlash ==
    mmu = "mapped" =>
        \A b \in 0 .. region.len - 1 :
            LET v == run_start * MMU_PAGE_SIZE + intra_page + b
                f == region.offset + b
            IN  /\ table[v \div MMU_PAGE_SIZE] = f \div MMU_PAGE_SIZE
                /\ v % MMU_PAGE_SIZE = f % MMU_PAGE_SIZE

\* flash_data.rs 104-199: the region is mapped as asked for, wherever it fits.
FontIsMapped == PanicsOnlyIfFull /\ SliceShowsFlash
=============================================================================
