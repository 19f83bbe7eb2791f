------------------------------- MODULE Paging -------------------------------
(***************************************************************************)
(* The page-directory entries student-distrib rewrites while it runs      *)
(* (paging.c): the 4MB program page at 128MB (page_remap) and the video   *)
(* window at 136MB, which points either at user_page_table (table_remap,  *)
(* as vidmap does) or at video_page_table (vidmem_remap, as the context   *)
(* switch and switch_terminal do for a terminal that is not displayed).   *)
(* Only the first entry of either table is written for the window.  A     *)
(* page table's own address is represented by its name.  Every physical  *)
(* address passed in is page aligned, so "phys | flags" is phys + flags.  *)
(***************************************************************************)
EXTENDS Integers

_4KB   == 4096                      \* syscalls.h 0x1000
_4MB   == 4194304                   \* CONVERT_4MB, _4MB 0x400000
_8MB   == 8388608                   \* _8MB 0x800000
_100MB == 104857600                 \* base of the terminals' off-screen buffers
VIDEO  == 753664                    \* paging.h 0xB8000, the physical text screen

PAGE_TABLE_PRESENT_ENTRY == 7       \* USER / READ+WRITE / PRESENT
PAGE_4MB_ENTRY           == 135     \* 0x87: the same and PS (4MB page)

\* A page-directory entry that is not present (paging_init writes 0x2).
NOT_PRESENT == [table |-> "none", pte0 |-> 2]

\* page_remap(virt, phys): page_directory[virt / 4MB] = phys | 0x87.
page_remap(phys) == phys + PAGE_4MB_ENTRY

\* table_remap(virt, phys): the entry points at user_page_table, whose
\* entry 0 becomes phys | PAGE_TABLE_PRESENT_ENTRY.
table_remap(phys) ==
  [table |-> "user_page_table", pte0 |-> phys + PAGE_TABLE_PRESENT_ENTRY]

\* vidmem_remap(virt, phys): the same through video_page_table.
vidmem_remap(phys) ==
  [table |-> "video_page_table", pte0 |-> phys + PAGE_TABLE_PRESENT_ENTRY]

\* The physical frame a 4MB-page entry maps, and the physical page the
\* first entry of a window's page table maps (address bits of the entry).
FrameOf(pde) == pde - (pde % _4MB)
PageOf(win)  == win.pte0 - (win.pte0 % _4KB)

=============================================================================
