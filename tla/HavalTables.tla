----------------------------- MODULE HavalTables -----------------------------
(***************************************************************************)
(* The data of HAVAL that needs no bit operations: sph_u32 words and       *)
(* their SPH_T32 addition, the initial value of haval_init, and the word   *)
(* orders and constants of both builds of the passes (unrolled, and the    *)
(* SPH_SMALL_FOOTPRINT_HAVAL loops over MP2..MP5 and RK2..RK5).            *)
(***************************************************************************)
EXTENDS Naturals, Sequences

(* TLC's integers have 31 bits: an sph_u32 is the pair <<high, low>> of   *)
(* its 16-bit halves.                                                      *)
Half == 0 .. 2^16 - 1
Word == Half \X Half

(* SPH_T32(a + b) on a platform whose sph_u32 is wider than 32 bits, had *)
(* the SPH_T32 been left out: the carry out of bit 31 stays.              *)
Add32NoWrap(a, b) ==
    LET lo == a[2] + b[2] IN <<a[1] + b[1] + lo \div 2^16, lo % 2^16>>

(* SPH_T32(a + b): the sum modulo 2^32, the low half's carry going into  *)
(* the high half.                                                          *)
Add32(a, b) ==
    LET lo == a[2] + b[2] IN <<(a[1] + b[1] + lo \div 2^16) % 2^16, lo % 2^16>>

(* haval_init: the chaining value s0..s7 a HAVAL context starts from. *)
HavalIV == << <<9279, 27272>>, <<34211, 2259>>, <<4889, 35374>>, <<880, 29508>>,
              <<41993, 14370>>, <<10655, 12752>>, <<2094, 64152>>, <<60494, 27785>> >>

-----------------------------------------------------------------------------
(* The tables below hold each SPH_C32 constant of the code as the pair of *)
(* its 16-bit halves, in decimal.                                         *)
(* The unrolled build (#else branch): the word indices in(..) and the     *)
(* constants written in PASS1 .. PASS5, the p-th tuple for PASSp.         *)
UnrolledIn(p) ==
    << [k \in 1 .. 32 |-> k - 1],
       << 5, 14, 26, 18, 11, 28,  7, 16,
        0, 23, 20, 22,  1, 10,  4,  8,
       30,  3, 21,  9, 17, 24, 29,  6,
       19, 12, 15, 13,  2, 25, 31, 27>>,
       <<19,  9,  4, 20, 28, 17,  8, 22,
       29, 14, 25, 12, 24, 30, 16, 26,
       31, 15,  7,  3,  1,  0, 18, 27,
       13,  6, 21, 10, 23, 11,  5,  2>>,
       <<24,  4,  0, 14,  2,  7, 28, 23,
       26,  6, 30, 20, 18, 25, 19,  3,
       22, 11, 31, 21,  8, 27, 12,  9,
        1, 29,  5, 15, 17, 10, 16, 13>>,
       <<27,  3, 21, 26, 17, 11, 20, 29,
       19,  0, 12,  7, 13,  8, 31, 10,
        5,  9, 14, 30, 18,  6, 28, 24,
        2, 23, 16, 22,  4,  1, 25, 15>> >>[p]

UnrolledC(p) ==
    << [k \in 1 .. 32 |-> <<0, 0>>],
       <<<<17704,  8678>>,  <<14544,  4983>>, <<48724, 26319>>,  <<13545,  3180>>,
       <<49324, 10679>>, <<51580, 20701>>, <<16260, 54709>>, <<46407,  2327>>,
       <<37398, 54745>>, <<35193, 64283>>, <<53553,  2982>>, <<39135, 46508>>,
        <<12285, 29403>>, <<53274, 57271>>, <<47329, 45037>>, <<27174, 32406>>,
       <<47740, 36933>>, <<61740, 32665>>,  << 9377, 39239>>, <<45969, 27895>>,
        << 2049, 62178>>, <<34190, 64534>>, <<25449,  8408>>, <<29015, 20073>>,
       <<42072, 65187>>, <<62611, 15742>>,  << 3477, 29839>>, <<29326, 46680>>,
       <<29067, 52568>>, <<33301, 19182>>, <<31572, 42013>>, <<49754, 22965>>>>,
       <<<<39984, 54585>>,  <<10994, 24595>>, <<50641, 45091>>,  <<10336, 34288>>,
       <<51777, 31000>>, <<47323, 14575>>, <<36473, 56496>>, <<24634,  6158>>,
       <<27806,  3723>>, <<45086, 35390>>, <<55061, 30657>>, <<48433, 19239>>,
       <<30895, 12250>>, <<21856, 23648>>, <<58965,  9715>>, <<43605, 43924>>,
       <<22344, 39010>>, <<25576,  5184>>, <<21962, 14698>>,  <<10923,  4278>>,
       <<46284, 23604>>,  << 4417, 59598>>, <<41300, 34479>>, <<31858, 59795>>,
       <<46062,  5137>>, <<25455, 48170>>,  <<11177, 50525>>, <<29720, 12790>>,
       <<52828, 15894>>, <<39815, 37662>>, <<45014, 47667>>, <<27684, 53084>>>>,
       <<<<31282, 21377>>,  <<10389, 34423>>,  <<15247, 18584>>, <<27467, 47535>>,
       <<50367, 59419>>, <<26152,  8595>>, <<25048,  2508>>, <<64289, 43409>>,
       <<18556, 44128>>, <<24044, 32818>>, <<61316, 23901>>, <<59781, 30129>>,
       <<56358,  8962>>, <<60261,  7048>>,  << 9097, 16001>>, <<54166, 44229>>,
        << 3949, 28659>>, <<33780, 16953>>,  <<11787, 17538>>, <<42116,  8196>>,
       <<27080, 61514>>, <<40479, 39774>>,  << 8646, 26690>>, <<63209, 27802>>,
       <<26380, 40033>>, <<43987, 35056>>, <<27217, 41170>>, <<55380, 12136>>,
       <<38415, 42792>>, <<43857, 13219>>, <<28399,  2924>>,  << 4986, 15332>>>>,
       <<<<47675, 61520>>, <<32507, 10904>>, <<41457, 25885>>,  <<14767,   374>>,
       <<26314, 22846>>, <<33347,  3720>>, <<36078, 34329>>, <<17775, 40884>>,
       <<32132, 42435>>,  <<15243, 24254>>, <<57455, 30168>>, <<34241,  8307>>,
       <<16410, 17567>>, <<22209, 27302>>, <<20179, 43618>>,  <<13887, 30470>>,
        << 7166, 57202>>, <<17051,   573>>,  <<14288, 55076>>, <<53258,  4680>>,
       <<56079, 60115>>, <<18929, 49307>>,  << 1875, 29385>>, <<32921,  7035>>,
        << 9684, 31192>>, <<63208, 57079>>, <<58366, 20506>>, <<46713, 19515>>,
       <<38764, 57533>>,   << 1216,  1722>>, <<49577, 20406>>, <<16543, 24772>>>> >>[p]

(* The small-footprint build: PASS1 is a loop over in(pass_count + k)    *)
(* with constant 0, PASSG(p) reads in(MPp[..]) and RKp[..].              *)
MP2 == << 5, 14, 26, 18, 11, 28,  7, 16,
        0, 23, 20, 22,  1, 10,  4,  8,
       30,  3, 21,  9, 17, 24, 29,  6,
       19, 12, 15, 13,  2, 25, 31, 27>>

(* MP3 with its first two entries swapped. *)
MP3Swapped == <<9, 19, 4, 20, 28, 17, 8, 22,
       29, 14, 25, 12, 24, 30, 16, 26,
       31, 15, 7, 3, 1, 0, 18, 27,
       13, 6, 21, 10, 23, 11, 5, 2>>

MP3 == <<19,  9,  4, 20, 28, 17,  8, 22,
       29, 14, 25, 12, 24, 30, 16, 26,
       31, 15,  7,  3,  1,  0, 18, 27,
       13,  6, 21, 10, 23, 11,  5,  2>>

MP4 == <<24,  4,  0, 14,  2,  7, 28, 23,
       26,  6, 30, 20, 18, 25, 19,  3,
       22, 11, 31, 21,  8, 27, 12,  9,
        1, 29,  5, 15, 17, 10, 16, 13>>

MP5 == <<27,  3, 21, 26, 17, 11, 20, 29,
       19,  0, 12,  7, 13,  8, 31, 10,
        5,  9, 14, 30, 18,  6, 28, 24,
        2, 23, 16, 22,  4,  1, 25, 15>>

RK2 == <<<<17704,  8678>>,  <<14544,  4983>>, <<48724, 26319>>,  <<13545,  3180>>,
       <<49324, 10679>>, <<51580, 20701>>, <<16260, 54709>>, <<46407,  2327>>,
       <<37398, 54745>>, <<35193, 64283>>, <<53553,  2982>>, <<39135, 46508>>,
        <<12285, 29403>>, <<53274, 57271>>, <<47329, 45037>>, <<27174, 32406>>,
       <<47740, 36933>>, <<61740, 32665>>,  << 9377, 39239>>, <<45969, 27895>>,
        << 2049, 62178>>, <<34190, 64534>>, <<25449,  8408>>, <<29015, 20073>>,
       <<42072, 65187>>, <<62611, 15742>>,  << 3477, 29839>>, <<29326, 46680>>,
       <<29067, 52568>>, <<33301, 19182>>, <<31572, 42013>>, <<49754, 22965>>>>

RK3 == <<<<39984, 54585>>,  <<10994, 24595>>, <<50641, 45091>>,  <<10336, 34288>>,
       <<51777, 31000>>, <<47323, 14575>>, <<36473, 56496>>, <<24634,  6158>>,
       <<27806,  3723>>, <<45086, 35390>>, <<55061, 30657>>, <<48433, 19239>>,
       <<30895, 12250>>, <<21856, 23648>>, <<58965,  9715>>, <<43605, 43924>>,
       <<22344, 39010>>, <<25576,  5184>>, <<21962, 14698>>,  <<10923,  4278>>,
       <<46284, 23604>>,  << 4417, 59598>>, <<41300, 34479>>, <<31858, 59795>>,
       <<46062,  5137>>, <<25455, 48170>>,  <<11177, 50525>>, <<29720, 12790>>,
       <<52828, 15894>>, <<39815, 37662>>, <<45014, 47667>>, <<27684, 53084>>>>

RK4 == <<<<31282, 21377>>,  <<10389, 34423>>,  <<15247, 18584>>, <<27467, 47535>>,
       <<50367, 59419>>, <<26152,  8595>>, <<25048,  2508>>, <<64289, 43409>>,
       <<18556, 44128>>, <<24044, 32818>>, <<61316, 23901>>, <<59781, 30129>>,
       <<56358,  8962>>, <<60261,  7048>>,  << 9097, 16001>>, <<54166, 44229>>,
        << 3949, 28659>>, <<33780, 16953>>,  <<11787, 17538>>, <<42116,  8196>>,
       <<27080, 61514>>, <<40479, 39774>>,  << 8646, 26690>>, <<63209, 27802>>,
       <<26380, 40033>>, <<43987, 35056>>, <<27217, 41170>>, <<55380, 12136>>,
       <<38415, 42792>>, <<43857, 13219>>, <<28399,  2924>>,  << 4986, 15332>>>>

RK5 == <<<<47675, 61520>>, <<32507, 10904>>, <<41457, 25885>>,  <<14767,   374>>,
       <<26314, 22846>>, <<33347,  3720>>, <<36078, 34329>>, <<17775, 40884>>,
       <<32132, 42435>>,  <<15243, 24254>>, <<57455, 30168>>, <<34241,  8307>>,
       <<16410, 17567>>, <<22209, 27302>>, <<20179, 43618>>,  <<13887, 30470>>,
        << 7166, 57202>>, <<17051,   573>>,  <<14288, 55076>>, <<53258,  4680>>,
       <<56079, 60115>>, <<18929, 49307>>,  << 1875, 29385>>, <<32921,  7035>>,
        << 9684, 31192>>, <<63208, 57079>>, <<58366, 20506>>, <<46713, 19515>>,
       <<38764, 57533>>,   << 1216,  1722>>, <<49577, 20406>>, <<16543, 24772>>>>

SmallIn(p, j) ==
    IF p = 1 THEN 8 * (j \div 8) + (j % 8) ELSE <<MP2, MP3, MP4, MP5>>[p - 1][j + 1]

SmallC(p, j) ==
    IF p = 1 THEN <<0, 0>> ELSE <<RK2, RK3, RK4, RK5>>[p - 1][j + 1]
=============================================================================
