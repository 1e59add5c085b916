-------------------------- MODULE MCCentralScheduler --------------------------
(* A cell of 6 RBs with two UEs of two logical channels.                    *)
EXTENDS CentralScheduler

\* The rows of TBStable, in bytes, for up to 6 RBs.
Rows ==
  << <<2, 4, 7, 11, 15, 19>>, <<3, 7, 11, 18, 22, 26>>, <<4, 9, 18, 22, 26, 32>>,
     <<5, 13, 22, 26, 32, 41>>, <<7, 15, 26, 32, 41, 51>>, <<9, 18, 28, 41, 53, 63>>,
     <<41, 22, 32, 49, 63, 75>>, <<13, 28, 41, 59, 73, 89>>, <<15, 32, 49, 67, 85, 101>>,
     <<17, 37, 57, 77, 97, 117>>, <<18, 41, 63, 85, 109, 129>>, <<22, 47, 73, 97, 125, 149>>,
     <<26, 55, 85, 113, 141, 169>>, <<28, 61, 93, 125, 157, 193>>, <<32, 69, 105, 141, 177, 217>>,
     <<35, 75, 113, 153, 193, 225>>, <<41, 79, 121, 161, 201, 241>>, <<42, 87, 133, 177, 225, 269>>,
     <<47, 97, 145, 193, 249, 293>>, <<51, 105, 161, 217, 269, 325>>, <<55, 113, 173, 233, 293, 349>>,
     <<61, 125, 185, 249, 309, 373>>, <<65, 133, 201, 269, 333, 405>>, <<69, 141, 217, 285, 357, 437>>,
     <<73, 149, 225, 301, 373, 453>>, <<77, 157, 233, 317, 389, 469>>, <<89, 185, 277, 373, 469, 549>> >>

MCTBStable == [i \in 0 .. 26 |-> Rows[i + 1]]
MCQueueSizes == << {<<130, 30>>, <<0, 10>>}, {<<8, 60>>} >>
MCCqis == << {10}, {2} >>
MCOldBlocks == { [mcs |-> 9, nb |-> 3] }
MCJunkMcs == {28}
=============================================================================
