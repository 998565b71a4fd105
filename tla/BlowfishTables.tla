--------------------------- MODULE BlowfishTables ---------------------------
(***************************************************************************)
(* The initial P-array and S-boxes of Blowfish (Blowfish-tables.h): the    *)
(* hexadecimal digits of pi, each word as its two halves.                  *)
(***************************************************************************)
EXTENDS Words

initial_P == <<
  \h243f, \h6a88, \h85a3, \h08d3, \h1319, \h8a2e, \h0370, \h7344, \ha409, \h3822, \h299f, \h31d0, \h082e, \hfa98, \hec4e, \h6c89,
  \h4528, \h21e6, \h38d0, \h1377, \hbe54, \h66cf, \h34e9, \h0c6c, \hc0ac, \h29b7, \hc97c, \h50dd, \h3f84, \hd5b5, \hb547, \h0917,
  \h9216, \hd5d9, \h8979, \hfb1b>>

initial_S1 == <<
  \hd131, \h0ba6, \h98df, \hb5ac, \h2ffd, \h72db, \hd01a, \hdfb7, \hb8e1, \hafed, \h6a26, \h7e96, \hba7c, \h9045, \hf12c, \h7f99,
  \h24a1, \h9947, \hb391, \h6cf7, \h0801, \hf2e2, \h858e, \hfc16, \h6369, \h20d8, \h7157, \h4e69, \ha458, \hfea3, \hf493, \h3d7e,
  \h0d95, \h748f, \h728e, \hb658, \h718b, \hcd58, \h8215, \h4aee, \h7b54, \ha41d, \hc25a, \h59b5, \h9c30, \hd539, \h2af2, \h6013,
  \hc5d1, \hb023, \h2860, \h85f0, \hca41, \h7918, \hb8db, \h38ef, \h8e79, \hdcb0, \h603a, \h180e, \h6c9e, \h0e8b, \hb01e, \h8a3e,
  \hd715, \h77c1, \hbd31, \h4b27, \h78af, \h2fda, \h5560, \h5c60, \he655, \h25f3, \haa55, \hab94, \h5748, \h9862, \h63e8, \h1440,
  \h55ca, \h396a, \h2aab, \h10b6, \hb4cc, \h5c34, \h1141, \he8ce, \ha154, \h86af, \h7c72, \he993, \hb3ee, \h1411, \h636f, \hbc2a,
  \h2ba9, \hc55d, \h7418, \h31f6, \hce5c, \h3e16, \h9b87, \h931e, \hafd6, \hba33, \h6c24, \hcf5c, \h7a32, \h5381, \h2895, \h8677,
  \h3b8f, \h4898, \h6b4b, \hb9af, \hc4bf, \he81b, \h6628, \h2193, \h61d8, \h09cc, \hfb21, \ha991, \h487c, \hac60, \h5dec, \h8032,
  \hef84, \h5d5d, \he985, \h75b1, \hdc26, \h2302, \heb65, \h1b88, \h2389, \h3e81, \hd396, \hacc5, \h0f6d, \h6ff3, \h83f4, \h4239,
  \h2e0b, \h4482, \ha484, \h2004, \h69c8, \hf04a, \h9e1f, \h9b5e, \h21c6, \h6842, \hf6e9, \h6c9a, \h670c, \h9c61, \habd3, \h88f0,
  \h6a51, \ha0d2, \hd854, \h2f68, \h960f, \ha728, \hab51, \h33a3, \h6eef, \h0b6c, \h137a, \h3be4, \hba3b, \hf050, \h7efb, \h2a98,
  \ha1f1, \h651d, \h39af, \h0176, \h66ca, \h593e, \h8243, \h0e88, \h8cee, \h8619, \h456f, \h9fb4, \h7d84, \ha5c3, \h3b8b, \h5ebe,
  \he06f, \h75d8, \h85c1, \h2073, \h401a, \h449f, \h56c1, \h6aa6, \h4ed3, \haa62, \h363f, \h7706, \h1bfe, \hdf72, \h429b, \h023d,
  \h37d0, \hd724, \hd00a, \h1248, \hdb0f, \head3, \h49f1, \hc09b, \h0753, \h72c9, \h8099, \h1b7b, \h25d4, \h79d8, \hf6e8, \hdef7,
  \he3fe, \h501a, \hb679, \h4c3b, \h976c, \he0bd, \h04c0, \h06ba, \hc1a9, \h4fb6, \h409f, \h60c4, \h5e5c, \h9ec2, \h196a, \h2463,
  \h68fb, \h6faf, \h3e6c, \h53b5, \h1339, \hb2eb, \h3b52, \hec6f, \h6dfc, \h511f, \h9b30, \h952c, \hcc81, \h4544, \haf5e, \hbd09,
  \hbee3, \hd004, \hde33, \h4afd, \h660f, \h2807, \h192e, \h4bb3, \hc0cb, \ha857, \h45c8, \h740f, \hd20b, \h5f39, \hb9d3, \hfbdb,
  \h5579, \hc0bd, \h1a60, \h320a, \hd6a1, \h00c6, \h402c, \h7279, \h679f, \h25fe, \hfb1f, \ha3cc, \h8ea5, \he9f8, \hdb32, \h22f8,
  \h3c75, \h16df, \hfd61, \h6b15, \h2f50, \h1ec8, \had05, \h52ab, \h323d, \hb5fa, \hfd23, \h8760, \h5331, \h7b48, \h3e00, \hdf82,
  \h9e5c, \h57bb, \hca6f, \h8ca0, \h1a87, \h562e, \hdf17, \h69db, \hd542, \ha8f6, \h287e, \hffc3, \hac67, \h32c6, \h8c4f, \h5573,
  \h695b, \h27b0, \hbbca, \h58c8, \he1ff, \ha35d, \hb8f0, \h11a0, \h10fa, \h3d98, \hfd21, \h83b8, \h4afc, \hb56c, \h2dd1, \hd35b,
  \h9a53, \he479, \hb6f8, \h4565, \hd28e, \h49bc, \h4bfb, \h9790, \he1dd, \hf2da, \ha4cb, \h7e33, \h62fb, \h1341, \hcee4, \hc6e8,
  \hef20, \hcada, \h3677, \h4c01, \hd07e, \h9efe, \h2bf1, \h1fb4, \h95db, \hda4d, \hae90, \h9198, \heaad, \h8e71, \h6b93, \hd5a0,
  \hd08e, \hd1d0, \hafc7, \h25e0, \h8e3c, \h5b2f, \h8e75, \h94b7, \h8ff6, \he2fb, \hf212, \h2b64, \h8888, \hb812, \h900d, \hf01c,
  \h4fad, \h5ea0, \h688f, \hc31c, \hd1cf, \hf191, \hb3a8, \hc1ad, \h2f2f, \h2218, \hbe0e, \h1777, \hea75, \h2dfe, \h8b02, \h1fa1,
  \he5a0, \hcc0f, \hb56f, \h74e8, \h18ac, \hf3d6, \hce89, \he299, \hb4a8, \h4fe0, \hfd13, \he0b7, \h7cc4, \h3b81, \hd2ad, \ha8d9,
  \h165f, \ha266, \h8095, \h7705, \h93cc, \h7314, \h211a, \h1477, \he6ad, \h2065, \h77b5, \hfa86, \hc754, \h42f5, \hfb9d, \h35cf,
  \hebcd, \haf0c, \h7b3e, \h89a0, \hd641, \h1bd3, \hae1e, \h7e49, \h0025, \h0e2d, \h2071, \hb35e, \h2268, \h00bb, \h57b8, \he0af,
  \h2464, \h369b, \hf009, \hb91e, \h5563, \h911d, \h59df, \ha6aa, \h78c1, \h4389, \hd95a, \h537f, \h207d, \h5ba2, \h02e5, \hb9c5,
  \h8326, \h0376, \h6295, \hcfa9, \h11c8, \h1968, \h4e73, \h4a41, \hb347, \h2dca, \h7b14, \ha94a, \h1b51, \h0052, \h9a53, \h2915,
  \hd60f, \h573f, \hbc9b, \hc6e4, \h2b60, \ha476, \h81e6, \h7400, \h08ba, \h6fb5, \h571b, \he91f, \hf296, \hec6b, \h2a0d, \hd915,
  \hb663, \h6521, \he7b9, \hf9b6, \hff34, \h052e, \hc585, \h5664, \h53b0, \h2d5d, \ha99f, \h8fa1, \h08ba, \h4799, \h6e85, \h076a>>

initial_S2 == <<
  \h4b7a, \h70e9, \hb5b3, \h2944, \hdb75, \h092e, \hc419, \h2623, \had6e, \ha6b0, \h49a7, \hdf7d, \h9cee, \h60b8, \h8fed, \hb266,
  \hecaa, \h8c71, \h699a, \h17ff, \h5664, \h526c, \hc2b1, \h9ee1, \h1936, \h02a5, \h7509, \h4c29, \ha059, \h1340, \he418, \h3a3e,
  \h3f54, \h989a, \h5b42, \h9d65, \h6b8f, \he4d6, \h99f7, \h3fd6, \ha1d2, \h9c07, \hefe8, \h30f5, \h4d2d, \h38e6, \hf025, \h5dc1,
  \h4cdd, \h2086, \h8470, \heb26, \h6382, \he9c6, \h021e, \hcc5e, \h0968, \h6b3f, \h3eba, \hefc9, \h3c97, \h1814, \h6b6a, \h70a1,
  \h687f, \h3584, \h52a0, \he286, \hb79c, \h5305, \haa50, \h0737, \h3e07, \h841c, \h7fde, \hae5c, \h8e7d, \h44ec, \h5716, \hf2b8,
  \hb03a, \hda37, \hf050, \h0c0d, \hf01c, \h1f04, \h0200, \hb3ff, \hae0c, \hf51a, \h3cb5, \h74b2, \h2583, \h7a58, \hdc09, \h21bd,
  \hd191, \h13f9, \h7ca9, \h2ff6, \h9432, \h4773, \h22f5, \h4701, \h3ae5, \he581, \h37c2, \hdadc, \hc8b5, \h7634, \h9af3, \hdda7,
  \ha944, \h6146, \h0fd0, \h030e, \hecc8, \hc73e, \ha475, \h1e41, \he238, \hcd99, \h3bea, \h0e2f, \h3280, \hbba1, \h183e, \hb331,
  \h4e54, \h8b38, \h4f6d, \hb908, \h6f42, \h0d03, \hf60a, \h04bf, \h2cb8, \h1290, \h2497, \h7c79, \h5679, \hb072, \hbcaf, \h89af,
  \hde9a, \h771f, \hd993, \h0810, \hb38b, \hae12, \hdccf, \h3f2e, \h5512, \h721f, \h2e6b, \h7124, \h501a, \hdde6, \h9f84, \hcd87,
  \h7a58, \h4718, \h7408, \hda17, \hbc9f, \h9abc, \he94b, \h7d8c, \hec7a, \hec3a, \hdb85, \h1dfa, \h6309, \h4366, \hc464, \hc3d2,
  \hef1c, \h1847, \h3215, \hd908, \hdd43, \h3b37, \h24c2, \hba16, \h12a1, \h4d43, \h2a65, \hc451, \h5094, \h0002, \h133a, \he4dd,
  \h71df, \hf89e, \h1031, \h4e55, \h81ac, \h77d6, \h5f11, \h199b, \h0435, \h56f1, \hd7a3, \hc76b, \h3c11, \h183b, \h5924, \ha509,
  \hf28f, \he6ed, \h97f1, \hfbfa, \h9eba, \hbf2c, \h1e15, \h3c6e, \h86e3, \h4570, \heae9, \h6fb1, \h860e, \h5e0a, \h5a3e, \h2ab3,
  \h771f, \he71c, \h4e3d, \h06fa, \h2965, \hdcb9, \h99e7, \h1d0f, \h803e, \h89d6, \h5266, \hc825, \h2e4c, \hc978, \h9c10, \hb36a,
  \hc615, \h0eba, \h94e2, \hea78, \ha5fc, \h3c53, \h1e0a, \h2df4, \hf2f7, \h4ea7, \h361d, \h2b3d, \h1939, \h260f, \h19c2, \h7960,
  \h5223, \ha708, \hf713, \h12b6, \hebad, \hfe6e, \heac3, \h1f66, \he3bc, \h4595, \ha67b, \hc883, \hb17f, \h37d1, \h018c, \hff28,
  \hc332, \hddef, \hbe6c, \h5aa5, \h6558, \h2185, \h68ab, \h9802, \heece, \ha50f, \hdb2f, \h953b, \h2aef, \h7dad, \h5b6e, \h2f84,
  \h1521, \hb628, \h2907, \h6170, \hecdd, \h4775, \h619f, \h1510, \h13cc, \ha830, \heb61, \hbd96, \h0334, \hfe1e, \haa03, \h63cf,
  \hb573, \h5c90, \h4c70, \ha239, \hd59e, \h9e0b, \hcbaa, \hde14, \heecc, \h86bc, \h6062, \h2ca7, \h9cab, \h5cab, \hb2f3, \h846e,
  \h648b, \h1eaf, \h19bd, \hf0ca, \ha023, \h69b9, \h655a, \hbb50, \h4068, \h5a32, \h3c2a, \hb4b3, \h319e, \he9d5, \hc021, \hb8f7,
  \h9b54, \h0b19, \h875f, \ha099, \h95f7, \h997e, \h623d, \h7da8, \hf837, \h889a, \h97e3, \h2d77, \h11ed, \h935f, \h1668, \h1281,
  \h0e35, \h8829, \hc7e6, \h1fd6, \h96de, \hdfa1, \h7858, \hba99, \h57f5, \h84a5, \h1b22, \h7263, \h9b83, \hc3ff, \h1ac2, \h4696,
  \hcdb3, \h0aeb, \h532e, \h3054, \h8fd9, \h48e4, \h6dbc, \h3128, \h58eb, \hf2ef, \h34c6, \hffea, \hfe28, \hed61, \hee7c, \h3c73,
  \h5d4a, \h14d9, \he864, \hb7e3, \h4210, \h5d14, \h203e, \h13e0, \h45ee, \he2b6, \ha3aa, \habea, \hdb6c, \h4f15, \hfacb, \h4fd0,
  \hc742, \hf442, \hef6a, \hbbb5, \h654f, \h3b1d, \h41cd, \h2105, \hd81e, \h799e, \h8685, \h4dc7, \he44b, \h476a, \h3d81, \h6250,
  \hcf62, \ha1f2, \h5b8d, \h2646, \hfc88, \h83a0, \hc1c7, \hb6a3, \h7f15, \h24c3, \h69cb, \h7492, \h4784, \h8a0b, \h5692, \hb285,
  \h095b, \hbf00, \had19, \h489d, \h1462, \hb174, \h2382, \h0e00, \h5842, \h8d2a, \h0c55, \hf5ea, \h1dad, \hf43e, \h233f, \h7061,
  \h3372, \hf092, \h8d93, \h7e41, \hd65f, \hecf1, \h6c22, \h3bdb, \h7cde, \h3759, \hcbee, \h7460, \h4085, \hf2a7, \hce77, \h326e,
  \ha607, \h8084, \h19f8, \h509e, \he8ef, \hd855, \h61d9, \h9735, \ha969, \ha7aa, \hc50c, \h06c2, \h5a04, \habfc, \h800b, \hcadc,
  \h9e44, \h7a2e, \hc345, \h3484, \hfdd5, \h6705, \h0e1e, \h9ec9, \hdb73, \hdbd3, \h1055, \h88cd, \h675f, \hda79, \he367, \h4340,
  \hc5c4, \h3465, \h713e, \h38d8, \h3d28, \hf89e, \hf16d, \hff20, \h153e, \h21e7, \h8fb0, \h3d4a, \he6e3, \h9f2b, \hdb83, \hadf7>>

initial_S3 == <<
  \he93d, \h5a68, \h9481, \h40f7, \hf64c, \h261c, \h9469, \h2934, \h4115, \h20f7, \h7602, \hd4f7, \hbcf4, \h6b2e, \hd4a2, \h0068,
  \hd408, \h2471, \h3320, \hf46a, \h43b7, \hd4b7, \h5000, \h61af, \h1e39, \hf62e, \h9724, \h4546, \h1421, \h4f74, \hbf8b, \h8840,
  \h4d95, \hfc1d, \h96b5, \h91af, \h70f4, \hddd3, \h66a0, \h2f45, \hbfbc, \h09ec, \h03bd, \h9785, \h7fac, \h6dd0, \h31cb, \h8504,
  \h96eb, \h27b3, \h55fd, \h3941, \hda25, \h47e6, \habca, \h0a9a, \h2850, \h7825, \h5304, \h29f4, \h0a2c, \h86da, \he9b6, \h6dfb,
  \h68dc, \h1462, \hd748, \h6900, \h680e, \hc0a4, \h27a1, \h8dee, \h4f3f, \hfea2, \he887, \had8c, \hb58c, \he006, \h7af4, \hd6b6,
  \haace, \h1e7c, \hd337, \h5fec, \hce78, \ha399, \h406b, \h2a42, \h20fe, \h9e35, \hd9f3, \h85b9, \hee39, \hd7ab, \h3b12, \h4e8b,
  \h1dc9, \hfaf7, \h4b6d, \h1856, \h26a3, \h6631, \heae3, \h97b2, \h3a6e, \hfa74, \hdd5b, \h4332, \h6841, \he7f7, \hca78, \h20fb,
  \hfb0a, \hf54e, \hd8fe, \hb397, \h4540, \h56ac, \hba48, \h9527, \h5553, \h3a3a, \h2083, \h8d87, \hfe6b, \ha9b7, \hd096, \h954b,
  \h55a8, \h67bc, \ha115, \h9a58, \hcca9, \h2963, \h99e1, \hdb33, \ha62a, \h4a56, \h3f31, \h25f9, \h5ef4, \h7e1c, \h9029, \h317c,
  \hfdf8, \he802, \h0427, \h2f70, \h80bb, \h155c, \h0528, \h2ce3, \h95c1, \h1548, \he4c6, \h6d22, \h48c1, \h133f, \hc70f, \h86dc,
  \h07f9, \hc9ee, \h4104, \h1f0f, \h4047, \h79a4, \h5d88, \h6e17, \h325f, \h51eb, \hd59b, \hc0d1, \hf2bc, \hc18f, \h4111, \h3564,
  \h257b, \h7834, \h602a, \h9c60, \hdff8, \he8a3, \h1f63, \h6c1b, \h0e12, \hb4c2, \h02e1, \h329e, \haf66, \h4fd1, \hcad1, \h8115,
  \h6b23, \h95e0, \h333e, \h92e1, \h3b24, \h0b62, \heebe, \hb922, \h85b2, \ha20e, \he6ba, \h0d99, \hde72, \h0c8c, \h2da2, \hf728,
  \hd012, \h7845, \h95b7, \h94fd, \h647d, \h0862, \he7cc, \hf5f0, \h5449, \ha36f, \h877d, \h48fa, \hc39d, \hfd27, \hf33e, \h8d1e,
  \h0a47, \h6341, \h992e, \hff74, \h3a6f, \h6eab, \hf4f8, \hfd37, \ha812, \hdc60, \ha1eb, \hddf8, \h991b, \he14c, \hdb6e, \h6b0d,
  \hc67b, \h5510, \h6d67, \h2c37, \h2765, \hd43b, \hdcd0, \he804, \hf129, \h0dc7, \hcc00, \hffa3, \hb539, \h0f92, \h690f, \hed0b,
  \h667b, \h9ffb, \hcedb, \h7d9c, \ha091, \hcf0b, \hd915, \h5ea3, \hbb13, \h2f88, \h515b, \had24, \h7b94, \h79bf, \h763b, \hd6eb,
  \h3739, \h2eb3, \hcc11, \h5979, \h8026, \he297, \hf42e, \h312d, \h6842, \hada7, \hc66a, \h2b3b, \h1275, \h4ccc, \h782e, \hf11c,
  \h6a12, \h4237, \hb792, \h51e7, \h06a1, \hbbe6, \h4bfb, \h6350, \h1a6b, \h1018, \h11ca, \hedfa, \h3d25, \hbdd8, \he2e1, \hc3c9,
  \h4442, \h1659, \h0a12, \h1386, \hd90c, \hec6e, \hd5ab, \hea2a, \h64af, \h674e, \hda86, \ha85f, \hbebf, \he988, \h64e4, \hc3fe,
  \h9dbc, \h8057, \hf0f7, \hc086, \h6078, \h7bf8, \h6003, \h604d, \hd1fd, \h8346, \hf638, \h1fb0, \h7745, \hae04, \hd736, \hfccc,
  \h8342, \h6b33, \hf01e, \hab71, \hb080, \h4187, \h3c00, \h5e5f, \h77a0, \h57be, \hbde8, \hae24, \h5546, \h4299, \hbf58, \h2e61,
  \h4e58, \hf48f, \hf2dd, \hfda2, \hf474, \hef38, \h8789, \hbdc2, \h5366, \hf9c3, \hc8b3, \h8e74, \hb475, \hf255, \h46fc, \hd9b9,
  \h7aeb, \h2661, \h8b1d, \hdf84, \h846a, \h0e79, \h915f, \h95e2, \h466e, \h598e, \h20b4, \h5770, \h8cd5, \h5591, \hc902, \hde4c,
  \hb90b, \hace1, \hbb82, \h05d0, \h11a8, \h6248, \h7574, \ha99e, \hb77f, \h19b6, \he0a9, \hdc09, \h662d, \h09a1, \hc432, \h4633,
  \he85a, \h1f02, \h09f0, \hbe8c, \h4a99, \ha025, \h1d6e, \hfe10, \h1ab9, \h3d1d, \h0ba5, \ha4df, \ha186, \hf20f, \h2868, \hf169,
  \hdcb7, \hda83, \h5739, \h06fe, \ha1e2, \hce9b, \h4fcd, \h7f52, \h5011, \h5e01, \ha706, \h83fa, \ha002, \hb5c4, \h0de6, \hd027,
  \h9af8, \h8c27, \h773f, \h8641, \hc360, \h4c06, \h61a8, \h06b5, \hf017, \h7a28, \hc0f5, \h86e0, \h0060, \h58aa, \h30dc, \h7d62,
  \h11e6, \h9ed7, \h2338, \hea63, \h53c2, \hdd94, \hc2c2, \h1634, \hbbcb, \hee56, \h90bc, \hb6de, \hebfc, \h7da1, \hce59, \h1d76,
  \h6f05, \he409, \h4b7c, \h0188, \h3972, \h0a3d, \h7c92, \h7c24, \h86e3, \h725f, \h724d, \h9db9, \h1ac1, \h5bb4, \hd39e, \hb8fc,
  \hed54, \h5578, \h08fc, \ha5b5, \hd83d, \h7cd3, \h4dad, \h0fc4, \h1e50, \hef5e, \hb161, \he6f8, \ha285, \h14d9, \h6c51, \h133c,
  \h6fd5, \hc7e7, \h56e1, \h4ec4, \h362a, \hbfce, \hddc6, \hc837, \hd79a, \h3234, \h9263, \h8212, \h670e, \hfa8e, \h4060, \h00e0>>

initial_S4 == <<
  \h3a39, \hce37, \hd3fa, \hf5cf, \habc2, \h7737, \h5ac5, \h2d1b, \h5cb0, \h679e, \h4fa3, \h3742, \hd382, \h2740, \h99bc, \h9bbe,
  \hd511, \h8e9d, \hbf0f, \h7315, \hd62d, \h1c7e, \hc700, \hc47b, \hb78c, \h1b6b, \h21a1, \h9045, \hb26e, \hb1be, \h6a36, \h6eb4,
  \h5748, \hab2f, \hbc94, \h6e79, \hc6a3, \h76d2, \h6549, \hc2c8, \h530f, \hf8ee, \h468d, \hde7d, \hd573, \h0a1d, \h4cd0, \h4dc6,
  \h2939, \hbbdb, \ha9ba, \h4650, \hac95, \h26e8, \hbe5e, \he304, \ha1fa, \hd5f0, \h6a2d, \h519a, \h63ef, \h8ce2, \h9a86, \hee22,
  \hc089, \hc2b8, \h4324, \h2ef6, \ha51e, \h03aa, \h9cf2, \hd0a4, \h83c0, \h61ba, \h9be9, \h6a4d, \h8fe5, \h1550, \hba64, \h5bd6,
  \h2826, \ha2f9, \ha73a, \h3ae1, \h4ba9, \h9586, \hef55, \h62e9, \hc72f, \hefd3, \hf752, \hf7da, \h3f04, \h6f69, \h77fa, \h0a59,
  \h80e4, \ha915, \h87b0, \h8601, \h9b09, \he6ad, \h3b3e, \he593, \he990, \hfd5a, \h9e34, \hd797, \h2cf0, \hb7d9, \h022b, \h8b51,
  \h96d5, \hac3a, \h017d, \ha67d, \hd1cf, \h3ed6, \h7c7d, \h2d28, \h1f9f, \h25cf, \hadf2, \hb89b, \h5ad6, \hb472, \h5a88, \hf54c,
  \he029, \hac71, \he019, \ha5e6, \h47b0, \hacfd, \hed93, \hfa9b, \he8d3, \hc48d, \h283b, \h57cc, \hf8d5, \h6629, \h7913, \h2e28,
  \h785f, \h0191, \hed75, \h6055, \hf796, \h0e44, \he3d3, \h5e8c, \h1505, \h6dd4, \h88f4, \h6dba, \h03a1, \h6125, \h0564, \hf0bd,
  \hc3eb, \h9e15, \h3c90, \h57a2, \h9727, \h1aec, \ha93a, \h072a, \h1b3f, \h6d9b, \h1e63, \h21f5, \hf59c, \h66fb, \h26dc, \hf319,
  \h7533, \hd928, \hb155, \hfdf5, \h0356, \h3482, \h8aba, \h3cbb, \h2851, \h7711, \hc20a, \hd9f8, \habcc, \h5167, \hccad, \h925f,
  \h4de8, \h1751, \h3830, \hdc8e, \h379d, \h5862, \h9320, \hf991, \hea7a, \h90c2, \hfb3e, \h7bce, \h5121, \hce64, \h774f, \hbe32,
  \ha8b6, \he37e, \hc329, \h3d46, \h48de, \h5369, \h6413, \he680, \ha2ae, \h0810, \hdd6d, \hb224, \h6985, \h2dfd, \h0907, \h2166,
  \hb39a, \h460a, \h6445, \hc0dd, \h586c, \hdecf, \h1c20, \hc8ae, \h5bbe, \hf7dd, \h1b58, \h8d40, \hccd2, \h017f, \h6bb4, \he3bb,
  \hdda2, \h6a7e, \h3a59, \hff45, \h3e35, \h0a44, \hbcb4, \hcdd5, \h72ea, \hcea8, \hfa64, \h84bb, \h8d66, \h12ae, \hbf3c, \h6f47,
  \hd29b, \he463, \h542f, \h5d9e, \haec2, \h771b, \hf64e, \h6370, \h740e, \h0d8d, \he75b, \h1357, \hf872, \h1671, \haf53, \h7d5d,
  \h4040, \hcb08, \h4eb4, \he2cc, \h34d2, \h466a, \h0115, \haf84, \he1b0, \h0428, \h9598, \h3a1d, \h06b8, \h9fb4, \hce6e, \ha048,
  \h6f3f, \h3b82, \h3520, \hab82, \h011a, \h1d4b, \h2772, \h27f8, \h6115, \h60b1, \he793, \h3fdc, \hbb3a, \h792b, \h3445, \h25bd,
  \ha088, \h39e1, \h51ce, \h794b, \h2f32, \hc9b7, \ha01f, \hbac9, \he01c, \hc87e, \hbcc7, \hd1f6, \hcf01, \h11c3, \ha1e8, \haac7,
  \h1a90, \h8749, \hd44f, \hbd9a, \hd0da, \hdecb, \hd50a, \hda38, \h0339, \hc32a, \hc691, \h3667, \h8df9, \h317c, \he0b1, \h2b4f,
  \hf79e, \h59b7, \h43f5, \hbb3a, \hf2d5, \h19ff, \h27d9, \h459c, \hbf97, \h222c, \h15e6, \hfc2a, \h0f91, \hfc71, \h9b94, \h1525,
  \hfae5, \h9361, \hceb6, \h9ceb, \hc2a8, \h6459, \h12ba, \ha8d1, \hb6c1, \h075e, \he305, \h6a0c, \h10d2, \h5065, \hcb03, \ha442,
  \he0ec, \h6e0e, \h1698, \hdb3b, \h4c98, \ha0be, \h3278, \he964, \h9f1f, \h9532, \he0d3, \h92df, \hd3a0, \h342b, \h8971, \hf21e,
  \h1b0a, \h7441, \h4ba3, \h348c, \hc5be, \h7120, \hc376, \h32d8, \hdf35, \h9f8d, \h9b99, \h2f2e, \he60b, \h6f47, \h0fe3, \hf11d,
  \he54c, \hda54, \h1eda, \hd891, \hce62, \h79cf, \hcd3e, \h7e6f, \h1618, \hb166, \hfd2c, \h1d05, \h848f, \hd2c5, \hf6fb, \h2299,
  \hf523, \hf357, \ha632, \h7623, \h93a8, \h3531, \h56cc, \hcd02, \hacf0, \h8162, \h5a75, \hebb5, \h6e16, \h3697, \h88d2, \h73cc,
  \hde96, \h6292, \h81b9, \h49d0, \h4c50, \h901b, \h71c6, \h5614, \he6c6, \hc7bd, \h327a, \h140a, \h45e1, \hd006, \hc3f2, \h7b9a,
  \hc9aa, \h53fd, \h62a8, \h0f00, \hbb25, \hbfe2, \h35bd, \hd2f6, \h7112, \h6905, \hb204, \h0222, \hb6cb, \hcf7c, \hcd76, \h9c2b,
  \h5311, \h3ec0, \h1640, \he3d3, \h38ab, \hbd60, \h2547, \hadf0, \hba38, \h209c, \hf746, \hce76, \h77af, \ha1c5, \h2075, \h6060,
  \h85cb, \hfe4e, \h8ae8, \h8dd8, \h7aaa, \hf9b0, \h4cf9, \haa7e, \h1948, \hc25c, \h02fb, \h8a8c, \h01c3, \h6ae4, \hd6eb, \he1f9,
  \h90d4, \hf869, \ha65c, \hdea0, \h3f09, \h252d, \hc208, \he69f, \hb74e, \h6132, \hce77, \he25b, \h578f, \hdfe3, \h3ac3, \h72e6>>

\* A table as words.
InHalves(T) ==
  <<>> \o [w \in 1 .. (Len(T) \div 2) |->
    LET h == T[(2 * w) - 1] l == T[2 * w] IN <<h \div 256, h % 256, l \div 256, l % 256>>]

=============================================================================
