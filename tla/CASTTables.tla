----------------------------- MODULE CASTTables -----------------------------
(***************************************************************************)
(* The S-boxes of CAST (cast5.c), each word as its two halves.             *)
(***************************************************************************)
EXTENDS Words

S1 == <<
  \h30fb, \h40d4, \h9fa0, \hff0b, \h6bec, \hcd2f, \h3f25, \h8c7a, \h1e21, \h3f2f, \h9c00, \h4dd3, \h6003, \he540, \hcf9f, \hc949,
  \hbfd4, \haf27, \h88bb, \hbdb5, \he203, \h4090, \h98d0, \h9675, \h6e63, \ha0e0, \h15c3, \h61d2, \hc2e7, \h661d, \h22d4, \hff8e,
  \h2868, \h3b6f, \hc07f, \hd059, \hff23, \h79c8, \h775f, \h50e2, \h43c3, \h40d3, \hdf2f, \h8656, \h887c, \ha41a, \ha2d2, \hbd2d,
  \ha1c9, \he0d6, \h346c, \h4819, \h61b7, \h6d87, \h2254, \h0f2f, \h2abe, \h32e1, \haa54, \h166b, \h2256, \h8e3a, \ha2d3, \h41d0,
  \h66db, \h40c8, \ha784, \h392f, \h004d, \hff2f, \h2db9, \hd2de, \h9794, \h3fac, \h4a97, \hc1d8, \h5276, \h44b7, \hb5f4, \h37a7,
  \hb82c, \hbaef, \hd751, \hd159, \h6ff7, \hf0ed, \h5a09, \h7a1f, \h827b, \h68d0, \h90ec, \hf52e, \h22b0, \hc054, \hbc8e, \h5935,
  \h4b6d, \h2f7f, \h50bb, \h64a2, \hd266, \h4910, \hbee5, \h812d, \hb733, \h2290, \he93b, \h159f, \hb48e, \he411, \h4bff, \h345d,
  \hfd45, \hc240, \had31, \h973f, \hc4f6, \hd02e, \h55fc, \h8165, \hd5b1, \hcaad, \ha1ac, \h2dae, \ha2d4, \hb76d, \hc19b, \h0c50,
  \h8822, \h40f2, \h0c6e, \h4f38, \ha4e4, \hbfd7, \h4f5b, \ha272, \h564c, \h1d2f, \hc59c, \h5319, \hb949, \he354, \hb046, \h69fe,
  \hb1b6, \hab8a, \hc713, \h58dd, \h6385, \hc545, \h110f, \h935d, \h5753, \h8ad5, \h6a39, \h0493, \he63d, \h37e0, \h2a54, \hf6b3,
  \h3a78, \h7d5f, \h6276, \ha0b5, \h19a6, \hfcdf, \h7a42, \h206a, \h29f9, \hd4d5, \hf61b, \h1891, \hbb72, \h275e, \haa50, \h8167,
  \h3890, \h1091, \hc6b5, \h05eb, \h84c7, \hcb8c, \h2ad7, \h5a0f, \h874a, \h1427, \ha2d1, \h936b, \h2ad2, \h86af, \haa56, \hd291,
  \hd789, \h4360, \h425c, \h750d, \h93b3, \h9e26, \h1871, \h84c9, \h6c00, \hb32d, \h73e2, \hbb14, \ha0be, \hbc3c, \h5462, \h3779,
  \h6445, \h9eab, \h3f32, \h8b82, \h7718, \hcf82, \h59a2, \hcea6, \h04ee, \h002e, \h89fe, \h78e6, \h3fab, \h0950, \h325f, \hf6c2,
  \h8138, \h3f05, \h6963, \hc5c8, \h76cb, \h5ad6, \hd499, \h74c9, \hca18, \h0dcf, \h3807, \h82d5, \hc7fa, \h5cf6, \h8ac3, \h1511,
  \h35e7, \h9e13, \h47da, \h91d0, \hf40f, \h9086, \ha7e2, \h419e, \h3136, \h6241, \h051e, \hf495, \haa57, \h3b04, \h4a80, \h5d8d,
  \h5483, \h00d0, \h0032, \h2a3c, \hbf64, \hcddf, \hba57, \ha68e, \h75c6, \h372b, \h50af, \hd341, \ha7c1, \h3275, \h915a, \h0bf5,
  \h6b54, \hbfab, \h2b0b, \h1426, \hab4c, \hc9d7, \h449c, \hcd82, \hf7fb, \hf265, \hab85, \hc5f3, \h1b55, \hdb94, \haad4, \he324,
  \hcfa4, \hbd3f, \h2dea, \ha3e2, \h9e20, \h4d02, \hc8bd, \h25ac, \headf, \h55b3, \hd5bd, \h9e98, \he312, \h31b2, \h2ad5, \had6c,
  \h9543, \h29de, \hadbe, \h4528, \hd871, \h0f69, \haa51, \hc90f, \haa78, \h6bf6, \h2251, \h3f1e, \haa51, \ha79b, \h2ad3, \h44cc,
  \h7b5a, \h41f0, \hd37c, \hfbad, \h1b06, \h9505, \h41ec, \he491, \hb4c3, \h32e6, \h0322, \h68d4, \hc960, \h0acc, \hce38, \h7e6d,
  \hbf6b, \hb16c, \h6a70, \hfb78, \h0d03, \hd9c9, \hd4df, \h39de, \he010, \h63da, \h4736, \hf464, \h5ad3, \h28d8, \hb347, \hcc96,
  \h75bb, \h0fc3, \h9851, \h1bfb, \h4ffb, \hcc35, \hb58b, \hcf6a, \he11f, \h0abc, \hbfc5, \hfe4a, \ha70a, \hec10, \hac39, \h570a,
  \h3f04, \h442f, \h6188, \hb153, \he039, \h7a2e, \h5727, \hcb79, \h9ceb, \h418f, \h1cac, \hd68d, \h2ad3, \h7c96, \h0175, \hcb9d,
  \hc69d, \hff09, \hc75b, \h65f0, \hd9db, \h40d8, \hec0e, \h7779, \h4744, \head4, \hb11c, \h3274, \hdd24, \hcb9e, \h7e1c, \h54bd,
  \hf011, \h44f9, \hd224, \h0eb1, \h9675, \hb3fd, \ha3ac, \h3755, \hd47c, \h27af, \h51c8, \h5f4d, \h5690, \h7596, \ha5bb, \h15e6,
  \h5803, \h04f0, \hca04, \h2cf1, \h011a, \h37ea, \h8dbf, \haadb, \h35ba, \h3e4a, \h3526, \hffa0, \hc37b, \h4d09, \hbc30, \h6ed9,
  \h98a5, \h2666, \h5648, \hf725, \hff5e, \h569d, \h0ced, \h63d0, \h7c63, \hb2cf, \h700b, \h45e1, \hd5ea, \h50f1, \h85a9, \h2872,
  \haf1f, \hbda7, \hd423, \h4870, \ha787, \h0bf3, \h2d3b, \h4d79, \h42e0, \h4198, \h0cd0, \hede7, \h2647, \h0db8, \hf881, \h814c,
  \h474d, \h6ad7, \h7c0c, \h5e5c, \hd123, \h1959, \h381b, \h7298, \hf5d2, \hf4db, \hab83, \h8653, \h6e2f, \h1e23, \h8371, \h9c9e,
  \hbd91, \he046, \h9a56, \h456e, \hdc39, \h200c, \h20c8, \hc571, \h962b, \hda1c, \he1e6, \h96ff, \hb141, \hab08, \h7cca, \h89b9,
  \h1a69, \he783, \h02cc, \h4843, \ha2f7, \hc579, \h429e, \hf47d, \h427b, \h169c, \h5ac9, \hf049, \hdd8f, \h0f00, \h5c81, \h65bf>>

S2 == <<
  \h1f20, \h1094, \hef0b, \ha75b, \h69e3, \hcf7e, \h393f, \h4380, \hfe61, \hcf7a, \heec5, \h207a, \h5588, \h9c94, \h72fc, \h0651,
  \hada7, \hef79, \h4e1d, \h7235, \hd55a, \h63ce, \hde04, \h36ba, \h99c4, \h30ef, \h5f0c, \h0794, \h18dc, \hdb7d, \ha1d6, \heff3,
  \ha0b5, \h2f7b, \h59e8, \h3605, \hee15, \hb094, \he9ff, \hd909, \hdc44, \h0086, \hef94, \h4459, \hba83, \hccb3, \he0c3, \hcdfb,
  \hd1da, \h4181, \h3b09, \h2ab1, \hf997, \hf1c1, \ha5e6, \hcf7b, \h0142, \h0ddb, \he4e7, \hef5b, \h25a1, \hff41, \he180, \hf806,
  \h1fc4, \h1080, \h179b, \hee7a, \hd37a, \hc6a9, \hfe58, \h30a4, \h98de, \h8b7f, \h77e8, \h3f4e, \h7992, \h9269, \h24fa, \h9f7b,
  \he113, \hc85b, \hacc4, \h0083, \hd750, \h3525, \hf7ea, \h615f, \h6214, \h3154, \h0d55, \h4b63, \h5d68, \h1121, \hc866, \hc359,
  \h3d63, \hcf73, \hcee2, \h34c0, \hd4d8, \h7e87, \h5c67, \h2b21, \h071f, \h6181, \h39f7, \h627f, \h361e, \h3084, \he4eb, \h573b,
  \h602f, \h64a4, \hd63a, \hcd9c, \h1bbc, \h4635, \h9e81, \h032d, \h2701, \hf50c, \h9984, \h7ab4, \ha0e3, \hdf79, \hba6c, \hf38c,
  \h1084, \h3094, \h2537, \ha95e, \hf46f, \h6ffe, \ha1ff, \h3b1f, \h208c, \hfb6a, \h8f45, \h8c74, \hd9e0, \ha227, \h4ec7, \h3a34,
  \hfc88, \h4f69, \h3e4d, \he8df, \hef0e, \h0088, \h3559, \h648d, \h8a45, \h388c, \h1d80, \h4366, \h721d, \h9bfd, \ha586, \h84bb,
  \he825, \h6333, \h844e, \h8212, \h128d, \h8098, \hfed3, \h3fb4, \hce28, \h0ae1, \h27e1, \h9ba5, \hd5a6, \hc252, \he497, \h54bd,
  \hc5d6, \h55dd, \heb66, \h7064, \h7784, \h0b4d, \ha1b6, \ha801, \h84db, \h26a9, \he0b5, \h6714, \h21f0, \h43b7, \he5d0, \h5860,
  \h54f0, \h3084, \h066f, \hf472, \ha31a, \ha153, \hdadc, \h4755, \hb562, \h5dbf, \h6856, \h1be6, \h83ca, \h6b94, \h2d6e, \hd23b,
  \heccf, \h01db, \ha6d3, \hd0ba, \hb680, \h3d5c, \haf77, \ha709, \h33b4, \ha34c, \h397b, \hc8d6, \h5ee2, \h2b95, \h5f0e, \h5304,
  \h81ed, \h6f61, \h20e7, \h4364, \hb45e, \h1378, \hde18, \h639b, \h881c, \ha122, \hb967, \h26d1, \h8049, \ha7e8, \h22b7, \hda7b,
  \h5e55, \h2d25, \h5272, \hd237, \h79d2, \h951c, \hc60d, \h894c, \h488c, \hb402, \h1ba4, \hfe5b, \ha4b0, \h9f6b, \h1ca8, \h15cf,
  \ha20c, \h3005, \h8871, \hdf63, \hb9de, \h2fcb, \h0cc6, \hc9e9, \h0bee, \hff53, \he321, \h4517, \hb454, \h2835, \h9f63, \h293c,
  \hee41, \he729, \h6e1d, \h2d7c, \h5004, \h5286, \h1e66, \h85f3, \hf334, \h01c6, \h30a2, \h2c95, \h31a7, \h0850, \h6093, \h0f13,
  \h73f9, \h8417, \ha126, \h9859, \hec64, \h5c44, \h52c8, \h77a9, \hcdff, \h33a6, \ha02b, \h1741, \h7cba, \hd9a2, \h2180, \h036f,
  \h50d9, \h9c08, \hcb3f, \h4861, \hc26b, \hd765, \h64a3, \hf6ab, \h8034, \h2676, \h25a7, \h5e7b, \he4e6, \hd1fc, \h20c7, \h10e6,
  \hcdf0, \hb680, \h1784, \h4d3b, \h31ee, \hf84d, \h7e08, \h24e4, \h2ccb, \h49eb, \h846a, \h3bae, \h8ff7, \h7888, \hee5d, \h60f6,
  \h7af7, \h5673, \h2fdd, \h5cdb, \ha116, \h31c1, \h30f6, \h6f43, \hb3fa, \hec54, \h157f, \hd7fa, \hef85, \h79cc, \hd152, \hde58,
  \hdb2f, \hfd5e, \h8f32, \hce19, \h306a, \hf97a, \h02f0, \h3ef8, \h9931, \h9ad5, \hc242, \hfa0f, \ha7e3, \hebb0, \hc68e, \h4906,
  \hb8da, \h230c, \h8082, \h3028, \hdcde, \hf3c8, \hd35f, \hb171, \h088a, \h1bc8, \hbec0, \hc560, \h61a3, \hc9e8, \hbca8, \hf54d,
  \hc72f, \heffa, \h2282, \h2e99, \h82c5, \h70b4, \hd8d9, \h4e89, \h8b1c, \h34bc, \h301e, \h16e6, \h273b, \he979, \hb0ff, \heaa6,
  \h61d9, \hb8c6, \h00b2, \h4869, \hb7ff, \hce3f, \h08dc, \h283b, \h43da, \hf65a, \hf7e1, \h9798, \h7619, \hb72f, \h8f1c, \h9ba4,
  \hdc86, \h37a0, \h16a7, \hd3b1, \h9fc3, \h93b7, \ha713, \h6eeb, \hc6bc, \hc63e, \h1a51, \h3742, \hef68, \h28bc, \h5203, \h65d6,
  \h2d6a, \h77ab, \h3527, \hed4b, \h821f, \hd216, \h095c, \h6e2e, \hdb92, \hf2fb, \h5eea, \h29cb, \h1458, \h92f5, \h9158, \h4f7f,
  \h5483, \h697b, \h2667, \ha8cc, \h8519, \h6048, \h8c4b, \hacea, \h8338, \h60d4, \h0d23, \he0f9, \h6c38, \h7e8a, \h0ae6, \hd249,
  \hb284, \h600c, \hd835, \h731d, \hdcb1, \hc647, \hac4c, \h56ea, \h3ebd, \h81b3, \h230e, \habb0, \h6438, \hbc87, \hf0b5, \hb1fa,
  \h8f5e, \ha2b3, \hfc18, \h4642, \h0a03, \h6b7a, \h4fb0, \h89bd, \h649d, \ha589, \ha345, \h415e, \h5c03, \h8323, \h3e5d, \h3bb9,
  \h43d7, \h9572, \h7e6d, \hd07c, \h06df, \hdf1e, \h6c6c, \hc4ef, \h7160, \ha539, \h73bf, \hbe70, \h8387, \h7605, \h4523, \hecf1>>

S3 == <<
  \h8def, \hc240, \h25fa, \h5d9f, \heb90, \h3dbf, \he810, \hc907, \h4760, \h7fff, \h369f, \he44b, \h8c1f, \hc644, \haece, \hca90,
  \hbeb1, \hf9bf, \heefb, \hcaea, \he8cf, \h1950, \h51df, \h07ae, \h920e, \h8806, \hf0ad, \h0548, \he13c, \h8d83, \h9270, \h10d5,
  \h1110, \h7d9f, \h0764, \h7db9, \hb2e3, \he4d4, \h3d4f, \h285e, \hb9af, \ha820, \hfade, \h82e0, \ha067, \h268b, \h8272, \h792e,
  \h553f, \hb2c0, \h489a, \he22b, \hd4ef, \h9794, \h125e, \h3fbc, \h21ff, \hfcee, \h825b, \h1bfd, \h9255, \hc5ed, \h1257, \ha240,
  \h4e1a, \h8302, \hbae0, \h7fff, \h5282, \h46e7, \h8e57, \h140e, \h3373, \hf7bf, \h8c9f, \h8188, \ha6fc, \h4ee8, \hc982, \hb5a5,
  \ha8c0, \h1db7, \h579f, \hc264, \h6709, \h4f31, \hf2bd, \h3f5f, \h40ff, \hf7c1, \h1fb7, \h8dfc, \h8e6b, \hd2c1, \h437b, \he59b,
  \h99b0, \h3dbf, \hb5db, \hc64b, \h638d, \hc0e6, \h5581, \h9d99, \ha197, \hc81c, \h4a01, \h2d6e, \hc588, \h4a28, \hccc3, \h6f71,
  \hb843, \hc213, \h6c07, \h43f1, \h8309, \h893c, \h0fed, \hdd5f, \h2f7f, \he850, \hd7c0, \h7f7e, \h0250, \h7fbf, \h5afb, \h9a04,
  \ha747, \hd2d0, \h1651, \h192e, \haf70, \hbf3e, \h58c3, \h1380, \h5f98, \h302e, \h727c, \hc3c4, \h0a0f, \hb402, \h0f7f, \hef82,
  \h8c96, \hfdad, \h5d2c, \h2aae, \h8ee9, \h9a49, \h50da, \h88b8, \h8427, \hf4a0, \h1eac, \h5790, \h796f, \hb449, \h8252, \hdc15,
  \hefbd, \h7d9b, \ha672, \h597d, \hada8, \h40d8, \h45f5, \h4504, \hfa5d, \h7403, \he83e, \hc305, \h4f91, \h751a, \h9256, \h69c2,
  \h23ef, \he941, \ha903, \hf12e, \h6027, \h0df2, \h0276, \he4b6, \h94fd, \h6574, \h9279, \h85b2, \h8276, \hdbcb, \h0277, \h8176,
  \hf8af, \h918d, \h4e48, \hf79e, \h8f61, \h6ddf, \he29d, \h840e, \h842f, \h7d83, \h340c, \he5c8, \h96bb, \hb682, \h93b4, \hb148,
  \hef30, \h3cab, \h984f, \haf28, \h779f, \haf9b, \h92dc, \h560d, \h224d, \h1e20, \h8437, \haa88, \h7d29, \hdc96, \h2756, \hd3dc,
  \h8b90, \h7cee, \hb51f, \hd240, \he7c0, \h7ce3, \he566, \hb4a1, \hc3e9, \h615e, \h3cf8, \h209d, \h6094, \hd1e3, \hcd9c, \ha341,
  \h5c76, \h460e, \h00ea, \h983b, \hd4d6, \h7881, \hfd47, \h572c, \hf76c, \hedd9, \hbda8, \h229c, \h127d, \hadaa, \h438a, \h074e,
  \h1f97, \hc090, \h081b, \hdb8a, \h93a0, \h7ebe, \hb938, \hca15, \h97b0, \h3cff, \h3dc2, \hc0f8, \h8d1a, \hb2ec, \h6438, \h0e51,
  \h68cc, \h7bfb, \hd90f, \h2788, \h1249, \h0181, \h5de5, \hffd4, \hdd7e, \hf86a, \h76a2, \he214, \hb9a4, \h0368, \h925d, \h958f,
  \h4b39, \hfffa, \hba39, \haee9, \ha4ff, \hd30b, \hfaf7, \h933b, \h6d49, \h8623, \h193c, \hbcfa, \h2762, \h7545, \h825c, \hf47a,
  \h61bd, \h8ba0, \hd11e, \h42d1, \hcead, \h04f4, \h127e, \ha392, \h1042, \h8db7, \h8272, \ha972, \h9270, \hc4a8, \h127d, \he50b,
  \h285b, \ha1c8, \h3c62, \hf44f, \h35c0, \heaa5, \he805, \hd231, \h4289, \h29fb, \hb4fc, \hdf82, \h4fb6, \h6a53, \h0e7d, \hc15b,
  \h1f08, \h1fab, \h1086, \h18ae, \hfcfd, \h086d, \hf9ff, \h2889, \h694b, \hcc11, \h236a, \h5cae, \h12de, \hca4d, \h2c3f, \h8cc5,
  \hd2d0, \h2dfe, \hf8ef, \h5896, \he4cf, \h52da, \h9515, \h5b67, \h494a, \h488c, \hb9b6, \ha80c, \h5c8f, \h82bc, \h89d3, \h6b45,
  \h3a60, \h9437, \hec00, \hc9a9, \h4471, \h5253, \h0a87, \h4b49, \hd773, \hbc40, \h7c34, \h671c, \h0271, \h7ef6, \h4feb, \h5536,
  \ha2d0, \h2fff, \hd2bf, \h60c4, \hd43f, \h03c0, \h50b4, \hef6d, \h0747, \h8cd1, \h006e, \h1888, \ha2e5, \h3f55, \hb9e6, \hd4bc,
  \ha204, \h8016, \h9757, \h3833, \hd720, \h7d67, \hde0f, \h8f3d, \h72f8, \h7b33, \habcc, \h4f33, \h7688, \hc55d, \h7b00, \ha6b0,
  \h947b, \h0001, \h5700, \h75d2, \hf9bb, \h88f8, \h8942, \h019e, \h4264, \ha5ff, \h8563, \h02e0, \h72db, \hd92b, \hee97, \h1b69,
  \h6ea2, \h2fde, \h5f08, \hae2b, \haf7a, \h616d, \he5c9, \h8767, \hcf1f, \hebd2, \h61ef, \hc8c2, \hf1ac, \h2571, \hcc82, \h39c2,
  \h6721, \h4cb8, \hb1e5, \h83d1, \hb7dc, \h3e62, \h7f10, \hbdce, \hf90a, \h5c38, \h0ff0, \h443d, \h606e, \h6dc6, \h6054, \h3a49,
  \h5727, \hc148, \h2be9, \h8a1d, \h8ab4, \h1738, \h20e1, \hbe24, \haf96, \hda0f, \h6845, \h8425, \h9983, \h3be5, \h600d, \h457d,
  \h282f, \h9350, \h8334, \hb362, \hd91d, \h1120, \h2b6d, \h8da0, \h642b, \h1e31, \h9c30, \h5a00, \h52bc, \he688, \h1b03, \h588a,
  \hf7ba, \hefd5, \h4142, \hed9c, \ha431, \h5c11, \h8332, \h3ec5, \hdfef, \h4636, \ha133, \hc501, \he9d3, \h531c, \hee35, \h3783>>

S4 == <<
  \h9db3, \h0420, \h1fb6, \he9de, \ha7be, \h7bef, \hd273, \ha298, \h4a4f, \h7bdb, \h64ad, \h8c57, \h8551, \h0443, \hfa02, \h0ed1,
  \h7e28, \h7aff, \he60f, \hb663, \h095f, \h35a1, \h79eb, \hf120, \hfd05, \h9d43, \h6497, \hb7b1, \hf364, \h1f63, \h241e, \h4adf,
  \h2814, \h7f5f, \h4fa2, \hb8cd, \hc943, \h0040, \h0cc3, \h2220, \hfdd3, \h0b30, \hc0a5, \h374f, \h1d2d, \h00d9, \h2414, \h7b15,
  \hee4d, \h111a, \h0fca, \h5167, \h71ff, \h904c, \h2d19, \h5ffe, \h1a05, \h645f, \h0c13, \hfefe, \h081b, \h08ca, \h0517, \h0121,
  \h8053, \h0100, \he83e, \h5efe, \hac9a, \hf4f8, \h7fe7, \h2701, \hd2b8, \hee5f, \h06df, \h4261, \hbb9e, \h9b8a, \h7293, \hea25,
  \hce84, \hffdf, \hf571, \h8801, \h3dd6, \h4b04, \ha26f, \h263b, \h7ed4, \h8400, \h547e, \hebe6, \h446d, \h4ca0, \h6cf3, \hd6f5,
  \h2649, \habdf, \haea0, \hc7f5, \h3633, \h8cc1, \h503f, \h7e93, \hd377, \h2061, \h11b6, \h38e1, \h7250, \h0e03, \hf80e, \hb2bb,
  \habe0, \h502e, \hec8d, \h77de, \h5797, \h1e81, \he14f, \h6746, \hc933, \h5400, \h6920, \h318f, \h081d, \hbb99, \hffc3, \h04a5,
  \h4d35, \h1805, \h7f3d, \h5ce3, \ha6c8, \h66c6, \h5d5b, \hcca9, \hdaec, \h6fea, \h9f92, \h6f91, \h9f46, \h222f, \h3991, \h467d,
  \ha5bf, \h6d8e, \h1143, \hc44f, \h4395, \h8302, \hd021, \h4eeb, \h0220, \h83b8, \h3fb6, \h180c, \h18f8, \h931e, \h2816, \h58e6,
  \h2648, \h6e3e, \h8bd7, \h8a70, \h7477, \he4c1, \hb506, \he07c, \hf32d, \h0a25, \h7909, \h8b02, \he4ea, \hbb81, \h2812, \h3b23,
  \h69de, \had38, \h1574, \hca16, \hdf87, \h1b62, \h211c, \h40b7, \ha51a, \h9ef9, \h0014, \h377b, \h041e, \h8ac8, \h0911, \h4003,
  \hbd59, \he4d2, \he3d1, \h56d5, \h4fe8, \h76d5, \h2f91, \ha340, \h557b, \he8de, \h00ea, \he4a7, \h0ce5, \hc2ec, \h4db4, \hbba6,
  \he756, \hbdff, \hdd33, \h69ac, \hec17, \hb035, \h0657, \h2327, \h99af, \hc8b0, \h56c8, \hc391, \h6b65, \h811c, \h5e14, \h6119,
  \h6e85, \hcb75, \hbe07, \hc002, \hc232, \h5577, \h893f, \hf4ec, \h5bbf, \hc92d, \hd0ec, \h3b25, \hb780, \h1ab7, \h8d6d, \h3b24,
  \h20c7, \h63ef, \hc366, \ha5fc, \h9c38, \h2880, \h0ace, \h3205, \haac9, \h548a, \heca1, \hd7c7, \h041a, \hfa32, \h1d16, \h625a,
  \h6701, \h902c, \h9b75, \h7a54, \h31d4, \h77f7, \h9126, \hb031, \h36cc, \h6fdb, \hc70b, \h8b46, \hd9e6, \h6a48, \h56e5, \h5a79,
  \h026a, \h4ceb, \h5243, \h7eff, \h2f8f, \h76b4, \h0df9, \h80a5, \h8674, \hcde3, \hedda, \h04eb, \h17a9, \hbe04, \h2c18, \hf4df,
  \hb774, \h7f9d, \hab2a, \hf7b4, \hefc3, \h4d20, \h2e09, \h6b7c, \h1741, \ha254, \he5b6, \ha035, \h213d, \h42f6, \h2c1c, \h7c26,
  \h61c2, \hf50f, \h6552, \hdaf9, \hd2c2, \h31f8, \h2513, \h0f69, \hd816, \h7fa2, \h0418, \hf2c8, \h001a, \h96a6, \h0d15, \h26ab,
  \h6331, \h5c21, \h5e0a, \h72ec, \h49ba, \hfefd, \h1879, \h08d9, \h8d0d, \hbd86, \h3111, \h70a7, \h3e9b, \h640c, \hcc3e, \h10d7,
  \hd5ca, \hd3b6, \h0cae, \hc388, \hf730, \h01e1, \h6c72, \h8aff, \h71ea, \he2a1, \h1f9a, \hf36e, \hcfcb, \hd12f, \hc1de, \h8417,
  \hac07, \hbe6b, \hcb44, \ha1d8, \h8b9b, \h0f56, \h0139, \h88c3, \hb1c5, \h2fca, \hb4be, \h31cd, \hd878, \h2806, \h12a3, \ha4e2,
  \h6f7d, \he532, \h58fd, \h7eb6, \hd01e, \he900, \h24ad, \hffc2, \hf499, \h0fc5, \h9711, \haac5, \h001d, \h7b95, \h82e5, \he7d2,
  \h1098, \h73f6, \h0061, \h3096, \hc32d, \h9521, \hada1, \h21ff, \h2990, \h8415, \h7fbb, \h977f, \haf9e, \hb3db, \h29c9, \hed2a,
  \h5ce2, \ha465, \ha730, \hf32c, \hd0aa, \h3fe8, \h8a5c, \hc091, \hd49e, \h2ce7, \h0ce4, \h54a9, \hd60a, \hcd86, \h015f, \h1919,
  \h7707, \h9103, \hdea0, \h3af6, \h78a8, \h565e, \hdee3, \h56df, \h21f0, \h5cbe, \h8b75, \he387, \hb3c5, \h0651, \hb8a5, \hc3ef,
  \hd8ee, \hb6d2, \he523, \hbe77, \hc215, \h4529, \h2f69, \hefdf, \hafe6, \h7afb, \hf470, \hc4b2, \hf3e0, \heb5b, \hd6cc, \h9876,
  \h39e4, \h460c, \h1fda, \h8538, \h1987, \h832f, \hca00, \h7367, \ha991, \h44f8, \h296b, \h299e, \h492f, \hc295, \h9266, \hbeab,
  \hb567, \h6e69, \h9bd3, \hddda, \hdf7e, \h052f, \hdb25, \h701c, \h1b5e, \h51ee, \hf653, \h24e6, \h6afc, \he36c, \h0316, \hcc04,
  \h8644, \h213e, \hb7dc, \h59d0, \h7965, \h291f, \hccd6, \hfd43, \h4182, \h3979, \h932b, \hcdf6, \hb657, \hc34d, \h4edf, \hd282,
  \h7ae5, \h290c, \h3cb9, \h536b, \h851e, \h20fe, \h9833, \h557e, \h13ec, \hf0b0, \hd3ff, \hb372, \h3f85, \hc5c1, \h0aef, \h7ed2>>

S5 == <<
  \h7ec9, \h0c04, \h2c6e, \h74b9, \h9b0e, \h66df, \ha633, \h7911, \hb86a, \h7fff, \h1dd3, \h58f5, \h44dd, \h9d44, \h1731, \h167f,
  \h08fb, \hf1fa, \he7f5, \h11cc, \hd205, \h1b00, \h735a, \hba00, \h2ab7, \h22d8, \h3863, \h81cb, \hacf6, \h243a, \h69be, \hfd7a,
  \he6a2, \he77f, \hf0c7, \h20cd, \hc449, \h4816, \hccf5, \hc180, \h3885, \h1640, \h15b0, \ha848, \he68b, \h18cb, \h4caa, \hdeff,
  \h5f48, \h0a01, \h0412, \hb2aa, \h2598, \h14fc, \h41d0, \hefe2, \h4e40, \hb48d, \h248e, \hb6fb, \h8dba, \h1cfe, \h41a9, \h9b02,
  \h1a55, \h0a04, \hba8f, \h65cb, \h7251, \hf4e7, \h95a5, \h1725, \hc106, \hecd7, \h97a5, \h980a, \hc539, \hb9aa, \h4d79, \hfe6a,
  \hf2f3, \hf763, \h68af, \h8040, \hed0c, \h9e56, \h11b4, \h958b, \he1eb, \h5a88, \h8709, \he6b0, \hd7e0, \h7156, \h4e29, \hfea7,
  \h6366, \he52d, \h02d1, \hc000, \hc4ac, \h8e05, \h9377, \hf571, \h0c05, \h372a, \h5785, \h35f2, \h2261, \hbe02, \hd642, \ha0c9,
  \hdf13, \ha280, \h74b5, \h5bd2, \h6821, \h99c0, \hd421, \he5ec, \h53fb, \h3ce8, \hc8ad, \hedb3, \h28a8, \h7fc9, \h3d95, \h9981,
  \h5c1f, \hf900, \hfe38, \hd399, \h0c4e, \hff0b, \h0624, \h07ea, \haa2f, \h4fb1, \h4fb9, \h6976, \h90c7, \h9505, \hb0a8, \ha774,
  \hef55, \ha1ff, \he59c, \ha2c2, \ha6b6, \h2d27, \he66a, \h4263, \hdf65, \h001f, \h0ec5, \h0966, \hdfdd, \h55bc, \h29de, \h0655,
  \h911e, \h739a, \h17af, \h8975, \h32c7, \h911c, \h89f8, \h9468, \h0d01, \he980, \h5247, \h55f4, \h03b6, \h3cc9, \h0cc8, \h44b2,
  \hbcf3, \hf0aa, \h87ac, \h36e9, \he53a, \h7426, \h01b3, \hd82b, \h1a9e, \h7449, \h64ee, \h2d7e, \hcddb, \hb1da, \h01c9, \h4910,
  \hb868, \hbf80, \h0d26, \hf3fd, \h9342, \hede7, \h04a5, \hc284, \h6367, \h37b6, \h50f5, \hb616, \hf247, \h66e3, \h8eca, \h36c1,
  \h136e, \h05db, \hfef1, \h8391, \hfb88, \h7a37, \hd6e7, \hf7d4, \hc7fb, \h7dc9, \h3063, \hfcdf, \hb6f5, \h89de, \hec29, \h41da,
  \h26e4, \h6695, \hb756, \h6419, \hf654, \hefc5, \hd08d, \h58b7, \h4892, \h5401, \hc1ba, \hcb7f, \he5ff, \h550f, \hb608, \h3049,
  \h5bb5, \hd0e8, \h87d7, \h2e5a, \hab6a, \h6ee1, \h223a, \h66ce, \hc62b, \hf3cd, \h9e08, \h85f9, \h68cb, \h3e47, \h086c, \h010f,
  \ha21d, \he820, \hd18b, \h69de, \hf3f6, \h5777, \hfa02, \hc3f6, \h407e, \hdac3, \hcbb3, \hd550, \h1793, \h084d, \hb0d7, \h0eba,
  \h0ab3, \h78d5, \hd951, \hfb0c, \hded7, \hda56, \h4124, \hbbe4, \h94ca, \h0b56, \h0f57, \h55d1, \he0e1, \he56e, \h6184, \hb5be,
  \h580a, \h249f, \h94f7, \h4bc0, \he327, \h888e, \h9f7b, \h5561, \hc3dc, \h0280, \h0568, \h7715, \h646c, \h6bd7, \h4490, \h4db3,
  \h66b4, \hf0a3, \hc0f1, \h648a, \h697e, \hd5af, \h49e9, \h2ff6, \h309e, \h374f, \h2cb6, \h356a, \h8580, \h8573, \h4991, \hf840,
  \h76f0, \hae02, \h083b, \he84d, \h2842, \h1c9a, \h4448, \h9406, \h736e, \h4cb8, \hc109, \h2910, \h8bc9, \h5fc6, \h7d86, \h9cf4,
  \h134f, \h616f, \h2e77, \h118d, \hb31b, \h2be1, \haa90, \hb472, \h3ca5, \hd717, \h7d16, \h1bba, \h9cad, \h9010, \haf46, \h2ba2,
  \h9fe4, \h59d2, \h45d3, \h4559, \hd9f2, \hda13, \hdbc6, \h5487, \hf3e4, \hf94e, \h176d, \h486f, \h097c, \h13ea, \h631d, \ha5c7,
  \h445f, \h7382, \h1756, \h83f4, \hcdc6, \h6a97, \h70be, \h0288, \hb3cd, \hcf72, \h6e5d, \hd2f3, \h2093, \h6079, \h459b, \h80a5,
  \hbe60, \he2db, \ha9c2, \h3101, \heba5, \h315c, \h224e, \h42f2, \h1c5c, \h1572, \hf672, \h1b2c, \h1ad2, \hfff3, \h8c25, \h404e,
  \h324e, \hd72f, \h4067, \hb7fd, \h0523, \h138e, \h5ca3, \hbc78, \hdc0f, \hd66e, \h7592, \h2283, \h784d, \h6b17, \h58eb, \hb16e,
  \h4409, \h4f85, \h3f48, \h1d87, \hfcfe, \hae7b, \h77b5, \hff76, \h8c23, \h02bf, \haaf4, \h7556, \h5f46, \hb02a, \h2b09, \h2801,
  \h3d38, \hf5f7, \h0ca8, \h1f36, \h52af, \h4a8a, \h66d5, \he7c0, \hdf3b, \h0874, \h9505, \h5110, \h1b5a, \hd7a8, \hf61e, \hd5ad,
  \h6cf6, \he479, \h2075, \h8184, \hd0ce, \hfa65, \h88f7, \hbe58, \h4a04, \h6826, \h0ff6, \hf8f3, \ha09c, \h7f70, \h5346, \haba0,
  \h5ce9, \h6c28, \he176, \heda3, \h6bac, \h307f, \h3768, \h29d2, \h8536, \h0fa9, \h17e3, \hfe2a, \h24b7, \h9767, \hf5a9, \h6b20,
  \hd6cd, \h2595, \h68ff, \h1ebf, \h7555, \h442c, \hf19f, \h06be, \hf9e0, \h659a, \heeb9, \h491d, \h3401, \h0718, \hbb30, \hcab8,
  \he822, \hfe15, \h8857, \h0983, \h750e, \h6249, \hda62, \h7e55, \h5e76, \hffa8, \hb153, \h4546, \h6d47, \hde08, \hefe9, \he7d4>>

S6 == <<
  \hf6fa, \h8f9d, \h2cac, \h6ce1, \h4ca3, \h4867, \he233, \h7f7c, \h95db, \h08e7, \h0168, \h43b4, \heced, \h5cbc, \h3255, \h53ac,
  \hbf9f, \h0960, \hdfa1, \he2ed, \h83f0, \h579d, \h63ed, \h86b9, \h1ab6, \ha6b8, \hde5e, \hbe39, \hf38f, \hf732, \h8989, \hb138,
  \h33f1, \h4961, \hc019, \h37bd, \hf506, \hc6da, \he462, \h5e7e, \ha308, \hea99, \h4e23, \he33c, \h79cb, \hd7cc, \h48a1, \h4367,
  \ha314, \h9619, \hfec9, \h4bd5, \ha114, \h174a, \heaa0, \h1866, \ha084, \hdb2d, \h09a8, \h486f, \ha888, \h614a, \h2900, \haf98,
  \h0166, \h5991, \he199, \h2863, \hc8f3, \h0c60, \h2e78, \hef3c, \hd0d5, \h1932, \hcf0f, \hec14, \hf7ca, \h07d2, \hd0a8, \h2072,
  \hfd41, \h197e, \h9305, \ha6b0, \he86b, \he3da, \h74be, \hd3cd, \h372d, \ha53c, \h4c7f, \h4448, \hdab5, \hd440, \h6dba, \h0ec3,
  \h0839, \h19a7, \h9fba, \heed9, \h49db, \hcfb0, \h4e67, \h0c53, \h5c3d, \h9c01, \h64bd, \hb941, \h2c0e, \h636a, \hba7d, \hd9cd,
  \hea6f, \h7388, \he70b, \hc762, \h35f2, \h9adb, \h5c4c, \hdd8d, \hf0d4, \h8d8c, \hb881, \h53e2, \h08a1, \h9866, \h1ae2, \heac8,
  \h284c, \haf89, \haa92, \h8223, \h9334, \hbe53, \h3b3a, \h21bf, \h1643, \h4be3, \h9aea, \h3906, \hefe8, \hc36e, \hf890, \hcdd9,
  \h8022, \h6dae, \hc340, \ha4a3, \hdf7e, \h9c09, \ha694, \ha807, \h5b7c, \h5ecc, \h221d, \hb3a6, \h9a69, \ha02f, \h6881, \h8a54,
  \hceb2, \h296f, \h53c0, \h843a, \hfe89, \h3655, \h25bf, \he68a, \hb462, \h8abc, \hcf22, \h2ebf, \h25ac, \h6f48, \ha9a9, \h9387,
  \h53bd, \hdb65, \he76f, \hfbe7, \he967, \hfd78, \h0ba9, \h3563, \h8e34, \h2bc1, \he8a1, \h1be9, \h4980, \h740d, \hc808, \h7dfc,
  \h8de4, \hbf99, \ha111, \h01a0, \h7fd3, \h7975, \hda5a, \h26c0, \he81f, \h994f, \h9528, \hcd89, \hfd33, \h9fed, \hb878, \h34bf,
  \h5f04, \h456d, \h2225, \h8698, \hc9c4, \hc83b, \h2dc1, \h56be, \h4f62, \h8daa, \h57f5, \h5ec5, \he222, \h0abe, \hd291, \h6ebf,
  \h4ec7, \h5b95, \h24f2, \hc3c0, \h42d1, \h5d99, \hcd0d, \h7fa0, \h7b6e, \h27ff, \ha8dc, \h8af0, \h7345, \hc106, \hf41e, \h232f,
  \h3516, \h2386, \he6ea, \h8926, \h3333, \hb094, \h157e, \hc6f2, \h372b, \h74af, \h6925, \h73e4, \he9a9, \hd848, \hf316, \h0289,
  \h3a62, \hef1d, \ha787, \he238, \hf3a5, \hf676, \h7436, \h4853, \h2095, \h1063, \h4576, \h698d, \hb6fa, \hd407, \h592a, \hf950,
  \h36f7, \h3523, \h4cfb, \h6e87, \h7da4, \hcec0, \h6c15, \h2daa, \hcb03, \h96a8, \hc50d, \hfe5d, \hfcd7, \h07ab, \h0921, \hc42f,
  \h89df, \hf0bb, \h5fe2, \hbe78, \h448f, \h4f33, \h7546, \h13c9, \h2b05, \hd08d, \h48b9, \hd585, \hdc04, \h9441, \hc809, \h8f9b,
  \h7ded, \he786, \hc39a, \h3373, \h4241, \h0005, \h6a09, \h1751, \h0ef3, \hc8a6, \h8900, \h72d6, \h2820, \h7682, \ha9a9, \hf7be,
  \hbf32, \h679d, \hd45b, \h5b75, \hb353, \hfd00, \hcbb0, \he358, \h830f, \h220a, \h1f8f, \hb214, \hd372, \hcf08, \hcc3c, \h4a13,
  \h8cf6, \h3166, \h061c, \h87be, \h88c9, \h8f88, \h6062, \he397, \h47cf, \h8e7a, \hb6c8, \h5283, \h3cc2, \hacfb, \h3fc0, \h6976,
  \h4e8f, \h0252, \h64d8, \h314d, \hda38, \h70e3, \h1e66, \h5459, \hc109, \h08f0, \h5130, \h21a5, \h6c5b, \h68b7, \h822f, \h8aa0,
  \h3007, \hcd3e, \h7471, \h9eef, \hdc87, \h2681, \h0733, \h40d4, \h7e43, \h2fd9, \h0c5e, \hc241, \h8809, \h286c, \hf592, \hd891,
  \h08a9, \h30f6, \h957e, \hf305, \hb7fb, \hffbd, \hc266, \he96f, \h6fe4, \hac98, \hb173, \hecc0, \hbc60, \hb42a, \h9534, \h98da,
  \hfba1, \hae12, \h2d4b, \hd736, \h0f25, \hfaab, \ha4f3, \hfceb, \he296, \h9123, \h257f, \h0c3d, \h9348, \haf49, \h3614, \h00bc,
  \he881, \h6f4a, \h3814, \hf200, \ha3f9, \h4043, \h9c7a, \h54c2, \hbc70, \h4f57, \hda41, \he7f9, \hc25a, \hd33a, \h54f4, \ha084,
  \hb17f, \h5505, \h5935, \h7cbe, \hedbd, \h15c8, \h7f97, \hc5ab, \hba5a, \hc7b5, \hb6f6, \hdeaf, \h3a47, \h9c3a, \h5302, \hda25,
  \h653d, \h7e6a, \h5426, \h8d49, \h51a4, \h77ea, \h5017, \hd55b, \hd7d2, \h5d88, \h4413, \h6c76, \h0404, \ha8c8, \hb8e5, \ha121,
  \hb81a, \h928a, \h60ed, \h5869, \h97c5, \h5b96, \heaec, \h991b, \h2993, \h5913, \h01fd, \hb7f1, \h088e, \h8dfa, \h9ab6, \hf6f5,
  \h3b4c, \hbf9f, \h4a5d, \he3ab, \he605, \h1d35, \ha0e1, \hd855, \hd36b, \h4cf1, \hf544, \hedeb, \hb0e9, \h3524, \hbebb, \h8fbd,
  \ha2d7, \h62cf, \h49c9, \h2f54, \h38b5, \hf331, \h7128, \ha454, \h4839, \h2905, \ha65b, \h1db8, \h851c, \h97bd, \hd675, \hcf2f>>

S7 == <<
  \h85e0, \h4019, \h332b, \hf567, \h662d, \hbfff, \hcfc6, \h5693, \h2a8d, \h7f6f, \hab9b, \hc912, \hde60, \h08a1, \h2028, \hda1f,
  \h0227, \hbce7, \h4d64, \h2916, \h18fa, \hc300, \h50f1, \h8b82, \h2cb2, \hcb11, \hb232, \he75c, \h4b36, \h95f2, \hb287, \h07de,
  \ha05f, \hbcf6, \hcd41, \h81e9, \he150, \h210c, \he24e, \hf1bd, \hb168, \hc381, \hfde4, \he789, \h5c79, \hb0d8, \h1e8b, \hfd43,
  \h4d49, \h5001, \h38be, \h4341, \h913c, \hee1d, \h92a7, \h9c3f, \h0897, \h66be, \hbaee, \hadf4, \h1286, \hbecf, \hb6ea, \hcb19,
  \h2660, \hc200, \h7565, \hbde4, \h6424, \h1f7a, \h8248, \hdca9, \hc3b3, \had66, \h2813, \h6086, \h0bd8, \hdfa8, \h356d, \h1cf2,
  \h1077, \h89be, \hb3b2, \he9ce, \h0502, \haa8f, \h0bc0, \h351e, \h166b, \hf52a, \heb12, \hff82, \he348, \h6911, \hd34d, \h7516,
  \h4e7b, \h3aff, \h5f43, \h671b, \h9cf6, \he037, \h4981, \hac83, \h3342, \h66ce, \h8c93, \h41b7, \hd0d8, \h54c0, \hcb3a, \h6c88,
  \h47bc, \h2829, \h4725, \hba37, \ha66a, \hd22b, \h7ad6, \h1f1e, \h0c5c, \hbafa, \h4437, \hf107, \hb6e7, \h9962, \h42d2, \hd816,
  \h0a96, \h1288, \he1a5, \hc06e, \h1374, \h9e67, \h72fc, \h081a, \hb1d1, \h39f7, \hf958, \h3745, \hcf19, \hdf58, \hbec3, \hf756,
  \hc06e, \hba30, \h0721, \h1b24, \h45c2, \h8829, \hc95e, \h317f, \hbc8e, \hc511, \h38bc, \h46e9, \hc6e6, \hfa14, \hbae8, \h584a,
  \had4e, \hbc46, \h468f, \h508b, \h7829, \h435f, \hf124, \h183b, \h821d, \hba9f, \haff6, \h0ff4, \hea2c, \h4e6d, \h16e3, \h9264,
  \h9254, \h4a8b, \h009b, \h4fc3, \haba6, \h8ced, \h9ac9, \h6f78, \h06a5, \hb79a, \hb285, \h6e6e, \h1aec, \h3ca9, \hbe83, \h8688,
  \h0e08, \h04e9, \h55f1, \hbe56, \he7e5, \h363b, \hb3a1, \hf25d, \hf7de, \hbb85, \h61fe, \h033c, \h1674, \h6233, \h3c03, \h4c28,
  \hda6d, \h0c74, \h79aa, \hc56c, \h3ce4, \he1ad, \h51f0, \hc802, \h98f8, \hf35a, \h1626, \ha49f, \heed8, \h2b29, \h1d38, \h2fe3,
  \h0c4f, \hb99a, \hbb32, \h5778, \h3ec6, \hd97b, \h6e77, \ha6a9, \hcb65, \h8b5c, \hd452, \h30c7, \h2bd1, \h408b, \h60c0, \h3eb7,
  \hb906, \h8d78, \ha337, \h54f4, \hf430, \hc87d, \hc8a7, \h1302, \hb96d, \h8c32, \hebd4, \he7be, \hbe8b, \h9d2d, \h7979, \hfb06,
  \he722, \h5308, \h8b75, \hcf77, \h11ef, \h8da4, \he083, \hc858, \h8d6b, \h786f, \h5a63, \h17a6, \hfa5c, \hf7a0, \h5dda, \h0033,
  \hf28e, \hbfb0, \hf5b9, \hc310, \ha0ea, \hc280, \h08b9, \h767a, \ha3d9, \hd2b0, \h79d3, \h4217, \h021a, \h718d, \h9ac6, \h336a,
  \h2711, \hfd60, \h4380, \h50e3, \h0699, \h08a8, \h3d7f, \hedc4, \h826d, \h2bef, \h4eeb, \h8476, \h488d, \hcf25, \h36c9, \hd566,
  \h28e7, \h4e41, \hc261, \h0aca, \h3d49, \ha9cf, \hbae3, \hb9df, \hb65f, \h8de6, \h92ae, \haf64, \h3ac7, \hd5e6, \h9ea8, \h0509,
  \hf22b, \h017d, \ha417, \h3f70, \hdd1e, \h16c3, \h15e0, \hd7f9, \h50b1, \hb887, \h2b9f, \h4fd5, \h625a, \hba82, \h6a01, \h7962,
  \h2ec0, \h1b9c, \h1548, \h8aa9, \hd716, \he740, \h4005, \h5a2c, \h93d2, \h9a22, \he32d, \hbf9a, \h0587, \h45b9, \h3453, \hdc1e,
  \hd699, \h296e, \h496c, \hff6f, \h1c9f, \h4986, \hdfe2, \hed07, \hb872, \h42d1, \h19de, \h7eae, \h053e, \h561a, \h15ad, \h6f8c,
  \h6662, \h6c1c, \h7154, \hc24c, \hea08, \h2b2a, \h93eb, \h2939, \h17dc, \hb0f0, \h58d4, \hf2ae, \h9ea2, \h94fb, \h52cf, \h564c,
  \h9883, \hfe66, \h2ec4, \h0581, \h7639, \h53c3, \h01d6, \h692e, \hd3a0, \hc108, \ha1e7, \h160e, \he4f2, \hdfa6, \h693e, \hd285,
  \h7490, \h4698, \h4c2b, \h0edd, \h4f75, \h7656, \h5d39, \h3378, \ha132, \h234f, \h3d32, \h1c5d, \hc3f5, \he194, \h4b26, \h9301,
  \hc79f, \h022f, \h3c99, \h7e7e, \h5e4f, \h9504, \h3ffa, \hfbbd, \h76f7, \had0e, \h2966, \h93f4, \h3d1f, \hce6f, \hc61e, \h45be,
  \hd3b5, \hab34, \hf72b, \hf9b7, \h1b04, \h34c0, \h4e72, \hb567, \h5592, \ha33d, \hb522, \h9301, \hcfd2, \ha87f, \h60ae, \hb767,
  \h1814, \h386b, \h30bc, \hc33d, \h38a0, \hc07d, \hfd16, \h06f2, \hc363, \h519b, \h589d, \hd390, \h5479, \hf8e6, \h1cb8, \hd647,
  \h97fd, \h61a9, \hea77, \h59f4, \h2d57, \h539d, \h569a, \h58cf, \he84e, \h63ad, \h462e, \h1b78, \h6580, \hf87e, \hf381, \h7914,
  \h91da, \h55f4, \h40a2, \h30f3, \hd198, \h8f35, \hb6e3, \h18d2, \h3ffa, \h50bc, \h3d40, \hf021, \hc3c0, \hbdae, \h4958, \hc24c,
  \h518f, \h36b2, \h84b1, \hd370, \h0fed, \hce83, \h878d, \hdada, \hf2a2, \h79c7, \h94e0, \h1be8, \h9071, \h6f4b, \h954b, \h8aa3>>

S8 == <<
  \he216, \h300d, \hbbdd, \hfffc, \ha7eb, \hdabd, \h3564, \h8095, \h7789, \hf8b7, \he6c1, \h121b, \h0e24, \h1600, \h052c, \he8b5,
  \h11a9, \hcfb0, \he595, \h2f11, \hece7, \h990a, \h9386, \hd174, \h2a42, \h931c, \h76e3, \h8111, \hb12d, \hef3a, \h37dd, \hddfc,
  \hde9a, \hdeb1, \h0a0c, \hc32c, \hbe19, \h7029, \h84a0, \h0940, \hbb24, \h3a0f, \hb4d1, \h37cf, \hb44e, \h79f0, \h049e, \hedfd,
  \h0b15, \ha15d, \h480d, \h3168, \h8bbb, \hde5a, \h669d, \hed42, \hc7ec, \he831, \h3f8f, \h95e7, \h72df, \h191b, \h7580, \h330d,
  \h9407, \h4251, \h5c7d, \hcdfa, \habbe, \h6d63, \haa40, \h2164, \hb301, \hd40a, \h02e7, \hd1ca, \h5357, \h1dae, \h7a31, \h82a2,
  \h12a8, \hddec, \hfdaa, \h335d, \h176f, \h43e8, \h71fb, \h46d4, \h3812, \h9022, \hce94, \h9ad4, \hb847, \h69ad, \h965b, \hd862,
  \h82f3, \hd055, \h66fb, \h9767, \h15b8, \h0b4e, \h1d5b, \h47a0, \h4cfd, \he06f, \hc28e, \hc4b8, \h57e8, \h726e, \h647a, \h78fc,
  \h9986, \h5d44, \h608b, \hd593, \h6c20, \h0e03, \h39dc, \h5ff6, \h5d0b, \h00a3, \hae63, \haff2, \h7e8b, \hd632, \h7010, \h8c0c,
  \hbbd3, \h5049, \h2998, \hdf04, \h980c, \hf42a, \h9b6d, \hf491, \h9e7e, \hdd53, \h0691, \h8548, \h58cb, \h7e07, \h3b74, \hef2e,
  \h522f, \hffb1, \hd247, \h08cc, \h1c7e, \h27cd, \ha4eb, \h215b, \h3cf1, \hd2e2, \h19b4, \h7a38, \h424f, \h7618, \h3585, \h6039,
  \h9d17, \hdee7, \h27eb, \h35e6, \hc9af, \hf67b, \h36ba, \hf5b8, \h09c4, \h67cd, \hc189, \h10b1, \he11d, \hbf7b, \h06cd, \h1af8,
  \h7170, \hc608, \h2d5e, \h3354, \hd4de, \h495a, \h64c6, \hd006, \hbcc0, \hc62c, \h3dd0, \h0db3, \h708f, \h8f34, \h77d5, \h1b42,
  \h264f, \h620f, \h24b8, \hd2bf, \h15c1, \hb79e, \h46a5, \h2564, \hf8d7, \he54e, \h3e37, \h8160, \h7895, \hcda5, \h859c, \h15a5,
  \he645, \h9788, \hc37b, \hc75f, \hdb07, \hba0c, \h0676, \ha3ab, \h7f22, \h9b1e, \h3184, \h2e7b, \h2425, \h9fd7, \hf8be, \hf472,
  \h835f, \hfcb8, \h6df4, \hc1f2, \h96f5, \hb195, \hfd0a, \hf0fc, \hb0fe, \h134c, \he250, \h6d3d, \h4f9b, \h12ea, \hf215, \hf225,
  \ha223, \h736f, \h9fb4, \hc428, \h25d0, \h4979, \h34c7, \h13f8, \hc461, \h8187, \hea7a, \h6e98, \h7cd1, \h6efc, \h1436, \h876c,
  \hf154, \h4107, \hbede, \hee14, \h56e9, \haf27, \ha04a, \ha441, \h3cf7, \hc899, \h92ec, \hbae6, \hdd67, \h016d, \h1516, \h82eb,
  \ha842, \heedf, \hfdba, \h60b4, \hf190, \h7b75, \h20e3, \h030f, \h24d8, \hc29e, \he139, \h673b, \hefa6, \h3fb8, \h7187, \h3054,
  \hb6f2, \hcf3b, \h9f32, \h6442, \hcb15, \ha4cc, \hb01a, \h4504, \hf1e4, \h7d8d, \h844a, \h1be5, \hbae7, \hdfdc, \h42cb, \hda70,
  \hcd7d, \hae0a, \h57e8, \h5b7a, \hd53f, \h5af6, \h20cf, \h4d8c, \hcea4, \hd428, \h79d1, \h30a4, \h3486, \hebfb, \h33d3, \hcddc,
  \h7785, \h3b53, \h37ef, \hfcb5, \hc506, \h8778, \he580, \hb3e6, \h4e68, \hb8f4, \hc5c8, \hb37e, \h0d80, \h9ea2, \h398f, \heb7c,
  \h132a, \h4f94, \h43b7, \h950e, \h2fee, \h7d1c, \h2236, \h13bd, \hdd06, \hcaa2, \h37df, \h932b, \hc424, \h8289, \hacf3, \hebc3,
  \h5715, \hf6b7, \hef34, \h78dd, \hf267, \h616f, \hc148, \hcbe4, \h9052, \h815e, \h5e41, \h0fab, \hb48a, \h2465, \h2eda, \h7fa4,
  \he87b, \h40e4, \he98e, \ha084, \h5889, \he9e1, \hefd3, \h90fc, \hdd07, \hd35b, \hdb48, \h5694, \h38d7, \he5b2, \h5772, \h0101,
  \h730e, \hdebc, \h5b64, \h3113, \h9491, \h7e4f, \h503c, \h2fba, \h646f, \h1282, \h7523, \hd24a, \he077, \h9695, \hf9c1, \h7a8f,
  \h7a5b, \h2121, \hd187, \hb896, \h2926, \h3a4d, \hba51, \h0cdf, \h81f4, \h7c9f, \had11, \h63ed, \hea7b, \h5965, \h1a00, \h726e,
  \h1140, \h3092, \h00da, \h6d77, \h4a0c, \hdd61, \had1f, \h4603, \h605b, \hdfb0, \h9eed, \hc364, \h22eb, \he6a8, \hcee7, \hd28a,
  \ha0e7, \h36a0, \h5564, \ha6b9, \h1085, \h3209, \hc7eb, \h8f37, \h2de7, \h05ca, \h8951, \h570f, \hdf09, \h822b, \hbd69, \h1a6c,
  \haa12, \he4f2, \h8745, \h1c0f, \he0f6, \ha27a, \h3ada, \h4819, \h4cf1, \h764f, \h0d77, \h1c2b, \h67cd, \hb156, \h350d, \h8384,
  \h5938, \hfa0f, \h4239, \h9ef3, \h3699, \h7b07, \h0e84, \h093d, \h4aa9, \h3e61, \h8360, \hd87b, \h1fa9, \h8b0c, \h1149, \h382c,
  \he976, \h25a5, \h0614, \hd1b7, \h0e25, \h244b, \h0c76, \h8347, \h589e, \h8d82, \h0d20, \h59d1, \ha466, \hbb1e, \hf8da, \h0a82,
  \h04f1, \h9130, \hba6e, \h4ec0, \h9926, \h5164, \h1ee7, \h230d, \h50b2, \had80, \heaee, \h6801, \h8db2, \ha283, \hea8b, \hf59e>>

\* Entry b of a box, as a word.
At(S, b) == LET h == S[(2 * b) + 1] l == S[(2 * b) + 2]
            IN <<h \div 256, h % 256, l \div 256, l % 256>>

=============================================================================
