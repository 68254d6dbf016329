---------------------------- MODULE LayoutPacking ----------------------------
(***************************************************************************)
(* annc-opt's LayoutMatmulRewriter (constant_folding.py, data_pack.py):    *)
(* the variable a MatMul reads is reordered block by block into the order  *)
(* in which KPGEMM's kernel reads it.  A packing is the sequence of the    *)
(* offsets, counted from 0, the elements come from.                        *)
(***************************************************************************)
EXTENDS Integers, SequencesExt

CONSTANTS
  VectorLen,   \* __vector_len__: 12, of which generate_slices makes a case of its own
  TileSizes    \* generate_tiling: 352 along axis 0, 128 along axis 1

ASSUME PackingAssumption ==
  /\ VectorLen \in Nat \ {0}
  /\ TileSizes \in [1..2 -> Nat \ {0}]

\* The smaller half of what the last two tiles share: a multiple of the vector length.
DockerLen(res) ==
  LET docker_len == ((res \div 2) \div VectorLen) * VectorLen
  IN  IF res - docker_len > docker_len + 1 THEN docker_len + VectorLen ELSE docker_len

\* block_tiling along one axis: <<start, end>> of each tile; the last two are evened out.
Tiles(dim, tile_size) ==
  LET num == dim \div tile_size + (IF dim % tile_size = 0 THEN 0 ELSE 1)
      Tile(i) ==
        LET start == i * tile_size
            shared == dim - start + tile_size
        IN  IF dim < tile_size THEN <<start, dim>>
            ELSE IF dim % tile_size # 0 /\ i = num - 2
            THEN <<start, start + DockerLen(dim - start)>>
            ELSE IF dim % tile_size # 0 /\ i = num - 1
            THEN <<dim - shared + DockerLen(shared), dim>>
            ELSE <<start, start + tile_size>>
  IN  [i \in 1..num |-> Tile(i - 1)]

\* generate_slices for vectors of 12: whole ones, then as many as fit of 4, of 2 and of 1.
SliceLens(dim) ==
  LET Fill(acc, len) ==
        [boundary |-> acc.boundary % len,
         slices |-> acc.slices \o [i \in 1..acc.boundary \div len |-> len]]
  IN  FoldLeft(Fill, [boundary |-> dim, slices |-> <<>>], <<VectorLen, 4, 2, 1>>).slices

\* <<start, end>> of slices of these lengths, one behind the other.
Consecutive(start, lens) ==
  LET at(k) == start + FoldLeft(LAMBDA x, y : x + y, 0, SubSeq(lens, 1, k))
  IN  [k \in DOMAIN lens |-> <<at(k - 1), at(k)>>]
Slices(range) == Consecutive(range[1], SliceLens(range[2] - range[1]))

\* flatten() of a part of a matrix with this many columns.
Flattened(columns, rows, cols) ==
  LET width == cols[2] - cols[1]
  IN  [o \in 1..(rows[2] - rows[1]) * width |->
         (rows[1] + (o - 1) \div width) * columns + (cols[1] + ((o - 1) % width))]

\* The parts of a matrix where these rows and columns meet, one behind the other.
Blocks(columns, rows, cols) ==
  FlattenSeq([j \in DOMAIN rows |-> FlattenSeq(
    [k \in DOMAIN cols |-> Flattened(columns, rows[j], cols[k])])])

\* kn4: nk_to_kn4; k4m4: mk_to_k4m4.
Pack(columns, format, rows, cols) ==
  Blocks(columns, IF format = "kn4" THEN <<rows>> ELSE Slices(rows), Slices(cols))

\* do_packing puts the packed blocks together.
PackTiles(columns, format, row_tiles, col_tiles) ==
  FlattenSeq([r \in DOMAIN row_tiles |-> FlattenSeq(
    [k \in DOMAIN col_tiles |-> Pack(columns, format, row_tiles[r], col_tiles[k])])])

\* do_tiling cuts along axis 0, then along axis 1.
Packing(shape, format) ==
  PackTiles(shape[2], format, Tiles(shape[1], TileSizes[1]), Tiles(shape[2], TileSizes[2]))
=============================================================================
