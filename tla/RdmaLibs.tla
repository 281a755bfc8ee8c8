------------------------------ MODULE RdmaLibs ------------------------------
(***************************************************************************)
(* The libraries the RDMA endpoint loads at run time: libibverbs and       *)
(* libnuma (common/ibv-wrapper.cpp, common/rdma-numa-wrapper.cpp) and the  *)
(* vendors' direct verbs (the *_dv_dl_init of the provider files), and the *)
(* way a memory region is registered through what was found.               *)
(*                                                                         *)
(* The dynamic linker is external.  What it finds of one library is a      *)
(* function at from the places the library is installed in to the symbols  *)
(* the copy there exports.                                                 *)
(***************************************************************************)
EXTENDS Integers, Sequences

\* dlopen of one place after the other: the first that has the library.
FirstOpened(places, at) ==
  IF \E i \in DOMAIN places : places[i] \in DOMAIN at
  THEN places[CHOOSE i \in DOMAIN places :
                /\ places[i] \in DOMAIN at
                /\ \A j \in DOMAIN places : places[j] \in DOMAIN at => i <= j]
  ELSE "none"

dv_dlopen(extra, at) ==
  FirstOpened(<<"RDMA_CORE_LIB_DIR", "search path">> \o extra \o <<"/usr/local/lib">>, at)

\* A run of LOADs stops at the first symbol that is missing and not optional,
\* and leaves those found before it assigned.
Resolved(names, optional, symbols) ==
  {names[i] : i \in {k \in DOMAIN names :
                       /\ names[k] \in symbols
                       /\ \A j \in 1 .. k : names[j] \in symbols \cup optional}}

Complete(names, optional, symbols) ==
  \A i \in DOMAIN names : names[i] \in symbols \cup optional

Unopened == [handle |-> "none", ok |-> FALSE, funcs |-> {}]

LoadTable(handle, names, optional, at) ==
  IF handle = "none" THEN Unopened
  ELSE [handle |-> handle,
        ok     |-> Complete(names, optional, at[handle]),
        funcs  |-> Resolved(names, optional, at[handle])]

-----------------------------------------------------------------------------
(* The providers: what each loads, and what its backend file calls.        *)

bnxt_dv_dl_init(at) ==
  LoadTable(dv_dlopen(<<>>, at),
            <<"create_qp", "destroy_qp", "modify_qp", "create_cq", "destroy_cq", "umem_reg",
              "umem_dereg", "alloc_db_region", "free_db_region", "get_default_db_region",
              "get_cq_id">>, {}, at)

mlx5_dv_dl_init(at) ==
  LoadTable(dv_dlopen(<<"/usr/lib/x86_64-linux-gnu", "/usr/lib/aarch64-linux-gnu",
                        "/usr/lib64">>, at),
            <<"init_obj", "is_supported", "query_device">>, {"is_supported", "query_device"}, at)

ernic_dv_dl_init(at) ==
  LoadTable(dv_dlopen(<<>>, at),
            <<"create_qp", "destroy_qp", "modify_qp", "create_cq", "destroy_cq", "umem_reg",
              "umem_dereg", "get_cq_id", "get_qp_attr">>, {}, at)

ionic_dv_dl_init(at) ==
  LoadTable(dv_dlopen(<<>>, at),
            <<"get_ctx", "qp_get_udma_idx", "get_cq", "get_qp", "pd_set_sqcmb",
              "pd_set_rqcmb", "pd_set_udma_mask", "create_cq_ex", "qp_set_gda">>, {}, at)

\* The symbols the backend files call without asking whether they are there.
CalledBy(p) ==
  CASE p = "bnxt"  -> {"create_cq", "destroy_cq", "create_qp", "destroy_qp", "modify_qp",
                       "umem_reg", "umem_dereg", "alloc_db_region",
                       "get_default_db_region", "get_cq_id"}
    [] p = "mlx5"  -> {"init_obj"}
    [] p = "ernic" -> {"create_cq", "create_qp", "modify_qp", "umem_reg", "get_cq_id",
                       "get_qp_attr"}
    [] p = "ionic" -> {"create_cq_ex", "get_cq", "get_ctx", "get_qp", "pd_set_rqcmb",
                       "pd_set_sqcmb", "pd_set_udma_mask", "qp_get_udma_idx", "qp_set_gda"}

DlInit(p, at) ==
  CASE p = "bnxt"  -> bnxt_dv_dl_init(at)
    [] p = "mlx5"  -> mlx5_dv_dl_init(at)
    [] p = "ernic" -> ernic_dv_dl_init(at)
    [] p = "ionic" -> ionic_dv_dl_init(at)

-----------------------------------------------------------------------------
(* IBVWrapper and NUMAWrapper.                                             *)

ibv_init_function_table(handle, at) ==
  LoadTable(handle,
            <<"get_device_list", "free_device_list", "open_device", "close_device",
              "get_device_name", "query_device", "query_port", "query_gid",
              "query_gid_table", "alloc_pd", "dealloc_pd", "reg_mr", "reg_dmabuf_mr",
              "reg_mr_iova2", "dereg_mr", "create_cq", "destroy_cq", "create_qp", "modify_qp",
              "destroy_qp">>, {"reg_dmabuf_mr"}, at)

\* The flag is raised only with the optional symbol and both kernel options;
\* dmabuf_enabled_, which is tested first, is true and nothing assigns it.
init_dmabuf_support_flag(table, kernelOptions) ==
  /\ "reg_dmabuf_mr" \in table.funcs
  /\ {"CONFIG_DMABUF_MOVE_NOTIFY", "CONFIG_PCI_P2PDMA"} \subseteq kernelOptions

\* The constructor keeps the handle when the table is incomplete.
IBVWrapper(at, kernelOptions) ==
  LET table == ibv_init_function_table(
                 FirstOpened(<<"RDMA_CORE_LIB_DIR", "search path",
                               "/usr/lib/x86_64-linux-gnu">>, at), at)
  IN  [table |-> table,
       is_initialized |-> table.ok,
       dmabuf_is_supported |-> table.ok /\ init_dmabuf_support_flag(table, kernelOptions)]

\* What the methods of IBVWrapper call without a test, reg_mr's way through a
\* dmabuf apart.  create_qp_ex and query_port may find the context's own entry.
IbvCalled ==
  {"get_device_list", "free_device_list", "open_device", "close_device", "get_device_name",
   "query_device", "query_port", "query_gid_table", "query_gid", "alloc_pd", "dealloc_pd",
   "reg_mr", "reg_mr_iova2", "dereg_mr", "create_cq", "destroy_cq", "create_qp",
   "modify_qp", "destroy_qp"}

\* The constructor closes the handle when the table is incomplete.
NUMAWrapper(at) ==
  LET table == LoadTable(FirstOpened(<<"search path", "libnuma.so.1">>, at),
                 <<"bitmask_isbitset", "get_mems_allowed", "set_preferred",
                   "num_configured_nodes", "num_configured_cpus", "node_of_cpu",
                   "max_node", "move_pages", "distance">>, {}, at)
  IN  [table |-> IF table.ok THEN table ELSE [table EXCEPT !.handle = "none"],
       is_initialized |-> table.ok]

NumaCalled ==
  {"bitmask_isbitset", "get_mems_allowed", "set_preferred", "num_configured_nodes",
   "num_configured_cpus", "node_of_cpu", "max_node", "move_pages", "distance"}

\* reg_mr_host: an access mask without optional bits goes the short way.
reg_mr_host(plainAccess) == IF plainAccess THEN "reg_mr" ELSE "reg_mr_iova2"

\* The functions reg_mr calls; an export that fails calls none.
reg_mr(w, exported, plainAccess) ==
  IF ~w.dmabuf_is_supported THEN {reg_mr_host(plainAccess)}
  ELSE IF exported THEN {"reg_dmabuf_mr"}
  ELSE {}
=============================================================================
