-------------------------- MODULE ImportacaoETLProofs --------------------------
(***************************************************************************)
(* Proofs about ImportacaoETL, for any file, any number of jobs, workers   *)
(* and deliveries.                                                         *)
(*                                                                         *)
(* The inductive invariant Inv says what a state of the tables needs to    *)
(* agree with what the workers hold: one validation at a time has the row  *)
(* of the import, and what it is about to delete is all the staging        *)
(* (UmaTrava, Escritas); numbers of validations are never reused           *)
(* (Numeradas, IdUnico); a row a load holds was "validado" and no other    *)
(* transaction makes it a duplicate (LidasBatem); and a document inserted  *)
(* and not committed is nowhere else (Documentos).                         *)
(***************************************************************************)
EXTENDS ImportacaoETL, FiniteSetTheorems, TLAPS

LEMMA MarcarTipo ==
    ASSUME TypeOK, NEW w \in Trabalhadores
    PROVE  Marcar(w) \subseteq Linha
<1>1. \A s \in Linha : [s EXCEPT !.st = "carregado"] \in Linha  BY DEF Linha
<1> QED  BY <1>1 DEF Marcar, TypeOK

LEMMA ValidadasTipo ==
    ASSUME NEW m, NEW g \in Nat
    PROVE  Validadas(m, g) \subseteq Linha
  BY DEF Validadas, Linha

LEMMA ValidadasFinitas ==
    ASSUME NEW m, NEW g \in Nat
    PROVE  IsFiniteSet(Validadas(m, g))
<1> DEFINE ok == Linhas \ Erradas[m]
           f == [l \in ok |-> [ger |-> g, linha |-> l,
                               st |-> IF Repetida(l, ok) THEN "duplicado" ELSE "validado"]]
<1>1. IsFiniteSet(ok)  BY ArquivoFinito, FS_Subset, ok \in SUBSET Linhas
<1>2. f \in Surjection(ok, Validadas(m, g))
  BY DEF Surjection, Validadas
<1> HIDE DEF f, ok
<1> QED  BY <1>1, <1>2, FS_Surjection

LEMMA LargarTipo ==
    ASSUME TypeOK, NEW w \in Trabalhadores, Largar(w)
    PROVE  /\ mapaLido' \in [Trabalhadores -> Mapas \cup {Nada}]
           /\ lote' \in [Trabalhadores -> Nat]
           /\ resta' \in [Trabalhadores -> SUBSET Linha]
           /\ feitas' \in [Trabalhadores -> SUBSET Linha]
           /\ falhas' \in [Trabalhadores -> SUBSET Linha]
  BY DEF TypeOK, Largar

\* A message is of a job that exists, and a worker has a job while it is busy.
Mensagens == \A j \in Jobs : j \in aEnviar \/ fila[j] > 0 => tipo[j] # "nenhum"
Ocupados ==
    \A w \in Trabalhadores : /\ passo[w] # "ocioso" => job[w] \in Jobs
                             /\ job[w] \in Jobs => tipo[job[w]] # "nenhum"

LEMMA TipoPedido ==
    ASSUME TypeOK, Mensagens, Ocupados,
           \/ \E m \in Mapas : Pedir(m)
           \/ Aprovar \/ Cancelar
           \/ \E j \in Jobs : Despachar(j) \/ DespachoPerdido(j) \/ Reentregar(j)
    PROVE  TypeOK' /\ Mensagens' /\ Ocupados'
<1> USE DEF importacao, linhasJob, broker, dados, lidos, trab, Estaveis, Status
<1>1. ASSUME NEW m \in Mapas, CriarImportacao(m) PROVE TypeOK' /\ Mensagens' /\ Ocupados'
  BY <1>1 DEF CriarImportacao, Enfileirar, TypeOK, Mensagens, Ocupados
<1>2. ASSUME NEW m \in Mapas, AtualizarMapa(m) PROVE TypeOK' /\ Mensagens' /\ Ocupados'
  BY <1>2 DEF AtualizarMapa, Remapear, TypeOK, Mensagens, Ocupados
<1>3. ASSUME NEW m \in Mapas, Reprocessar(m) PROVE TypeOK' /\ Mensagens' /\ Ocupados'
  BY <1>3 DEF Reprocessar, Remapear, Enfileirar, TypeOK, Mensagens, Ocupados
<1>4. CASE Aprovar  BY <1>4 DEF Aprovar, Enfileirar, TypeOK, Mensagens, Ocupados
<1>5. CASE Cancelar  BY <1>5 DEF Cancelar, TypeOK, Mensagens, Ocupados
<1>6. ASSUME NEW j \in Jobs, Despachar(j) PROVE TypeOK' /\ Mensagens' /\ Ocupados'
  BY <1>6 DEF Despachar, TypeOK, Mensagens, Ocupados
<1>7. ASSUME NEW j \in Jobs, DespachoPerdido(j) PROVE TypeOK' /\ Mensagens' /\ Ocupados'
  BY <1>7 DEF DespachoPerdido, TypeOK, Mensagens, Ocupados
<1>8. ASSUME NEW j \in Jobs, Reentregar(j) PROVE TypeOK' /\ Mensagens' /\ Ocupados'
  BY <1>8 DEF Reentregar, TypeOK, Mensagens, Ocupados
<1> QED  BY <1>1, <1>2, <1>3, <1>4, <1>5, <1>6, <1>7, <1>8 DEF Pedir

\* Only a transaction that holds something waits in a cycle.
LEMMA ImpassePasso ==
    ASSUME NEW w \in Trabalhadores, Impasse(w)
    PROVE  passo[w] \in {"apagar", "fim", "linhas", "linhaErro"}
<1>1. PICK S \in SUBSET Trabalhadores : w \in S /\ EmCirculo(S)  BY DEF Impasse
<1>2. PICK v \in S : EsperaPor(w, v)  BY <1>1 DEF EmCirculo
<1> QED  BY <1>2 DEF EsperaPor

LEMMA TipoTrabalho ==
    ASSUME TypeOK, Mensagens, Ocupados, NEW w \in Trabalhadores, Trabalhar(w) \/ Cair(w)
    PROVE  TypeOK' /\ Mensagens' /\ Ocupados'
<1> USE DEF importacao, linhasJob, broker, dados, lidos, trab, Ir, Passos, Estaveis, Status
<1>1. CASE \E j \in Jobs : Receber(w, j)  BY <1>1, NadaNovo DEF Receber, TypeOK, Mensagens, Ocupados
<1>2. CASE LerImportacao(w)  BY <1>2, NadaNovo DEF LerImportacao, TypeOK, Mensagens, Ocupados
<1>3. CASE ArquivoIlegivel(w)  BY <1>3, NadaNovo DEF ArquivoIlegivel, TypeOK, Mensagens, Ocupados
<1>4. CASE Travar(w)  BY <1>4, NadaNovo DEF Travar, TypeOK, Mensagens, Ocupados
<1>5. CASE Apagar(w)  BY <1>5, NadaNovo DEF Apagar, TypeOK, Mensagens, Ocupados
<1>6. CASE Gravar(w)
  <2> DEFINE novas == Validadas(mapaLido[w], seq + 1)
             boas == {s \in novas : s.st = "validado"}
  <2>1. seq + 1 \in Nat  BY DEF TypeOK
  <2>2. novas \subseteq Linha  BY <2>1, ValidadasTipo
  <2>3. IsFiniteSet(boas)  BY <2>1, ValidadasFinitas, FS_Subset, boas \in SUBSET novas
  <2>4. Cardinality(boas) \in Nat  BY <2>3, FS_CardinalityType
  <2>5. /\ staging' = (staging \ resta[w]) \cup novas /\ validas' = Cardinality(boas)
        /\ status' = "parcial" /\ mapa' = mapaLido[w] /\ seq' = seq + 1
        /\ Ir(w, "sucesso") /\ Largar(w) /\ passo[w] = "gravar"
        /\ UNCHANGED <<aprovada, linhasJob, broker, cadastro, job, aceitas>>
    BY <1>6 DEF Gravar
  <2> HIDE DEF novas, boas
  <2> QED  BY <2>1, <2>2, <2>4, <2>5, LargarTipo DEF TypeOK, Mensagens, Ocupados
<1>7. CASE LerCarga(w)  BY <1>7, NadaNovo DEF LerCarga, TypeOK, Mensagens, Ocupados
<1>8. CASE PromoverLinha(w)  BY <1>8, NadaNovo DEF PromoverLinha, TypeOK, Mensagens, Ocupados
<1>9. CASE LinhaFalha(w)  BY <1>9, NadaNovo, LargarTipo DEF LinhaFalha, TypeOK, Mensagens, Ocupados
<1>10. CASE TerminarLinhas(w)  BY <1>10, NadaNovo DEF TerminarLinhas, TypeOK, Mensagens, Ocupados
<1>11. CASE FimCarga(w)
  <2> DEFINE novas == Promovidas(w)
  <2>1. novas \subseteq Promovida
    <3>1. feitas[w] \subseteq Linha /\ lote[w] \in Nat  BY DEF TypeOK
    <3>2. \A s \in feitas[w] : s.linha \in Linhas /\ s.ger \in Nat /\ Pessoa(s) \in Pessoas
      BY <3>1, LinhasNumeradas DEF Linha, Pessoa
    <3> QED  BY <3>1, <3>2 DEF Promovida, Promovidas
  <2>2. cadastro' = cadastro \cup novas /\ staging' = Marcar(w)  BY <1>11 DEF FimCarga
  <2>3. Marcar(w) \subseteq Linha  BY MarcarTipo
  <2>4. /\ status' \in {"concluida", "parcial"} /\ Ir(w, "sucesso") /\ Largar(w) /\ passo[w] = "fim"
        /\ UNCHANGED <<mapa, aprovada, validas, seq, linhasJob, broker, job, aceitas>>
    BY <1>11 DEF FimCarga
  <2> HIDE DEF novas
  <2> QED  BY <2>1, <2>2, <2>3, <2>4, LargarTipo DEF TypeOK, Mensagens, Ocupados
<1>12. CASE Vitima(w)  BY <1>12, ImpassePasso, LargarTipo DEF Vitima, TypeOK, Mensagens, Ocupados
<1>13. CASE Falhar(w)  BY <1>13, NadaNovo, LargarTipo DEF Falhar, TypeOK, Mensagens, Ocupados
<1>14. CASE MarcarSucesso(w)  BY <1>14, NadaNovo DEF MarcarSucesso, MarcarJob, TypeOK, Mensagens, Ocupados
<1>15. CASE MarcarErro(w)  BY <1>15, NadaNovo DEF MarcarErro, MarcarJob, TypeOK, Mensagens, Ocupados
<1>16. CASE Cair(w)  BY <1>16, NadaNovo, LargarTipo DEF Cair, TypeOK, Mensagens, Ocupados
<1> QED  BY <1>1, <1>2, <1>3, <1>4, <1>5, <1>6, <1>7, <1>8, <1>9, <1>10, <1>11, <1>12, <1>13, <1>14,
            <1>15, <1>16 DEF Trabalhar

(***************************************************************************)
(* The staged rows and the persons.                                        *)
(***************************************************************************)
\* Rows that a load has read and may still promote, or has promoted.
Abertas(w) == feitas[w] \cup (IF passo[w] \in {"linhas", "linhaErro"} THEN resta[w] ELSE {})

\* One validation at a time has the row of the import.
UmaTrava == \A v, w \in Trabalhadores : TravaImportacao(v) /\ TravaImportacao(w) => v = w

\* Only a load has promoted rows, and a validation deletes all there is.
Escritas ==
    \A w \in Trabalhadores : /\ passo[w] \notin {"linhas", "linhaErro", "fim"} => feitas[w] = {} /\ falhas[w] = {}
                             /\ passo[w] = "gravar" => resta[w] = staging

\* The sequence is ahead of every number it gave.
Numeradas ==
    /\ \A s \in staging : s.ger <= seq
    /\ \A c \in cadastro : c.ger <= seq
    /\ \A w \in Trabalhadores : \A s \in Abertas(w) : s.ger <= seq

IdUnico == \A s, t \in staging : MesmaLinha(s, t) => s = t

\* A row read by a load was "validado", and has become at most "carregado".
LidasBatem ==
    \A w \in Trabalhadores : \A t \in Abertas(w) :
        t.st = "validado" /\ \A s \in staging : MesmaLinha(s, t) => s.st # "duplicado"

\* A document is inserted once: in cadastro, or by one row of one load.
DocumentoLivreNoCadastro ==
    \A w \in Trabalhadores : \A s \in feitas[w] : \A c \in cadastro :
        Pessoa(s) = c.pessoa => ~ComDocumento(c.pessoa)

DocumentoDeUmaLinha ==
    \A w \in Trabalhadores : \A s, t \in feitas[w] :
        Pessoa(s) = Pessoa(t) /\ ComDocumento(Pessoa(s)) => s = t

DocumentoDeUmaCarga ==
    \A v, w \in Trabalhadores : \A s \in feitas[v] : \A t \in feitas[w] :
        Pessoa(s) = Pessoa(t) /\ ComDocumento(Pessoa(s)) => v = w

Documentos == /\ DocumentoUmaPessoa /\ DocumentoLivreNoCadastro
              /\ DocumentoDeUmaLinha /\ DocumentoDeUmaCarga

Nucleo == /\ UmaTrava /\ Escritas /\ Numeradas /\ IdUnico /\ LidasBatem
          /\ StagingDeUmaLeitura /\ CarregadaSsePromovida /\ Documentos

\* Nothing the core reads has changed.
LEMMA NucleoIgual ==
    ASSUME Nucleo, UNCHANGED <<dados, passo, resta, feitas, falhas>>
    PROVE  Nucleo'
<1> USE DEF Nucleo, dados
<1>1. UmaTrava' /\ Escritas'  BY DEF UmaTrava, Escritas, TravaImportacao
<1>2. Numeradas' /\ LidasBatem'  BY DEF Numeradas, LidasBatem, Abertas, MesmaLinha
<1>3. IdUnico' /\ StagingDeUmaLeitura' /\ CarregadaSsePromovida'
  BY DEF IdUnico, StagingDeUmaLeitura, CarregadaSsePromovida, MesmaLinha
<1>4. Documentos'
  <2>1. DocumentoUmaPessoa'  BY DEF Documentos, DocumentoUmaPessoa, ComDocumento
  <2>2. DocumentoLivreNoCadastro'  BY DEF Documentos, DocumentoLivreNoCadastro, Pessoa, ComDocumento
  <2>3. DocumentoDeUmaLinha'  BY DEF Documentos, DocumentoDeUmaLinha, Pessoa, ComDocumento
  <2>4. DocumentoDeUmaCarga'  BY DEF Documentos, DocumentoDeUmaCarga, Pessoa, ComDocumento
  <2> QED  BY <2>1, <2>2, <2>3, <2>4 DEF Documentos
<1> QED  BY <1>1, <1>2, <1>3, <1>4

\* A worker goes on to a statement that neither deletes staged rows nor loads one.
LEMMA NucleoPasso ==
    ASSUME TypeOK, Nucleo, NEW w \in Trabalhadores, NEW p \in Passos \ {"gravar", "linhas", "linhaErro"}, Ir(w, p),
           UNCHANGED <<dados, resta, feitas, falhas>>,
           p = "apagar" => ImportacaoLivre(w),
           p # "fim" => feitas[w] = {} /\ falhas[w] = {}
    PROVE  Nucleo'
<1>0. passo \in [Trabalhadores -> Passos]  BY DEF TypeOK
<1> USE DEF Nucleo, Ir, dados
<1>1. UmaTrava'  BY <1>0 DEF UmaTrava, TravaImportacao, ImportacaoLivre
<1>2. Escritas'  BY <1>0 DEF Escritas
<1>3. \A v \in Trabalhadores : Abertas(v)' \subseteq Abertas(v)  BY <1>0 DEF Abertas
<1>4. Numeradas'  BY <1>3 DEF Numeradas
<1>5. LidasBatem'  BY <1>3 DEF LidasBatem, MesmaLinha
<1>6. IdUnico' /\ StagingDeUmaLeitura' /\ CarregadaSsePromovida'
  BY DEF IdUnico, StagingDeUmaLeitura, CarregadaSsePromovida, MesmaLinha
<1>7. Documentos'
  <2>1. DocumentoUmaPessoa'  BY DEF Documentos, DocumentoUmaPessoa, ComDocumento
  <2>2. DocumentoLivreNoCadastro'  BY DEF Documentos, DocumentoLivreNoCadastro, Pessoa, ComDocumento
  <2>3. DocumentoDeUmaLinha'  BY DEF Documentos, DocumentoDeUmaLinha, Pessoa, ComDocumento
  <2>4. DocumentoDeUmaCarga'  BY DEF Documentos, DocumentoDeUmaCarga, Pessoa, ComDocumento
  <2> QED  BY <2>1, <2>2, <2>3, <2>4 DEF Documentos
<1> QED  BY <1>1, <1>2, <1>4, <1>5, <1>6, <1>7

\* A transaction is undone.
LEMMA NucleoLargar ==
    ASSUME TypeOK, Nucleo, NEW w \in Trabalhadores, NEW p \in {"falhar", "erro", "ocioso"}, Ir(w, p),
           Largar(w), UNCHANGED dados
    PROVE  Nucleo'
<1>0. /\ passo \in [Trabalhadores -> Passos] /\ resta \in [Trabalhadores -> SUBSET Linha]
      /\ feitas \in [Trabalhadores -> SUBSET Linha] /\ falhas \in [Trabalhadores -> SUBSET Linha]
  BY DEF TypeOK
<1> USE DEF Nucleo, Ir, dados, Largar
<1>1. UmaTrava'  BY <1>0 DEF UmaTrava, TravaImportacao
<1>2. Escritas'  BY <1>0 DEF Escritas
<1>3. \A v \in Trabalhadores : Abertas(v)' \subseteq Abertas(v) /\ feitas'[v] \subseteq feitas[v]
  BY <1>0 DEF Abertas
<1>4. Numeradas'  BY <1>3 DEF Numeradas
<1>5. LidasBatem'  BY <1>3 DEF LidasBatem, MesmaLinha
<1>6. IdUnico' /\ StagingDeUmaLeitura' /\ CarregadaSsePromovida'
  BY DEF IdUnico, StagingDeUmaLeitura, CarregadaSsePromovida, MesmaLinha
<1>7. Documentos'
  <2>1. DocumentoUmaPessoa'  BY DEF Documentos, DocumentoUmaPessoa, ComDocumento
  <2>2. DocumentoLivreNoCadastro'  BY <1>3 DEF Documentos, DocumentoLivreNoCadastro, Pessoa, ComDocumento
  <2>3. DocumentoDeUmaLinha'  BY <1>3 DEF Documentos, DocumentoDeUmaLinha, Pessoa, ComDocumento
  <2>4. DocumentoDeUmaCarga'  BY <1>3 DEF Documentos, DocumentoDeUmaCarga, Pessoa, ComDocumento
  <2> QED  BY <2>1, <2>2, <2>3, <2>4 DEF Documentos
<1> QED  BY <1>1, <1>2, <1>4, <1>5, <1>6, <1>7

LEMMA NucleoApagar ==
    ASSUME TypeOK, Nucleo, NEW w \in Trabalhadores, Apagar(w)
    PROVE  Nucleo'
<1>0. /\ passo \in [Trabalhadores -> Passos] /\ resta \in [Trabalhadores -> SUBSET Linha]
      /\ feitas \in [Trabalhadores -> SUBSET Linha] /\ falhas \in [Trabalhadores -> SUBSET Linha]
      /\ seq \in Nat /\ staging \subseteq Linha /\ cadastro \subseteq Promovida
  BY DEF TypeOK
<1> USE DEF Nucleo, Apagar, Ir, dados
<1>1. UmaTrava'  BY <1>0 DEF UmaTrava, TravaImportacao
<1>2. Escritas'  BY <1>0 DEF Escritas
<1>3. \A v \in Trabalhadores : Abertas(v)' \subseteq Abertas(v)  BY <1>0 DEF Abertas
<1>4. Numeradas'  BY <1>3 DEF Numeradas
<1>5. LidasBatem'  BY <1>3 DEF LidasBatem, MesmaLinha
<1>6. IdUnico' /\ StagingDeUmaLeitura' /\ CarregadaSsePromovida'
  BY DEF IdUnico, StagingDeUmaLeitura, CarregadaSsePromovida, MesmaLinha
<1>7. Documentos'
  <2>1. DocumentoUmaPessoa'  BY DEF Documentos, DocumentoUmaPessoa, ComDocumento
  <2>2. DocumentoLivreNoCadastro'  BY DEF Documentos, DocumentoLivreNoCadastro, Pessoa, ComDocumento
  <2>3. DocumentoDeUmaLinha'  BY DEF Documentos, DocumentoDeUmaLinha, Pessoa, ComDocumento
  <2>4. DocumentoDeUmaCarga'  BY DEF Documentos, DocumentoDeUmaCarga, Pessoa, ComDocumento
  <2> QED  BY <2>1, <2>2, <2>3, <2>4 DEF Documentos
<1> QED  BY <1>1, <1>2, <1>4, <1>5, <1>6, <1>7

\* The rows a validation inserts are new, of one number, and none is loaded.
LEMMA ValidadasNovas ==
    ASSUME NEW m, NEW g \in Nat
    PROVE  /\ \A s \in Validadas(m, g) : s.ger = g /\ s.st \in {"validado", "duplicado"}
           /\ \A s, t \in Validadas(m, g) : s.linha = t.linha => s = t
  BY DEF Validadas

LEMMA NucleoGravar ==
    ASSUME TypeOK, Nucleo, NEW w \in Trabalhadores, Gravar(w)
    PROVE  Nucleo'
<1>0. /\ passo \in [Trabalhadores -> Passos] /\ resta \in [Trabalhadores -> SUBSET Linha]
      /\ feitas \in [Trabalhadores -> SUBSET Linha] /\ falhas \in [Trabalhadores -> SUBSET Linha]
      /\ seq \in Nat /\ staging \subseteq Linha /\ cadastro \subseteq Promovida
  BY DEF TypeOK
<1> DEFINE novas == Validadas(mapaLido[w], seq + 1)
<1>1. /\ \A s \in novas : s.ger = seq + 1 /\ s.st \in {"validado", "duplicado"}
      /\ \A s, t \in novas : s.linha = t.linha => s = t
  BY <1>0, ValidadasNovas
<1>2. /\ staging' = (staging \ resta[w]) \cup novas /\ seq' = seq + 1 /\ cadastro' = cadastro
      /\ Ir(w, "sucesso") /\ Largar(w) /\ passo[w] = "gravar"
  BY DEF Gravar
<1> HIDE DEF novas
<1>3. staging' = novas  BY <1>2 DEF Nucleo, Escritas
<1>4. \A v \in Trabalhadores : v # w => passo[v] # "gravar"
  BY <1>2 DEF Nucleo, UmaTrava, TravaImportacao
<1> USE DEF Nucleo, Ir, Largar
<1>5. UmaTrava'  BY <1>0, <1>2 DEF UmaTrava, TravaImportacao
<1>6. Escritas'  BY <1>0, <1>2, <1>4 DEF Escritas
<1>7. \A v \in Trabalhadores : Abertas(v)' \subseteq Abertas(v) /\ feitas'[v] \subseteq feitas[v]
  BY <1>0, <1>2 DEF Abertas
<1>8. Numeradas'
  <2>1. \A s \in staging' : s.ger <= seq'  BY <1>0, <1>1, <1>2, <1>3
  <2>2. \A c \in cadastro : c.ger \in Nat  BY <1>0 DEF Promovida
  <2>3. \A v \in Trabalhadores : \A s \in Abertas(v) : s.ger \in Nat  BY <1>0 DEF Abertas, Linha
  <2> QED  BY <1>0, <1>2, <1>7, <2>1, <2>2, <2>3 DEF Numeradas
<1>9. LidasBatem'
  <2>1. \A v \in Trabalhadores : \A s \in Abertas(v) : s.ger \in Nat  BY <1>0 DEF Abertas, Linha
  <2> QED  BY <1>0, <1>1, <1>3, <1>7, <2>1 DEF LidasBatem, Numeradas, MesmaLinha
<1>10. IdUnico' /\ StagingDeUmaLeitura'  BY <1>1, <1>3 DEF IdUnico, StagingDeUmaLeitura, MesmaLinha
<1>11. CarregadaSsePromovida'
  <2>1. \A c \in cadastro : c.ger \in Nat /\ c.ger <= seq  BY <1>0 DEF Promovida, Numeradas
  <2> QED  BY <1>0, <1>1, <1>2, <1>3, <2>1 DEF CarregadaSsePromovida
<1>12. Documentos'
  <2>1. DocumentoUmaPessoa'  BY <1>2 DEF Documentos, DocumentoUmaPessoa, ComDocumento
  <2>2. DocumentoLivreNoCadastro'  BY <1>2, <1>7 DEF Documentos, DocumentoLivreNoCadastro, Pessoa, ComDocumento
  <2>3. DocumentoDeUmaLinha'  BY <1>7 DEF Documentos, DocumentoDeUmaLinha, Pessoa, ComDocumento
  <2>4. DocumentoDeUmaCarga'  BY <1>7 DEF Documentos, DocumentoDeUmaCarga, Pessoa, ComDocumento
  <2> QED  BY <2>1, <2>2, <2>3, <2>4 DEF Documentos
<1> QED  BY <1>5, <1>6, <1>8, <1>9, <1>10, <1>11, <1>12

LEMMA NucleoLerCarga ==
    ASSUME TypeOK, Nucleo, NEW w \in Trabalhadores, LerCarga(w), aprovada /\ status # "cancelada"
    PROVE  Nucleo'
<1>0. /\ passo \in [Trabalhadores -> Passos] /\ resta \in [Trabalhadores -> SUBSET Linha]
      /\ feitas \in [Trabalhadores -> SUBSET Linha] /\ falhas \in [Trabalhadores -> SUBSET Linha]
      /\ seq \in Nat /\ staging \subseteq Linha /\ cadastro \subseteq Promovida
  BY DEF TypeOK
<1> DEFINE boas == {s \in staging : s.st = "validado"}
<1>1. /\ resta' = [resta EXCEPT ![w] = boas] /\ seq' = seq + 1 /\ Ir(w, "linhas") /\ passo[w] = "carregar"
      /\ UNCHANGED <<staging, cadastro, feitas, falhas>>
  BY DEF LerCarga
<1>2. boas \subseteq staging /\ \A s \in boas : s.st = "validado"  OBVIOUS
<1> HIDE DEF boas
<1> USE DEF Nucleo, Ir
<1>3. UmaTrava'  BY <1>0, <1>1 DEF UmaTrava, TravaImportacao
<1>4. Escritas'  BY <1>0, <1>1 DEF Escritas
<1>5. /\ \A v \in Trabalhadores \ {w} : Abertas(v)' = Abertas(v)
      /\ Abertas(w)' = boas
  BY <1>0, <1>1 DEF Abertas, Escritas
<1>6. Numeradas'
  <2>1. \A c \in cadastro : c.ger \in Nat  BY <1>0 DEF Promovida
  <2>2. \A v \in Trabalhadores : \A s \in Abertas(v) : s.ger \in Nat  BY <1>0 DEF Abertas, Linha
  <2>3. \A s \in staging : s.ger \in Nat  BY <1>0 DEF Linha
  <2> QED  BY <1>0, <1>1, <1>2, <1>5, <2>1, <2>2, <2>3 DEF Numeradas
<1>7. LidasBatem'  BY <1>1, <1>2, <1>5 DEF LidasBatem, IdUnico, MesmaLinha
<1>8. IdUnico' /\ StagingDeUmaLeitura' /\ CarregadaSsePromovida'
  BY <1>1 DEF IdUnico, StagingDeUmaLeitura, CarregadaSsePromovida, MesmaLinha
<1>9. Documentos'
  <2>1. DocumentoUmaPessoa'  BY <1>1 DEF Documentos, DocumentoUmaPessoa, ComDocumento
  <2>2. DocumentoLivreNoCadastro'  BY <1>1 DEF Documentos, DocumentoLivreNoCadastro, Pessoa, ComDocumento
  <2>3. DocumentoDeUmaLinha'  BY <1>1 DEF Documentos, DocumentoDeUmaLinha, Pessoa, ComDocumento
  <2>4. DocumentoDeUmaCarga'  BY <1>1 DEF Documentos, DocumentoDeUmaCarga, Pessoa, ComDocumento
  <2> QED  BY <2>1, <2>2, <2>3, <2>4 DEF Documentos
<1> QED  BY <1>3, <1>4, <1>6, <1>7, <1>8, <1>9

\* A row leaves the rest of a load: promoted, or with an error.
LEMMA NucleoPromover ==
    ASSUME TypeOK, Nucleo, NEW w \in Trabalhadores, PromoverLinha(w)
    PROVE  Nucleo'
<1>0. /\ passo \in [Trabalhadores -> Passos] /\ resta \in [Trabalhadores -> SUBSET Linha]
      /\ feitas \in [Trabalhadores -> SUBSET Linha] /\ falhas \in [Trabalhadores -> SUBSET Linha]
      /\ seq \in Nat /\ staging \subseteq Linha /\ cadastro \subseteq Promovida
  BY DEF TypeOK
<1>1. PICK s \in resta[w] :
        /\ passo[w] = "linhas"
        /\ DocumentoLivre(w, Pessoa(s)) /\ ~DocumentoUsado(w, Pessoa(s))
        /\ feitas' = [feitas EXCEPT ![w] = @ \cup {s}]
        /\ resta' = [resta EXCEPT ![w] = @ \ {s}]
        /\ UNCHANGED <<staging, cadastro, seq, passo, falhas>>
  BY DEF PromoverLinha, dados
<1> USE DEF Nucleo
<1>2. UmaTrava'  BY <1>1 DEF UmaTrava, TravaImportacao
<1>3. Escritas'  BY <1>0, <1>1 DEF Escritas
<1>4. \A v \in Trabalhadores : Abertas(v)' \subseteq Abertas(v)  BY <1>0, <1>1 DEF Abertas
<1>5. Numeradas'  BY <1>1, <1>4 DEF Numeradas
<1>6. LidasBatem'  BY <1>1, <1>4 DEF LidasBatem, MesmaLinha
<1>7. IdUnico' /\ StagingDeUmaLeitura' /\ CarregadaSsePromovida'
  BY <1>1 DEF IdUnico, StagingDeUmaLeitura, CarregadaSsePromovida, MesmaLinha
<1>8. Documentos'
  <2>0. /\ feitas'[w] = feitas[w] \cup {s}
        /\ \A v \in Trabalhadores \ {w} : feitas'[v] = feitas[v]
        /\ cadastro' = cadastro
    BY <1>0, <1>1
  <2>5. ComDocumento(Pessoa(s)) =>
           /\ \A c \in cadastro : c.pessoa # Pessoa(s)
           /\ \A t \in feitas[w] : Pessoa(t) # Pessoa(s)
           /\ \A v \in Trabalhadores \ {w} : \A t \in feitas[v] : Pessoa(t) # Pessoa(s)
    BY <1>1 DEF DocumentoLivre, DocumentoUsado
  <2>1. DocumentoUmaPessoa'  BY <2>0 DEF Documentos, DocumentoUmaPessoa, ComDocumento
  <2>2. DocumentoLivreNoCadastro'
    BY <2>0, <2>5 DEF Documentos, DocumentoLivreNoCadastro, Pessoa, ComDocumento
  <2>3. DocumentoDeUmaLinha'  BY <2>0, <2>5 DEF Documentos, DocumentoDeUmaLinha, Pessoa, ComDocumento
  <2>4. DocumentoDeUmaCarga'  BY <2>0, <2>5 DEF Documentos, DocumentoDeUmaCarga, Pessoa, ComDocumento
  <2> QED  BY <2>1, <2>2, <2>3, <2>4 DEF Documentos
<1> QED  BY <1>2, <1>3, <1>5, <1>6, <1>7, <1>8

LEMMA NucleoLinhaFalha ==
    ASSUME TypeOK, Nucleo, NEW w \in Trabalhadores, LinhaFalha(w)
    PROVE  Nucleo'
<1>0. /\ passo \in [Trabalhadores -> Passos] /\ resta \in [Trabalhadores -> SUBSET Linha]
      /\ feitas \in [Trabalhadores -> SUBSET Linha] /\ falhas \in [Trabalhadores -> SUBSET Linha]
      /\ seq \in Nat /\ staging \subseteq Linha /\ cadastro \subseteq Promovida
  BY DEF TypeOK
<1>1. PICK s \in resta[w] :
        /\ passo[w] \in {"linhas", "linhaErro"}
        /\ IF Existe(s)
           THEN /\ Ir(w, "linhas")
                /\ falhas' = [falhas EXCEPT ![w] = @ \cup {s}]
                /\ resta' = [resta EXCEPT ![w] = @ \ {s}]
                /\ UNCHANGED feitas
           ELSE Ir(w, "falhar") /\ Largar(w)
        /\ UNCHANGED <<staging, cadastro, seq>>
  BY DEF LinhaFalha, dados
<1>2. CASE ~Existe(s)  BY <1>1, <1>2, NucleoLargar DEF dados
<1>3. CASE Existe(s)
  <2> USE DEF Nucleo
  <2>0. /\ falhas' = [falhas EXCEPT ![w] = @ \cup {s}] /\ resta' = [resta EXCEPT ![w] = @ \ {s}]
        /\ UNCHANGED <<staging, cadastro, seq, feitas>> /\ Ir(w, "linhas")
    BY <1>1, <1>3
  <2>1. UmaTrava'  BY <1>0, <2>0 DEF UmaTrava, TravaImportacao, Ir
  <2>2. Escritas'  BY <1>0, <1>1, <2>0 DEF Escritas, Ir
  <2>3. \A v \in Trabalhadores : Abertas(v)' \subseteq Abertas(v)  BY <1>0, <1>1, <2>0 DEF Abertas, Ir
  <2>4. Numeradas' /\ LidasBatem'  BY <2>0, <2>3 DEF Numeradas, LidasBatem, MesmaLinha
  <2>5. IdUnico' /\ StagingDeUmaLeitura' /\ CarregadaSsePromovida'
    BY <2>0 DEF IdUnico, StagingDeUmaLeitura, CarregadaSsePromovida, MesmaLinha
  <2>6. DocumentoUmaPessoa' /\ DocumentoLivreNoCadastro'
    BY <2>0 DEF Documentos, DocumentoUmaPessoa, DocumentoLivreNoCadastro, Pessoa, ComDocumento
  <2>7. DocumentoDeUmaLinha' /\ DocumentoDeUmaCarga'
    BY <2>0 DEF Documentos, DocumentoDeUmaLinha, DocumentoDeUmaCarga, Pessoa, ComDocumento
  <2> QED  BY <2>1, <2>2, <2>4, <2>5, <2>6, <2>7 DEF Documentos
<1> QED  BY <1>2, <1>3

\* The mark keeps the identity of a row.
LEMMA MarcarLinhas ==
    ASSUME TypeOK, NEW w \in Trabalhadores, NEW x \in Marcar(w)
    PROVE  \/ x \in staging /\ x \notin feitas[w]
           \/ \E s \in staging \cap feitas[w] :
                /\ x = [s EXCEPT !.st = "carregado"] /\ x.st = "carregado" /\ MesmaLinha(x, s)
<1>1. \A s \in staging : /\ [s EXCEPT !.st = "carregado"].st = "carregado"
                         /\ MesmaLinha([s EXCEPT !.st = "carregado"], s)
  BY DEF TypeOK, Linha, MesmaLinha
<1> QED  BY <1>1 DEF Marcar

LEMMA MesmaLinhaIgual ==
    ASSUME NEW s \in Linha, NEW t \in Linha, MesmaLinha(s, t), s.st = t.st
    PROVE  s = t
  BY DEF Linha, MesmaLinha

LEMMA NucleoFimCarga ==
    ASSUME TypeOK, Nucleo, NEW w \in Trabalhadores, FimCarga(w)
    PROVE  Nucleo'
<1>0. /\ passo \in [Trabalhadores -> Passos] /\ resta \in [Trabalhadores -> SUBSET Linha]
      /\ feitas \in [Trabalhadores -> SUBSET Linha] /\ falhas \in [Trabalhadores -> SUBSET Linha]
      /\ seq \in Nat /\ staging \subseteq Linha /\ cadastro \subseteq Promovida
  BY DEF TypeOK
<1> DEFINE pessoa(s) == [pessoa |-> Pessoa(s), linha |-> s.linha, ger |-> s.ger, lote |-> lote[w]]
           novas == {pessoa(s) : s \in feitas[w]}
<1>1. /\ passo[w] = "fim" /\ ImportacaoLivre(w) /\ cadastro' = cadastro \cup novas
      /\ staging' = Marcar(w) /\ seq' = seq /\ Ir(w, "sucesso") /\ Largar(w)
  BY DEF FimCarga, Promovidas
<1>2. \A c \in novas : \E s \in feitas[w] :
         c = pessoa(s) /\ c.pessoa = Pessoa(s) /\ c.linha = s.linha /\ c.ger = s.ger
  OBVIOUS
<1>3. \A s \in feitas[w] : \E c \in novas : c.ger = s.ger /\ c.linha = s.linha
  <2> TAKE s \in feitas[w]
  <2>1. pessoa(s).ger = s.ger /\ pessoa(s).linha = s.linha  OBVIOUS
  <2>2. pessoa(s) \in novas  OBVIOUS
  <2> HIDE DEF pessoa, novas
  <2> WITNESS pessoa(s) \in novas
  <2> QED  BY <2>1
<1>4. \A x \in staging' :
         \/ x \in staging /\ x \notin feitas[w]
         \/ \E s \in staging \cap feitas[w] :
              /\ x = [s EXCEPT !.st = "carregado"] /\ x.st = "carregado" /\ MesmaLinha(x, s)
  BY <1>1, MarcarLinhas
<1> HIDE DEF novas, pessoa
<1> USE DEF Nucleo, Ir, Largar
<1>5. UmaTrava'  BY <1>0, <1>1 DEF UmaTrava, TravaImportacao
<1>6. Escritas'  BY <1>0, <1>1 DEF Escritas, ImportacaoLivre, TravaImportacao
<1>7. \A v \in Trabalhadores : /\ Abertas(v)' \subseteq Abertas(v)
                              /\ feitas'[v] \subseteq feitas[v] /\ (v = w => feitas'[v] = {})
  BY <1>0, <1>1 DEF Abertas
<1>8. feitas[w] \subseteq Abertas(w)  BY DEF Abertas
<1>9. Numeradas'
  <2>1. \A s \in staging' : s.ger <= seq  BY <1>4 DEF Numeradas, MesmaLinha
  <2>2. \A c \in cadastro' : c.ger <= seq  BY <1>1, <1>2, <1>8 DEF Numeradas
  <2> QED  BY <1>1, <1>7, <2>1, <2>2 DEF Numeradas
<1>10. LidasBatem'
  <2>1. \A v \in Trabalhadores : \A t \in Abertas(v) : \A x \in staging' :
           MesmaLinha(x, t) => x.st # "duplicado"
    BY <1>4 DEF LidasBatem, MesmaLinha
  <2> QED  BY <1>7, <2>1 DEF LidasBatem, MesmaLinha
<1>11. IdUnico'
  <2> SUFFICES ASSUME NEW x \in staging', NEW y \in staging', MesmaLinha(x, y)
               PROVE  x = y
    BY DEF IdUnico, MesmaLinha
  <2> QED  BY <1>4 DEF IdUnico, MesmaLinha
<1>12. StagingDeUmaLeitura'  BY <1>4 DEF StagingDeUmaLeitura, MesmaLinha
<1>13. CarregadaSsePromovida'
  <2> SUFFICES ASSUME NEW x \in staging'
               PROVE  x.st = "carregado" <=> \E c \in cadastro' : c.ger = x.ger /\ c.linha = x.linha
    BY DEF CarregadaSsePromovida
  <2>1. CASE x \in staging /\ x \notin feitas[w]
    <3>1. x.st = "carregado" <=> \E c \in cadastro : c.ger = x.ger /\ c.linha = x.linha
      BY <2>1 DEF CarregadaSsePromovida
    <3>2. ASSUME NEW c \in novas, c.ger = x.ger, c.linha = x.linha PROVE x.st = "carregado"
      <4>1. PICK t \in feitas[w] : c.linha = t.linha /\ c.ger = t.ger  BY <1>2
      <4>2. t \in Abertas(w) /\ MesmaLinha(x, t)  BY <1>8, <3>2, <4>1 DEF MesmaLinha
      <4>3. t.st = "validado" /\ x.st # "duplicado"  BY <2>1, <4>2 DEF LidasBatem
      <4>4. x \in Linha /\ t \in Linha  BY <1>0, <2>1
      <4>5. x.st # "validado"  BY <2>1, <4>2, <4>3, <4>4, MesmaLinhaIgual
      <4> QED  BY <4>3, <4>4, <4>5 DEF Linha
    <3> QED  BY <1>1, <3>1, <3>2
  <2>2. ASSUME NEW s \in staging \cap feitas[w], x.st = "carregado", MesmaLinha(x, s)
        PROVE  x.st = "carregado" <=> \E c \in cadastro' : c.ger = x.ger /\ c.linha = x.linha
    BY <1>1, <1>3, <2>2 DEF MesmaLinha
  <2> QED  BY <1>4, <2>1, <2>2
<1>14. Documentos'
  <2>0. \A c \in novas : \A b \in cadastro : b.pessoa = c.pessoa => ~ComDocumento(b.pessoa)
    BY <1>2 DEF Documentos, DocumentoLivreNoCadastro
  <2>5. \A b, c \in novas : b.pessoa = c.pessoa /\ ComDocumento(b.pessoa) => b = c
    BY <1>2 DEF Documentos, DocumentoDeUmaLinha
  <2>6. \A v \in Trabalhadores : \A s \in feitas[v], c \in novas :
           v # w /\ Pessoa(s) = c.pessoa => ~ComDocumento(c.pessoa)
    BY <1>2 DEF Documentos, DocumentoDeUmaCarga
  <2>1. DocumentoUmaPessoa'
    BY <1>1, <2>0, <2>5 DEF Documentos, DocumentoUmaPessoa, ComDocumento
  <2>2. DocumentoLivreNoCadastro'
    BY <1>1, <1>7, <2>6 DEF Documentos, DocumentoLivreNoCadastro, Pessoa, ComDocumento
  <2>3. DocumentoDeUmaLinha'  BY <1>7 DEF Documentos, DocumentoDeUmaLinha, Pessoa, ComDocumento
  <2>4. DocumentoDeUmaCarga'  BY <1>7 DEF Documentos, DocumentoDeUmaCarga, Pessoa, ComDocumento
  <2> QED  BY <2>1, <2>2, <2>3, <2>4 DEF Documentos
<1> QED  BY <1>5, <1>6, <1>9, <1>10, <1>11, <1>12, <1>13, <1>14

(***************************************************************************)
(* The invariant.                                                          *)
(***************************************************************************)
LEMMA NucleoInicial == Init => Nucleo
<1> SUFFICES ASSUME Init PROVE Nucleo  OBVIOUS
<1> USE DEF Init
<1>1. UmaTrava /\ Escritas  BY DEF UmaTrava, Escritas, TravaImportacao
<1>2. Numeradas /\ LidasBatem  BY DEF Numeradas, LidasBatem, Abertas
<1>3. IdUnico /\ StagingDeUmaLeitura /\ CarregadaSsePromovida
  BY DEF IdUnico, StagingDeUmaLeitura, CarregadaSsePromovida
<1>4. Documentos
  BY DEF Documentos, DocumentoUmaPessoa, DocumentoLivreNoCadastro, DocumentoDeUmaLinha,
     DocumentoDeUmaCarga
<1> QED  BY <1>1, <1>2, <1>3, <1>4 DEF Nucleo

LEMMA NucleoPedido ==
    ASSUME Nucleo,
           \/ \E m \in Mapas : Pedir(m)
           \/ Aprovar \/ Cancelar
           \/ \E j \in Jobs : Despachar(j) \/ DespachoPerdido(j) \/ Reentregar(j)
    PROVE  Nucleo'
<1>1. UNCHANGED <<dados, passo, resta, feitas, falhas>>
  BY DEF Pedir, CriarImportacao, AtualizarMapa, Reprocessar, Remapear, Aprovar, Cancelar, Despachar,
         DespachoPerdido, Reentregar, trab, lidos
<1> QED  BY <1>1, NucleoIgual

LEMMA NucleoTrabalho ==
    ASSUME TypeOK, Mensagens, Nucleo, NEW w \in Trabalhadores, Trabalhar(w) \/ Cair(w)
    PROVE  Nucleo'
<1> USE DEF lidos
<1>0. passo[w] \notin {"linhas", "linhaErro", "fim"} => feitas[w] = {} /\ falhas[w] = {}  BY DEF Nucleo, Escritas
<1>1. ASSUME NEW j \in Jobs, Receber(w, j) PROVE Nucleo'
  <2>1. tipo[j] \in {"validar", "carregar"}  BY <1>1 DEF Receber, Mensagens, TypeOK
  <2> QED  BY <1>0, <1>1, <2>1, NucleoPasso DEF Receber, Passos
<1>2. CASE LerImportacao(w)
  <2>1. PICK p \in {"falhar", "travar"} : Ir(w, p)  BY <1>2 DEF LerImportacao
  <2> QED  BY <1>0, <1>2, <2>1, NucleoPasso DEF LerImportacao, Passos
<1>3. CASE ArquivoIlegivel(w)  BY <1>0, <1>3, NucleoPasso DEF ArquivoIlegivel, Passos
<1>4. CASE Travar(w)  BY <1>0, <1>4, NucleoPasso DEF Travar, Passos
<1>5. CASE Apagar(w)  BY <1>5, NucleoApagar
<1>6. CASE Gravar(w)  BY <1>6, NucleoGravar
<1>7. CASE LerCarga(w)
  <2>1. CASE aprovada /\ status # "cancelada"  BY <1>7, <2>1, NucleoLerCarga
  <2>2. CASE ~(aprovada /\ status # "cancelada")
    BY <1>0, <1>7, <2>2, NucleoPasso DEF LerCarga, dados, Passos
  <2> QED  BY <2>1, <2>2
<1>8. CASE PromoverLinha(w)  BY <1>8, NucleoPromover
<1>9. CASE LinhaFalha(w)  BY <1>9, NucleoLinhaFalha
<1>10. CASE TerminarLinhas(w)  BY <1>10, NucleoPasso DEF TerminarLinhas, Passos
<1>11. CASE FimCarga(w)  BY <1>11, NucleoFimCarga
<1>12. CASE Vitima(w)
  <2>1. CASE passo[w] = "linhas"
    <3>1. Ir(w, "linhaErro") /\ UNCHANGED <<dados, resta, feitas, falhas>>
      BY <1>12, <2>1 DEF Vitima
    <3>2. /\ passo \in [Trabalhadores -> Passos] /\ \A v \in Trabalhadores : Abertas(v)' = Abertas(v)
      BY <2>1, <3>1 DEF TypeOK, Ir, Abertas
    <3>3. UmaTrava' /\ Escritas'
      BY <2>1, <3>1, <3>2 DEF Nucleo, UmaTrava, Escritas, TravaImportacao, Ir, dados
    <3>4. Numeradas' /\ LidasBatem'
      BY <3>1, <3>2 DEF Nucleo, Numeradas, LidasBatem, MesmaLinha, dados
    <3>5. IdUnico' /\ StagingDeUmaLeitura' /\ CarregadaSsePromovida'
      BY <3>1 DEF Nucleo, IdUnico, StagingDeUmaLeitura, CarregadaSsePromovida, MesmaLinha, dados
    <3>6. DocumentoUmaPessoa' /\ DocumentoLivreNoCadastro'
      BY <3>1 DEF Nucleo, Documentos, DocumentoUmaPessoa, DocumentoLivreNoCadastro, Pessoa, ComDocumento, dados
    <3>7. DocumentoDeUmaLinha' /\ DocumentoDeUmaCarga'
      BY <3>1 DEF Nucleo, Documentos, DocumentoDeUmaLinha, DocumentoDeUmaCarga, Pessoa, ComDocumento
    <3> QED  BY <3>3, <3>4, <3>5, <3>6, <3>7 DEF Nucleo, Documentos
  <2>2. CASE passo[w] # "linhas"  BY <1>12, <2>2, NucleoLargar DEF Vitima
  <2> QED  BY <2>1, <2>2
<1>13. CASE Falhar(w)  BY <1>13, NucleoLargar DEF Falhar
<1>14. CASE MarcarSucesso(w)  BY <1>0, <1>14, NucleoPasso DEF MarcarSucesso, MarcarJob, Passos
<1>15. CASE MarcarErro(w)  BY <1>0, <1>15, NucleoPasso DEF MarcarErro, MarcarJob, Passos
<1>16. CASE Cair(w)  BY <1>16, NucleoLargar DEF Cair
<1> QED  BY <1>1, <1>2, <1>3, <1>4, <1>5, <1>6, <1>7, <1>8, <1>9, <1>10, <1>11, <1>12, <1>13, <1>14,
            <1>15, <1>16
         DEF Trabalhar

(***************************************************************************)
(* linhas_validas.                                                         *)
(***************************************************************************)
Aceitaveis == {s \in staging : s.st # "duplicado"}
Contadas == IsFiniteSet(Aceitaveis) /\ validas = Cardinality(Aceitaveis)

LEMMA ContadasIgual ==
    ASSUME Contadas, UNCHANGED <<staging, validas>>
    PROVE  Contadas'
  BY DEF Contadas, Aceitaveis

LEMMA ContadasGravar ==
    ASSUME TypeOK, Nucleo, NEW w \in Trabalhadores, Gravar(w)
    PROVE  Contadas'
<1> DEFINE novas == Validadas(mapaLido[w], seq + 1)
           boas == {s \in novas : s.st = "validado"}
<1>1. seq + 1 \in Nat  BY DEF TypeOK
<1>2. \A s \in novas : s.st \in {"validado", "duplicado"}  BY <1>1, ValidadasNovas
<1>3. IsFiniteSet(boas)  BY <1>1, ValidadasFinitas, FS_Subset, boas \in SUBSET novas
<1>4. staging' = (staging \ resta[w]) \cup novas /\ validas' = Cardinality(boas) /\ passo[w] = "gravar"
  BY DEF Gravar
<1>5. staging' = novas  BY <1>4 DEF Nucleo, Escritas
<1> HIDE DEF novas
<1>6. Aceitaveis' = boas  BY <1>2, <1>5 DEF Aceitaveis
<1> HIDE DEF boas
<1> QED  BY <1>3, <1>4, <1>6 DEF Contadas

\* The end of a load renames rows one to one.
LEMMA ContadasFimCarga ==
    ASSUME TypeOK, Nucleo, Contadas, NEW w \in Trabalhadores, FimCarga(w)
    PROVE  Contadas'
<1> DEFINE nova(s) == IF s \in feitas[w] THEN [s EXCEPT !.st = "carregado"] ELSE s
           f == [s \in Aceitaveis |-> nova(s)]
<1>1. staging' = Marcar(w) /\ validas' = validas  BY DEF FimCarga
<1>2. \A s \in staging : MesmaLinha(nova(s), s) /\ (s \in feitas[w] => nova(s).st = "carregado")
  BY DEF TypeOK, Linha, MesmaLinha
<1>3. \A s \in staging : nova(s) \in Marcar(w)  BY DEF Marcar
<1>4. \A s \in staging \cap feitas[w] : s.st = "validado"  BY DEF Nucleo, LidasBatem, Abertas
<1>5. \A x \in staging' : (x \in staging /\ x = nova(x)) \/ (\E s \in staging \cap feitas[w] : x = nova(s))
  BY <1>1, MarcarLinhas
<1>6. \A s \in staging : s \notin feitas[w] => nova(s) = s  OBVIOUS
<1> HIDE DEF nova
<1>7. f \in [Aceitaveis -> Aceitaveis']  BY <1>1, <1>2, <1>3, <1>4, <1>6 DEF Aceitaveis
<1>8. \A s, t \in Aceitaveis : f[s] = f[t] => s = t
  BY <1>2 DEF Aceitaveis, Nucleo, IdUnico, MesmaLinha
<1>9. \A x \in Aceitaveis' : \E s \in Aceitaveis : f[s] = x
  BY <1>4, <1>5 DEF Aceitaveis
<1>10. f \in Bijection(Aceitaveis, Aceitaveis')
  BY <1>7, <1>8, <1>9 DEF Bijection, Injection, Surjection, IsInjective
<1>11. ExistsBijection(Aceitaveis, Aceitaveis')  BY <1>10 DEF ExistsBijection
<1> HIDE DEF f
<1> QED  BY <1>1, <1>11, FS_Bijection DEF Contadas

LEMMA ContadasTrabalho ==
    ASSUME TypeOK, Nucleo, Contadas, NEW w \in Trabalhadores, Trabalhar(w) \/ Cair(w)
    PROVE  Contadas'
<1>1. CASE Gravar(w)  BY <1>1, ContadasGravar
<1>2. CASE FimCarga(w)  BY <1>2, ContadasFimCarga
<1>3. CASE ~Gravar(w) /\ ~FimCarga(w)
  <2>1. UNCHANGED <<staging, validas>>
    BY <1>3 DEF Trabalhar, Receber, LerImportacao, ArquivoIlegivel, Travar, Apagar, LerCarga,
       PromoverLinha,
       LinhaFalha, TerminarLinhas, Vitima, Falhar, MarcarSucesso, MarcarErro, MarcarJob, Cair, importacao, dados
  <2> QED  BY <2>1, ContadasIgual
<1> QED  BY <1>1, <1>2, <1>3

Inv == TypeOK /\ Mensagens /\ Ocupados /\ Nucleo /\ Contadas

LEMMA InvInicial == Init => Inv
<1> SUFFICES ASSUME Init PROVE Inv  OBVIOUS
<1>1. TypeOK  BY DEF Init, TypeOK, Status, Passos
<1>2. Mensagens /\ Ocupados  BY NadaNovo DEF Init, Mensagens, Ocupados
<1>3. Nucleo  BY NucleoInicial
<1>4. Contadas  BY FS_EmptySet DEF Init, Contadas, Aceitaveis
<1> QED  BY <1>1, <1>2, <1>3, <1>4 DEF Inv

LEMMA InvParado == Inv /\ UNCHANGED vars => Inv'
<1> SUFFICES ASSUME Inv, UNCHANGED vars PROVE Inv'  OBVIOUS
<1> USE DEF vars, importacao, linhasJob, broker, trab, lidos
<1>1. TypeOK'  BY DEF Inv, TypeOK, dados
<1>2. Mensagens' /\ Ocupados'  BY DEF Inv, Mensagens, Ocupados
<1>3. Nucleo'  BY NucleoIgual DEF Inv
<1>4. Contadas'  BY ContadasIgual DEF Inv, dados
<1> QED  BY <1>1, <1>2, <1>3, <1>4 DEF Inv

\* Everything the other theorems need of a state of the import: what is in
\* the tables and what the workers hold fit together after every statement.
THEOREM Invariante == Spec => []Inv
<1>1. Init => Inv  BY InvInicial
<1>2. Inv /\ [Next]_vars => Inv'
  <2> SUFFICES ASSUME Inv, [Next]_vars PROVE Inv'  OBVIOUS
  <2>1. CASE \/ \E m \in Mapas : Pedir(m)
             \/ Aprovar \/ Cancelar
             \/ \E j \in Jobs : Despachar(j) \/ DespachoPerdido(j) \/ Reentregar(j)
    <3>1. UNCHANGED <<staging, validas>>
      BY <2>1 DEF Pedir, CriarImportacao, AtualizarMapa, Reprocessar, Remapear, Aprovar, Cancelar,
         Despachar,
         DespachoPerdido, Reentregar, importacao, dados
    <3> QED  BY <2>1, <3>1, TipoPedido, NucleoPedido, ContadasIgual DEF Inv
  <2>2. ASSUME NEW w \in Trabalhadores, Trabalhar(w) \/ Cair(w) PROVE Inv'
    BY <2>2, TipoTrabalho, NucleoTrabalho, ContadasTrabalho DEF Inv
  <2>3. CASE UNCHANGED vars  BY <2>3, InvParado
  <2> QED  BY <2>1, <2>2, <2>3 DEF Next
<1> QED  BY <1>1, <1>2, PTL DEF Spec

\* The tables of mod_etl and the variables of the workers keep their types.
THEOREM TiposCorretos == Spec => []TypeOK
<1>1. Inv => TypeOK  BY DEF Inv
<1> QED  BY <1>1, Invariante, PTL

\* Whatever is remapped, validated or delivered again, the staged rows of an
\* import come from one validation, and linhas_validas, on which the approval is
\* decided, counts those that are not duplicates.
THEOREM StagingConferida == Spec => []StagingConfere
<1>1. Inv => StagingConfere
  BY DEF Inv, Nucleo, Contadas, Aceitaveis, StagingConfere, ValidasConferem
<1> QED  BY <1>1, Invariante, PTL

\* A staged row is "carregado" exactly when a person was created from it.
THEOREM PromocaoMarcada == Spec => []CarregadaSsePromovida
<1>1. Inv => CarregadaSsePromovida  BY DEF Inv, Nucleo
<1> QED  BY <1>1, Invariante, PTL

\* Loads that overlap or run again create a person with a document once.
THEOREM DocumentoUnico == Spec => []DocumentoUmaPessoa
<1>1. Inv => DocumentoUmaPessoa  BY DEF Inv, Nucleo, Documentos
<1> QED  BY <1>1, Invariante, PTL

\* Both at once: what a load leaves, whatever it overlaps.
THEOREM CargaSempreConfere == Spec => []CargaConfere
<1>1. Inv => CargaConfere  BY DEF Inv, Nucleo, Documentos, CargaConfere
<1> QED  BY <1>1, Invariante, PTL
=============================================================================
